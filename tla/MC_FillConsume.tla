----------------------------- MODULE MC_FillConsume -----------------------------
(* Small instances of FillConsume: blocks with up to two transactions, as the    *)
(* tool ran them, altered afterwards, or with an error of the Engine API.        *)
EXTENDS FillConsume

Plain == [txs |-> <<>>, says |-> "no", finds |-> "no", altered |-> FALSE, real |-> "no",
          code |-> "no", malformed |-> "no"]
Declared == {"no", "A", "B"}
Found == {"no", "A", "undefined"}
Tx == [want : {"no", "A"}, got : {"no", "A", "B"}]

TheBlocks ==
  {[Plain EXCEPT !.says = s, !.finds = f] : s \in Declared, f \in Found}
  \union {[Plain EXCEPT !.txs = <<t>>, !.says = s] : t \in Tx, s \in Declared}
  \union {[Plain EXCEPT !.txs = <<t, u>>, !.says = s] : t \in Tx, u \in Tx, s \in {"no", "A"}}
  \union {[Plain EXCEPT !.says = s, !.altered = TRUE, !.real = r, !.code = c, !.malformed = m] :
            s \in Declared, r \in {"no", "A"}, c \in {"no", "-38005"}, m \in {"no", "-38005"}}
================================================================================
