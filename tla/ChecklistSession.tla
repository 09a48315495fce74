--------------------------- MODULE ChecklistSession ---------------------------
(* The session of the `checklist` command (pytest_plugins/filler/             *)
(* eip_checklist.py): it collects the tests, runs none, and writes for every  *)
(* EIP it met the template with each item filled in: which tests cover it,    *)
(* what covers it outside, or why it does not apply.                          *)
(*                                                                            *)
(* A test belongs to the EIP of the outermost directory of its path that is   *)
(* named for one, and its markers may name other EIPs.  What an EIP says of   *)
(* itself is in two files of its directory, which is known only once a test   *)
(* of that directory was collected.                                           *)
EXTENDS Integers, Sequences, FiniteSets, SequencesExt, FiniteSetsExt, EIPChecklist

CONSTANTS EipOf,                \* the number a directory is named for
          NotApplicable,        \* the lines of its two files, if it has them:
          External,             \*   [id, reason]; a reason "" is a line without one
          Collections,          \* what may be collected: sets of tests
          Wishes,               \* what --checklist-eip may name: sets of EIPs
          DocGen                \* what --checklist-doc-gen may be

\* A test is [node, dirs, skipped, marks]: its node id, the directories of its
\* path that are named for an EIP, the outermost first, whether it is skipped or
\* derived from another, and its markers [args, eips, ints]: the items, the EIPs
\* it names, and whether these are all integers.

VARIABLES collected, requested, docs,   \* how it was called
          unread,                       \* the tests that are not looked at yet
          eips, order,                  \* the dictionary of the EIPs, and its order
          written,                      \* the checklist of each EIP
          phase                         \* "collect", "write", "done", "failed"

call == <<collected, requested, docs>>
checklistVars == <<call, unread, eips, order, written, phase>>

None == "none"
NoEips == <<>>

\* The EIP of a test, or 0, and those it names.
Own(t) == IF t.dirs = <<>> THEN 0 ELSE EipOf[Head(t.dirs)]
Named(t) == UNION {m.eips : m \in ToSet(t.marks)}

\* An EIP has a positive number; directories have names, and only they have files.
ASSUME DirectoriesAssumption ==
  /\ \A d \in DOMAIN EipOf : EipOf[d] \in Nat \ {0}
  /\ None \notin DOMAIN EipOf \union DOMAIN NotApplicable \union DOMAIN External

ASSUME TestsAssumption ==
  \A c \in Collections : \A t \in c :
    /\ t.dirs \in Seq(DOMAIN EipOf) /\ t.skipped \in BOOLEAN
    /\ IsFiniteSet(Named(t)) /\ Named(t) \subseteq Nat \ {0}

ChecklistInit == /\ collected \in Collections /\ requested \in Wishes /\ docs \in DocGen
                 /\ unread = collected
                 /\ eips = NoEips /\ order = <<>> /\ written = NoEips
                 /\ phase = "collect"

(******************************** Collecting *********************************)

resolve_id(id) == {p \in Template : Within(p, id)}

NewEip(path) == [path |-> path, tests |-> {}]

\* dict.setdefault
Adding(numbers, path, known) ==
  [n \in DOMAIN known \union numbers |-> IF n \in DOMAIN known THEN known[n] ELSE NewEip(path)]

\* Mutant: the directory of an EIP that is known already is not noted.
OwnEipOnce(t, known) ==
  IF t.dirs = <<>> \/ Own(t) \in DOMAIN known THEN known
  ELSE Adding({Own(t)}, Head(t.dirs), known)

get_eip_from_item(t, known) ==
  IF t.dirs = <<>> THEN known
  ELSE IF Own(t) \notin DOMAIN known THEN Adding({Own(t)}, Head(t.dirs), known)
  ELSE [known EXCEPT ![Own(t)].path = IF @ = None THEN Head(t.dirs) ELSE @]

get_eip(numbers, known) == Adding(numbers, None, known)

Failing(m) == m.args = <<>> \/ ~m.ints

\* Every item its markers cover, for its own EIP and for those the marker names.
collect_from_item(t, known) ==
  [n \in DOMAIN known |->
     [known[n] EXCEPT !.tests = @ \union
        {<<p, t.node>> : p \in UNION {UNION {resolve_id(id) : id \in ToSet(m.args)} :
                                       m \in {m \in ToSet(t.marks) : n = Own(t) \/ n \in m.eips}}}]]

\* Mutant: a skipped test makes no EIP known.
CollectItemSkipping(t) ==
  /\ phase = "collect" /\ t \in unread
  /\ LET known == IF t.skipped THEN eips
                  ELSE collect_from_item(t, get_eip(Named(t), get_eip_from_item(t, eips)))
     IN /\ eips' = known
        /\ order' = order \o SetToSeq(DOMAIN known \ DOMAIN eips)
  /\ phase' = IF ~t.skipped /\ \E m \in ToSet(t.marks) : Failing(m) THEN "failed" ELSE phase
  /\ unread' = unread \ {t}
  /\ UNCHANGED <<call, written>>

CollectItem(t) ==
  /\ phase = "collect" /\ t \in unread
  /\ LET own == get_eip_from_item(t, eips)
         known == IF t.skipped THEN own ELSE collect_from_item(t, get_eip(Named(t), own))
     IN /\ eips' = known
        /\ order' = order \o SetToSeq(DOMAIN own \ DOMAIN eips)
                          \o SetToSeq(DOMAIN known \ DOMAIN own)
  /\ phase' = IF ~t.skipped /\ \E m \in ToSet(t.marks) : Failing(m) THEN "failed" ELSE phase
  /\ unread' = unread \ {t}
  /\ UNCHANGED <<call, written>>

Collected == /\ phase = "collect" /\ unread = {}
             /\ phase' = "write"
             /\ UNCHANGED <<call, unread, eips, order, written>>

(********************************* Writing ***********************************)

Lines(file, path) == IF path \in DOMAIN file THEN file[path] ELSE <<>>
Malformed(file, path) == \E l \in ToSet(Lines(file, path)) : l.reason = "" \/ l.id = <<>>

\* mark_not_applicable, mark_external_coverage: the last line that resolves to
\* an item is the one that counts.
Reason(file, path, p) ==
  LET lines == Lines(file, path)
      said == {i \in DOMAIN lines : p \in resolve_id(lines[i].id)}
  IN IF said = {} THEN "" ELSE lines[Max(said)].reason

\* What is known of an item: the tests, and the two reasons.
EIPItem(tests, path, p) ==
  [tests |-> {x[2] : x \in {x \in tests : x[1] = p}},
   not_applicable |-> Reason(NotApplicable, path, p),
   external |-> Reason(External, path, p)]

covered(item) == item.tests # {} \/ item.external # ""
applicable(item) == item.not_applicable = ""

\* The line of an item: its sign, and what stands beside it.
Line(item) ==
  IF item.external # "" THEN [sign |-> "yes", tests |-> {}, reason |-> item.external]
  ELSE IF item.tests # {}
       THEN [sign |-> IF applicable(item) THEN "yes" ELSE "doubtful",
             tests |-> item.tests, reason |-> ""]
  ELSE [sign |-> IF applicable(item) THEN "no" ELSE "N/A",
        tests |-> {}, reason |-> item.not_applicable]

Checklist(items) ==
  [lines |-> [p \in Template |-> Line(items[p])],
   total |-> Cardinality({p \in Template : applicable(items[p])}),
   covered |-> Cardinality({p \in Template : applicable(items[p]) /\ covered(items[p])}),
   conflicts |-> {p \in Template : ~applicable(items[p]) /\ covered(items[p])}]

generate_filled_checklist_lines(eip) ==
  Checklist([p \in Template |-> EIPItem(eip.tests, eip.path, p)])

\* One EIP after the other; the documentation's are kept back until the last.
Generate ==
  /\ phase = "write" /\ order # <<>>
  /\ LET n == Head(order)  e == eips[n] IN
     \/ /\ requested # {} /\ n \notin requested
        /\ order' = Tail(order)
        /\ UNCHANGED <<written, phase>>
     \/ /\ requested = {} \/ n \in requested
        /\ \/ /\ docs /\ e.path = None
              /\ phase' = "failed" /\ written' = NoEips
              /\ UNCHANGED order
           \/ /\ ~(docs /\ e.path = None)
              /\ Malformed(NotApplicable, e.path) \/ Malformed(External, e.path)
              /\ phase' = "failed" /\ written' = IF docs THEN NoEips ELSE written
              /\ UNCHANGED order
           \/ /\ ~(docs /\ e.path = None)
              /\ ~Malformed(NotApplicable, e.path) /\ ~Malformed(External, e.path)
              /\ written' = [m \in DOMAIN written \union {n} |->
                               IF m = n THEN generate_filled_checklist_lines(e) ELSE written[m]]
              /\ order' = Tail(order)
              /\ UNCHANGED phase
  /\ UNCHANGED <<call, unread, eips>>

Publish == /\ phase = "write" /\ order = <<>>
           /\ phase' = "done"
           /\ UNCHANGED <<call, unread, eips, order, written>>

ChecklistNext == (\E t \in collected : CollectItem(t)) \/ Collected \/ Generate \/ Publish

ChecklistSpec == ChecklistInit /\ [][ChecklistNext]_checklistVars

-------------------------------------------------------------------------------
(* What the collection and the files say, read all at once.                   *)

Counting == {t \in collected : ~t.skipped}
Homes(n) == {Head(t.dirs) : t \in {t \in collected : Own(t) = n /\ t.dirs # <<>>}}
Marked(n, p) ==
  {t \in Counting : \E m \in ToSet(t.marks) : /\ n = Own(t) \/ n \in m.eips
                                             /\ \E id \in ToSet(m.args) : IsPrefix(id, p)}
Said(file, d, p) == IF d \notin DOMAIN file THEN {}
                    ELSE {i \in DOMAIN file[d] : IsPrefix(file[d][i].id, p)}
LastSaid(file, d, p) == IF Said(file, d, p) = {} THEN ""
                        ELSE file[d][Max(Said(file, d, p))].reason

Signs(n, d, p) ==
  LET tests == {t.node : t \in Marked(n, p)}
      out == LastSaid(External, d, p)
      not == LastSaid(NotApplicable, d, p)
  IN [yes |-> out # "" \/ (tests # {} /\ not = ""), na |-> not # "" /\ out = "" /\ tests = {},
      tests |-> IF out = "" THEN tests ELSE {}]

\* A checklist that was written says of each item which tests of the whole
\* collection cover it for this EIP (its own, and those that name it, by the item
\* or one above it; none that is skipped), in whatever order they were collected,
\* and, if a test of its directory was, what the files there say; the items it
\* counts as covered are the applicable ones that have a test or a procedure.
ChecklistIsTrue ==
  \A n \in DOMAIN written : \E d \in IF Homes(n) = {} THEN {None} ELSE Homes(n) :
    /\ \A p \in Template :
         LET line == written[n].lines[p]  truth == Signs(n, d, p) IN
         /\ line.tests = truth.tests
         /\ (line.sign = "yes") = truth.yes /\ (line.sign = "N/A") = truth.na
    /\ written[n].total = Cardinality({p \in Template : LastSaid(NotApplicable, d, p) = ""})
    /\ written[n].covered =
         Cardinality({p \in Template : LastSaid(NotApplicable, d, p) = "" /\ Signs(n, d, p).yes})

\* The session ends with a checklist for each EIP that has a directory of tests,
\* skipped ones included, or that a test names (and that was asked for), or it
\* fails because of a marker, a file, or a named EIP without a place in the
\* documentation.
Concerned == {Own(t) : t \in {t \in collected : t.dirs # <<>>}} \union UNION {Named(t) : t \in Counting}
EveryEipReported ==
  /\ phase = "done" =>
       DOMAIN written = {n \in Concerned : requested = {} \/ n \in requested}
  /\ phase = "failed" =>
       \/ \E t \in Counting, m \in UNION {ToSet(t.marks) : t \in Counting} :
            m \in ToSet(t.marks) /\ Failing(m)
       \/ \E n \in Concerned : \E d \in Homes(n) : Malformed(NotApplicable, d) \/ Malformed(External, d)
       \/ docs /\ \E n \in Concerned : Homes(n) = {}

===============================================================================
