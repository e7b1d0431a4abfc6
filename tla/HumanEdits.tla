----------------------------- MODULE HumanEdits -----------------------------
(***************************************************************************)
(* Obligations of the registry between the nightly re-derivation, which    *)
(* reads them off the clauses in force, and the approval console, where    *)
(* maintainers change, validate or judge them.  Every console decision is  *)
(* kept in a ledger of human edits with the text it was taken on; a        *)
(* nightly pass over the ledger puts back what a re-derivation of the same *)
(* text has undone and hands a decision whose text has changed back to the *)
(* maintainers as a conflict proposal.                                     *)
(*                                                                         *)
(* A transaction of the console is two steps, what it reads and what it    *)
(* commits: under READ COMMITTED others commit in between.  The pass reads *)
(* its list in one transaction and treats each edit in one of its own, in  *)
(* two steps as well.                                                      *)
(* Of the editable fields of a row one stands for those that say what the  *)
(* obligation is; the other is its status, which readers may ask to change *)
(* like any field and validations and verdicts write as well.              *)
(*                                                                         *)
(* Rows are derived and revoked by extractions: the nightly one, and those *)
(* run when a clause changes, which may overlap it.  Two more writers of   *)
(* rows are left out: the refinement of derived fields by a model and the  *)
(* revocation of obligations on their expiry.                              *)
(***************************************************************************)
EXTENDS Naturals, Sequences, FiniteSets

CONSTANTS
    Obligation,
    Text,           \* the texts (hashes) a clause may have
    Gone,           \* the clause is no longer in force
    Initially,      \* what a clause may be before the first change
    Value,          \* what readers ask to be put in the field
    StatusAsked,    \* bound: the statuses they ask for
    Maintainer,
    Job,            \* the extractions that may run at a time
    None,
    MaxUpgrades,    \* releases of the extractor
    MaxAmendments,  \* changes of the clauses
    MaxRequests,    \* proposals from readers and from the reviewing model
    MaxValidations,
    MaxEdits        \* bound: entries of the ledger the pass adds to

ASSUME ConstantsAssumption ==
    /\ Gone \notin Text
    /\ Initially \subseteq Text \cup {Gone}
    /\ StatusAsked \subseteq {"derived", "validated", "rejected", "stale"}
    /\ {MaxUpgrades, MaxAmendments, MaxRequests, MaxValidations, MaxEdits}
          \subseteq Nat

VARIABLES
    clause,     \* [Obligation -> Text \cup {Gone}]: what L1 has in force
    extractor,  \* the extractor's version
    row,        \* the obligation rows
    edits,      \* the ledger human_edits, oldest first
    proposals,  \* the queue of proposals
    desk,       \* what each maintainer's request is doing
    reading,    \* what each extraction has read
    pass,       \* the edits the pass over the ledger has still to treat
    amendments  \* a counter, for the bound

console == <<edits, proposals, desk>>
nightly == <<reading, pass>>
world == <<clause, extractor, amendments>>
vars == <<console, nightly, world, row>>

RowStatus == {"derived", "validated", "rejected", "stale"}

FieldValue == Value \cup (Text \X (0..MaxUpgrades))

Row == [hash : Text, method : 0..MaxUpgrades, status : RowStatus,
        value : FieldValue]

(* What decisions are kept apart by, kind and field: "status_edit" is the  *)
(* field edit of a status.                                                 *)
FieldKind == {"field_edit", "status_edit"}

Edit == [of : Obligation, kind : FieldKind \cup {"validation", "verdict"},
         after : FieldValue \cup RowStatus, basis : Text,
         status : {"accepted", "reproduced", "escalated", "superseded"}]

Proposal == [kind : {"l2_modification", "l2_review", "human_edit_conflict"},
             of : Obligation, sets : FieldKind \cup {None},
             value : Value \cup RowStatus \cup Text \cup {None}, edit : Nat,
             status : {"proposed", "approved", "rejected"}]

(* What an extraction is about to do to a row, and from what; before it    *)
(* has read the rows, to "look".                                           *)
Findings == [does : {"look", "leave", "insert", "derive", "revoke"},
             text : Text \cup {Gone}, by : 0..MaxUpgrades]

ASSUME NoneAssumption == None \notin Row

(* What extractor v makes of text t.                                       *)
Derivation(t, v) ==
    [hash |-> t, method |-> v, status |-> "derived", value |-> <<t, v>>]

Idle == [step |-> "idle", p |-> 0, of |-> None, seen |-> None]

Init ==
    /\ clause \in [Obligation -> Initially]
    /\ extractor = 0
    /\ row = [o \in Obligation |->
                IF clause[o] = Gone THEN None ELSE Derivation(clause[o], 0)]
    /\ edits = <<>>
    /\ proposals = <<>>
    /\ desk = [m \in Maintainer |-> Idle]
    /\ reading = [j \in Job |-> None]
    /\ pass = <<>>
    /\ amendments = 0

-----------------------------------------------------------------------------
(* The world: L1 puts another text in force, the extractor is released.    *)

Amend(o) ==
    /\ amendments < MaxAmendments
    /\ clause' \in {[clause EXCEPT ![o] = t] : t \in (Text \cup {Gone}) \ {clause[o]}}
    /\ amendments' = amendments + 1
    /\ UNCHANGED <<console, nightly, row, extractor>>

Upgrade ==
    /\ extractor < MaxUpgrades
    /\ extractor' = extractor + 1
    /\ UNCHANGED <<console, nightly, row, clause, amendments>>

-----------------------------------------------------------------------------
(* An extraction reads the clauses, then the rows, and commits what        *)
(* differs: a row of the same text and the same extractor is left alone,   *)
(* one whose clause is gone turns stale, any other is derived anew with    *)
(* all its fields.                                                         *)

(* Mutant: a new extractor leaves the row of an unchanged text alone.      *)
SameText(o, f) == row[o].hash = f.text

Same(o, f) == row[o].hash = f.text /\ row[o].method = f.by

(* Mutant: a clause that is gone is read like any other.                   *)
FindingGone(o, f) ==
    CASE row[o] = None -> "insert"
      [] row[o] # None -> IF Same(o, f) THEN "leave" ELSE "derive"

Finding(o, f) ==
    CASE f.text = Gone ->
           IF row[o] = None \/ row[o].status = "stale" THEN "leave" ELSE "revoke"
      [] f.text # Gone /\ row[o] = None -> "insert"
      [] f.text # Gone /\ row[o] # None ->
           IF Same(o, f) THEN "leave" ELSE "derive"

Looking(j) == reading[j] # None /\ \A o \in Obligation : reading[j][o].does = "look"

ReadClauses(j) ==
    /\ reading[j] = None
    /\ reading' = [reading EXCEPT ![j] =
          [o \in Obligation |-> [does |-> "look", text |-> clause[o], by |-> extractor]]]
    /\ UNCHANGED <<console, world, row, pass>>

ReadRows(j) ==
    /\ Looking(j)
    /\ reading' = [reading EXCEPT ![j] =
          [o \in Obligation |->
             [reading[j][o] EXCEPT !.does = Finding(o, reading[j][o])]]]
    /\ UNCHANGED <<console, world, row, pass>>

(* What finding f makes of the row of o.                                   *)
Found(o, f) ==
    CASE f.does \in {"look", "leave"} -> row[o]
      [] f.does = "revoke" -> [row[o] EXCEPT !.status = "stale"]
      [] f.does \in {"insert", "derive"} -> Derivation(f.text, f.by)

(* Another extraction has inserted a row in between: the transaction fails *)
(* on its key.                                                             *)
Doubled(findings) ==
    \E o \in Obligation : findings[o].does = "insert" /\ row[o] # None

Extract(j) ==
    /\ reading[j] # None /\ ~Looking(j)
    /\ row' = IF Doubled(reading[j]) THEN row
              ELSE [o \in Obligation |-> Found(o, reading[j][o])]
    /\ reading' = [reading EXCEPT ![j] = None]
    /\ UNCHANGED <<console, world, pass>>

-----------------------------------------------------------------------------
(* Proposals: a reader asks for a modification; the second model doubts an *)
(* obligation that is derived or validated.                                *)

Propose(p) == proposals' = Append(proposals, p)

Requested ==
    Cardinality({p \in DOMAIN proposals : proposals[p].kind # "human_edit_conflict"})

Request(o, kind, v) ==
    /\ row[o] # None
    /\ Requested < MaxRequests
    /\ Propose([kind |-> "l2_modification", of |-> o, sets |-> kind, value |-> v,
                edit |-> 0, status |-> "proposed"])
    /\ UNCHANGED <<edits, desk, nightly, world, row>>

(* A text is read by the second model once.                                *)
Doubted(o) ==
    \E p \in DOMAIN proposals : /\ proposals[p].kind = "l2_review"
                                /\ proposals[p].of = o
                                /\ proposals[p].value = row[o].hash

Doubt(o) ==
    /\ row[o] # None
    /\ row[o].status \in {"derived", "validated"}
    /\ ~Doubted(o)
    /\ Requested < MaxRequests
    /\ Propose([kind |-> "l2_review", of |-> o, sets |-> None,
                value |-> row[o].hash, edit |-> 0, status |-> "proposed"])
    /\ UNCHANGED <<edits, desk, nightly, world, row>>

-----------------------------------------------------------------------------
(* A decision flips the proposal in one transaction and takes effect in a  *)
(* second one; rejecting a modification has no effect.                     *)

Flip(m, p, decision) ==
    /\ desk[m] = Idle
    /\ proposals[p].status = "proposed"
    /\ proposals' = [proposals EXCEPT ![p].status = decision]
    /\ desk' = IF proposals[p].kind = "l2_modification" /\ decision = "rejected"
               THEN desk
               ELSE [desk EXCEPT ![m] = [Idle EXCEPT !.step = "decided", !.p = p,
                                                     !.of = proposals[p].of]]
    /\ UNCHANGED <<edits, nightly, world, row>>

(* The request's transaction reads the obligation; a validation starts     *)
(* here.                                                                   *)
Seen(o) == [hash |-> row[o].hash, status |-> row[o].status]

Open(m) ==
    /\ desk[m].step = "decided"
    /\ desk' = [desk EXCEPT ![m].step = "open", ![m].seen = Seen(desk[m].of)]
    /\ UNCHANGED <<edits, proposals, nightly, world, row>>

Validate(m, o) ==
    /\ desk[m] = Idle
    /\ row[o] # None
    /\ Cardinality({i \in DOMAIN edits : edits[i].kind = "validation"})
         < MaxValidations
    /\ desk' = [desk EXCEPT ![m] =
                  [step |-> "open", p |-> 0, of |-> o, seen |-> Seen(o)]]
    /\ UNCHANGED <<edits, proposals, nightly, world, row>>

(* Mutant: a decision supersedes those of every kind.                      *)
RecordedOverAll(o, kind, after, basis) ==
    Append([i \in DOMAIN edits |->
              IF edits[i].of = o /\ edits[i].status # "superseded"
              THEN [edits[i] EXCEPT !.status = "superseded"]
              ELSE edits[i]],
           [of |-> o, kind |-> kind, after |-> after, basis |-> basis,
            status |-> "accepted"])

(* A newer decision supersedes the older one of its kind and field.        *)
Recorded(o, kind, after, basis) ==
    Append([i \in DOMAIN edits |->
              IF /\ edits[i].of = o /\ edits[i].kind = kind
                 /\ edits[i].status \in {"accepted", "reproduced", "escalated"}
              THEN [edits[i] EXCEPT !.status = "superseded"]
              ELSE edits[i]],
           [of |-> o, kind |-> kind, after |-> after, basis |-> basis,
            status |-> "accepted"])

(* What an open request is about, and the end of its transaction.          *)
Asked(m) == IF desk[m].p = 0 THEN None ELSE proposals[desk[m].p]

Commit(m, o, r, es) ==
    /\ row' = [row EXCEPT ![o] = r]
    /\ edits' = es
    /\ desk' = [desk EXCEPT ![m] = Idle]
    /\ UNCHANGED <<proposals, nightly, world>>

Put(r, kind, v) == IF kind = "status_edit" THEN [r EXCEPT !.status = v]
                                           ELSE [r EXCEPT !.value = v]

EditField(m, o, kind, v) ==
    Commit(m, o, Put(row[o], kind, v), Recorded(o, kind, v, desk[m].seen.hash))

(* The status is written as computed from the row read, not from the row.  *)
MarkValidated(m, o) ==
    LET seen == desk[m].seen
    IN  Commit(m, o,
               [row[o] EXCEPT !.status = IF seen.status = "derived"
                                         THEN "validated" ELSE seen.status],
               Recorded(o, "validation", "validated", seen.hash))

ApplyModification(m) ==
    /\ desk[m].step = "open" /\ desk[m].p # 0
    /\ Asked(m).kind = "l2_modification"
    /\ EditField(m, desk[m].of, Asked(m).sets, Asked(m).value)

ApplyValidation(m) ==
    /\ desk[m].step = "open" /\ desk[m].p = 0
    /\ MarkValidated(m, desk[m].of)

(* Mutant: the row is promoted by its present status.                      *)
JudgedNow(m, r) ==
    IF Asked(m).status = "approved" THEN [r EXCEPT !.status = "rejected"]
    ELSE IF r.status = "derived" THEN [r EXCEPT !.status = "validated"] ELSE r

(* Approving a doubt says the obligation is incorrect, rejecting it that   *)
(* it is correct; only a derived row is promoted then.                     *)
Judged(m, r) ==
    IF Asked(m).status = "approved" THEN [r EXCEPT !.status = "rejected"]
    ELSE IF desk[m].seen.status = "derived"
         THEN [r EXCEPT !.status = "validated"] ELSE r

ApplyVerdict(m) ==
    LET o == desk[m].of
    IN  /\ desk[m].step = "open" /\ desk[m].p # 0
        /\ Asked(m).kind = "l2_review"
        /\ Commit(m, o, Judged(m, row[o]),
                  Recorded(o, "verdict", Judged(m, desk[m].seen).status,
                           desk[m].seen.hash))

(* A conflict: the edit is taken again on the new text (whatever is not a  *)
(* field edit as a validation), or the derivation stands.                  *)
ApplyConflict(m) ==
    LET e == edits[Asked(m).edit]
    IN  /\ desk[m].step = "open" /\ desk[m].p # 0
        /\ Asked(m).kind = "human_edit_conflict"
        /\ CASE Asked(m).status = "rejected" ->
                  Commit(m, e.of, row[e.of],
                         [edits EXCEPT ![Asked(m).edit].status = "superseded"])
             [] Asked(m).status = "approved" /\ e.kind \in FieldKind ->
                  EditField(m, e.of, e.kind, e.after)
             [] Asked(m).status = "approved" /\ e.kind \notin FieldKind ->
                  MarkValidated(m, e.of)

-----------------------------------------------------------------------------
(* The pass over the ledger.                                               *)

Live(status) == status \in {"accepted", "reproduced"}

(* The live edits, oldest first, with the status they have in the list.    *)
ListEdits ==
    LET live == {i \in DOMAIN edits : Live(edits[i].status)}
    IN  /\ pass = <<>>
        /\ live # {}
        /\ \E order \in [1..Cardinality(live) -> live] :
              /\ \A j, k \in DOMAIN order : j < k => order[j] < order[k]
              /\ pass' = [k \in DOMAIN order |->
                            [edit |-> order[k], finds |-> None,
                             status |-> edits[order[k]].status]]
        /\ UNCHANGED <<console, reading, world, row>>

(* A field is lost when it differs; a judgement when the row is derived.   *)
Lost(e, r) ==
    CASE e.kind = "field_edit" -> r.value # e.after
      [] e.kind = "status_edit" -> r.status # e.after
      [] OTHER -> r.status # e.after /\ r.status = "derived"

(* The transaction of an edit reads the row: the text has changed, or what *)
(* the edit said is lost, or it is intact.                                 *)
Finds(e, r) ==
    CASE r.hash # e.basis -> "changed"
      [] r.hash = e.basis /\ Lost(e, r) -> "lost"
      [] r.hash = e.basis /\ ~Lost(e, r) -> "intact"

ReadEdit ==
    /\ pass # <<>> /\ Head(pass).finds = None
    /\ LET e == edits[Head(pass).edit]
       IN  pass' = [pass EXCEPT ![1].finds = Finds(e, row[e.of])]
    /\ UNCHANGED <<console, reading, world, row>>

(* By what it read, the edit goes back to the maintainers, or is put back, *)
(* or keeps the status it has in the list.                                 *)
Escalate(i) ==
    /\ Propose([kind |-> "human_edit_conflict", of |-> edits[i].of, sets |-> None,
                value |-> None, edit |-> i, status |-> "proposed"])
    /\ edits' = [edits EXCEPT ![i].status = "escalated"]
    /\ UNCHANGED row

Reassert(i) ==
    LET e == edits[i]
    IN  /\ IF e.kind \in FieldKind
           THEN /\ Len(edits) < MaxEdits
                /\ row' = [row EXCEPT ![e.of] = Put(@, e.kind, e.after)]
                /\ edits' = [Recorded(e.of, e.kind, e.after, row[e.of].hash)
                               EXCEPT ![i].status = "superseded"]
           ELSE /\ row' = [row EXCEPT ![e.of].status = e.after]
                /\ edits' = [edits EXCEPT ![i].status = "reproduced"]
        /\ UNCHANGED proposals

Intact(i, status) ==
    /\ edits' = [edits EXCEPT ![i].status = status]
    /\ UNCHANGED <<row, proposals>>

CheckEdit ==
    /\ pass # <<>>
    /\ LET i == Head(pass).edit
       IN  \/ Head(pass).finds = "changed" /\ Escalate(i)
           \/ Head(pass).finds = "lost" /\ Reassert(i)
           \/ Head(pass).finds = "intact" /\ Intact(i, Head(pass).status)
    /\ pass' = Tail(pass)
    /\ UNCHANGED <<desk, reading, world>>

-----------------------------------------------------------------------------
(* A process dies, or its transaction fails on an identifier that another  *)
(* one drew at the same time: what it has not committed is gone.           *)
Lose ==
    /\ \/ /\ \E m \in Maintainer : /\ desk[m] # Idle
                                   /\ desk' = [desk EXCEPT ![m] = Idle]
          /\ UNCHANGED nightly
       \/ /\ \E j \in Job : /\ reading[j] # None
                            /\ reading' = [reading EXCEPT ![j] = None]
          /\ UNCHANGED <<pass, desk>>
       \/ /\ pass # <<>>
          /\ pass' = <<>>
          /\ UNCHANGED <<reading, desk>>
    /\ UNCHANGED <<edits, proposals, world, row>>

Decide(m) == \E p \in DOMAIN proposals, d \in {"approved", "rejected"} :
                Flip(m, p, d)

Console(m) ==
    \/ Decide(m) \/ Open(m)
    \/ \E o \in Obligation : Validate(m, o)
    \/ ApplyModification(m) \/ ApplyValidation(m)
    \/ ApplyVerdict(m) \/ ApplyConflict(m)

Extraction(j) == ReadClauses(j) \/ ReadRows(j) \/ Extract(j)

Reproduction == ListEdits \/ ReadEdit \/ CheckEdit

Next ==
    \/ \E o \in Obligation : \/ Amend(o) \/ Doubt(o)
                             \/ \E v \in Value : Request(o, "field_edit", v)
                             \/ \E v \in StatusAsked : Request(o, "status_edit", v)
    \/ Upgrade
    \/ \E m \in Maintainer : Console(m)
    \/ \E j \in Job : Extraction(j)
    \/ Reproduction
    \/ Lose

Spec == Init /\ [][Next]_vars

(* Extractions are run for ever, and those that die do not always die at   *)
(* the same step.  None has to be run for a change, nobody has to decide   *)
(* anything, a request may stay open and the pass may never come.          *)
FairSpec ==
    /\ Spec
    /\ WF_vars(\E j \in Job : ReadClauses(j))
    /\ \A j \in Job : SF_vars(ReadRows(j)) /\ SF_vars(Extract(j))

-----------------------------------------------------------------------------
(* Rows, edits and proposals are well formed, and whatever points at an    *)
(* edit or a proposal points at one that exists (platform/console.py).     *)
TypeOK ==
    /\ clause \in [Obligation -> Text \cup {Gone}]
    /\ extractor \in 0..MaxUpgrades
    /\ row \in [Obligation -> Row \cup {None}]
    /\ edits \in Seq(Edit)
    /\ proposals \in Seq(Proposal)
    /\ \A p \in DOMAIN proposals :
          proposals[p].kind = "human_edit_conflict" =>
            proposals[p].edit \in DOMAIN edits
    /\ \A m \in Maintainer :
          /\ desk[m].step \in {"idle", "decided", "open"}
          /\ desk[m].p \in 0..Len(proposals)
          /\ desk[m].step = "open" => desk[m].seen \in [hash : Text, status : RowStatus]
    /\ reading \in [Job -> {None} \cup [Obligation -> Findings]]
    /\ \A k \in DOMAIN pass : /\ pass[k].edit \in DOMAIN edits
                               /\ pass[k].finds \in {"changed", "lost", "intact", None}
    /\ amendments \in 0..MaxAmendments

(* No human decision vanishes quietly: an edit is superseded only when a   *)
(* later decision of its kind on the same obligation is in the ledger, or  *)
(* a maintainer let the new derivation stand against it (console.py:228,   *)
(* 477, 617).                                                              *)
Answered ==
    \A i \in DOMAIN edits : edits[i].status = "superseded" =>
        \/ \E j \in DOMAIN edits :
              /\ j > i
              /\ edits[j].of = edits[i].of /\ edits[j].kind = edits[i].kind
        \/ \E p \in DOMAIN proposals :
              /\ proposals[p].kind = "human_edit_conflict"
              /\ proposals[p].edit = i
              /\ proposals[p].status = "rejected"

(* A row says validated or rejected only as somebody decided: the ledger   *)
(* has an edit of its status, a validation or a verdict with that outcome, *)
(* whatever else was read, derived, judged and put back at the same time   *)
(* (console.py:228, 296, 337, 450, 647).                                   *)
Vouched ==
    \A o \in Obligation :
        row[o] # None /\ row[o].status \in {"validated", "rejected"} =>
            \E i \in DOMAIN edits :
                /\ edits[i].of = o
                /\ edits[i].kind # "field_edit"
                /\ edits[i].after = row[o].status

(* Whatever the console writes over it, a row ends up derived from the     *)
(* text in force by the current extractor, and stale when there is none -- *)
(* unless a live edit of its status keeps being put back every night and   *)
(* revoked by the next extraction (l2/extract.py:255, console.py:642).     *)
Contested(o) ==
    \E i \in DOMAIN edits : /\ edits[i].of = o /\ edits[i].kind = "status_edit"
                            /\ edits[i].after # "stale" /\ Live(edits[i].status)

Follows ==
    <>[](\A o \in Obligation :
            IF clause[o] = Gone
            THEN row[o] = None \/ row[o].status = "stale" \/ Contested(o)
            ELSE /\ row[o] # None
                 /\ row[o].hash = clause[o] /\ row[o].method = extractor)
=============================================================================
