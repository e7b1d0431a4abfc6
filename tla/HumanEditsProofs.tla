--------------------------- MODULE HumanEditsProofs ---------------------------
(***************************************************************************)
(* For any obligations, texts, values and maintainers: rows, ledger and    *)
(* queue are well formed, no human decision vanishes unanswered, and a row *)
(* says validated or rejected only as somebody decided.                    *)
(*                                                                         *)
(* A request or a pass acts on what it read in an earlier step.  What it   *)
(* relies on is never taken back: a row never disappears, the ledger and   *)
(* the queue only grow, an edit keeps its subject, its kind and its        *)
(* outcome, a proposal that is decided stays decided.                      *)
(***************************************************************************)
EXTENDS HumanEdits, FiniteSetTheorems, SequenceTheorems, TLAPS

SeenRow == [hash : Text, status : RowStatus]

DeskOK ==
    desk \in [Maintainer -> [step : {"idle", "decided", "open"}, p : Nat,
                             of : Obligation \cup {None},
                             seen : SeenRow \cup {None}]]

PassItem ==
    [edit : Nat, finds : {"changed", "lost", "intact", None},
     status : {"accepted", "reproduced"}]

(* Every edit is about a row that exists, and says what its kind says.     *)
Says(kind, after) ==
    IF kind = "field_edit" THEN after \in FieldValue ELSE after \in RowStatus

EditsInv ==
    \A i \in DOMAIN edits :
        row[edits[i].of] # None /\ Says(edits[i].kind, edits[i].after)

Asks(p) ==
    p.kind = "l2_modification" => p.sets \in FieldKind /\ Says(p.sets, p.value)

ProposalsInv ==
    \A p \in DOMAIN proposals :
        /\ row[proposals[p].of] # None
        /\ Asks(proposals[p])
        /\ proposals[p].kind = "human_edit_conflict" =>
              edits[proposals[p].edit].of = proposals[p].of

(* Somebody decided that obligation o has status s.                        *)
Decided(o, s) ==
    \E i \in DOMAIN edits :
        edits[i].of = o /\ edits[i].kind # "field_edit" /\ edits[i].after = s

(* A request is about a row that exists and a proposal that is decided;    *)
(* the status it saw was vouched for.                                      *)
DeskInv(m) ==
    /\ desk[m].step # "idle" =>
          /\ desk[m].of \in Obligation
          /\ row[desk[m].of] # None
          /\ desk[m].p # 0 => /\ proposals[desk[m].p].status # "proposed"
                              /\ proposals[desk[m].p].of = desk[m].of
    /\ desk[m].step = "open" =>
          /\ desk[m].seen \in SeenRow
          /\ desk[m].seen.status \in {"validated", "rejected"} =>
                Decided(desk[m].of, desk[m].seen.status)

(* What an extraction is about to derive has a text, and what it is about  *)
(* to revoke a row.                                                        *)
Grounded(o, f) ==
    /\ f.does \in {"insert", "derive"} => f.text \in Text
    /\ f.does = "revoke" => row[o] # None

ReadingInv ==
    \A j \in Job : reading[j] # None =>
        \A o \in Obligation : Grounded(o, reading[j][o])

IInv ==
    /\ TypeOK /\ DeskOK /\ pass \in Seq(PassItem)
    /\ EditsInv
    /\ ProposalsInv
    /\ \A m \in Maintainer : DeskInv(m)
    /\ ReadingInv
    /\ Answered
    /\ Vouched

-----------------------------------------------------------------------------
(* The ledger and the queue as sequences.                                  *)
LEMMA Items ==
    ASSUME NEW S, NEW seq \in Seq(S)
    PROVE  /\ Len(seq) \in Nat
           /\ DOMAIN seq = 1..Len(seq)
           /\ \A i \in DOMAIN seq : seq[i] \in S
BY LenProperties

LEMMA NoItems == DOMAIN <<>> = {}
<1>1. DOMAIN <<>> = 1..0
  BY EmptySeq, LenProperties
<1> QED
  BY <1>1

LEMMA IsSeq ==
    ASSUME NEW S, NEW n \in Nat, NEW f \in [1..n -> S]
    PROVE  f \in Seq(S) /\ Len(f) = n
<1>1. f \in Seq(S)
  BY SeqDef
<1>2. DOMAIN f = 1..n /\ DOMAIN f = 1..Len(f) /\ Len(f) \in Nat
  BY <1>1, LenProperties
<1> QED
  BY <1>1, <1>2

LEMMA Adding ==
    ASSUME NEW S, NEW seq \in Seq(S), NEW e \in S
    PROVE  LET new == Append(seq, e)
           IN  /\ new \in Seq(S)
               /\ DOMAIN new = 1..(Len(seq) + 1)
               /\ Len(seq) + 1 \in DOMAIN new
               /\ Len(new) = Len(seq) + 1
               /\ DOMAIN seq \subseteq DOMAIN new
               /\ \A i \in DOMAIN new : i \in DOMAIN seq \/ i = Len(seq) + 1
               /\ \A i \in DOMAIN seq : i < Len(seq) + 1 /\ new[i] = seq[i]
               /\ new[Len(seq) + 1] = e
<1>1. Len(seq) \in Nat /\ DOMAIN seq = 1..Len(seq)
  BY LenProperties
<1>2. /\ Append(seq, e) \in Seq(S)
      /\ Len(Append(seq, e)) = Len(seq) + 1
      /\ \A i \in 1..Len(seq) : Append(seq, e)[i] = seq[i]
      /\ Append(seq, e)[Len(seq) + 1] = e
  BY AppendProperties
<1>3. DOMAIN Append(seq, e) = 1..(Len(seq) + 1)
  BY <1>2, LenProperties
<1> QED
  BY <1>1, <1>2, <1>3

LEMMA Changing ==
    ASSUME NEW S, NEW seq \in Seq(S), NEW i \in DOMAIN seq, NEW e \in S
    PROVE  LET new == [seq EXCEPT ![i] = e]
           IN  /\ new \in Seq(S) /\ Len(new) = Len(seq)
               /\ DOMAIN new = DOMAIN seq
               /\ \A j \in DOMAIN seq : new[j] = IF j = i THEN e ELSE seq[j]
BY LenProperties, ExceptSeq

-----------------------------------------------------------------------------
(* The ledger new holds the ledger of now, of whose edits only those of    *)
(* the same subject and kind may have another status, and one edit more.   *)
Extends(new, o, kind, after) ==
    LET n == Len(edits) + 1
    IN  /\ new \in Seq(Edit)
        /\ n \in DOMAIN new
        /\ new[n].of = o /\ new[n].kind = kind /\ new[n].after = after
        /\ new[n].status = "accepted"
        /\ DOMAIN edits \subseteq DOMAIN new
        /\ \A i \in DOMAIN new : i \in DOMAIN edits \/ i = n
        /\ \A i \in DOMAIN edits :
              /\ i < n
              /\ new[i].of = edits[i].of /\ new[i].kind = edits[i].kind
              /\ new[i].after = edits[i].after
              /\ \/ new[i].status = edits[i].status
                 \/ edits[i].of = o /\ edits[i].kind = kind

LEMMA Recording ==
    ASSUME edits \in Seq(Edit),
           NEW o \in Obligation, NEW kind \in FieldKind \cup {"validation", "verdict"},
           NEW after \in FieldValue \cup RowStatus, NEW basis \in Text
    PROVE  Extends(Recorded(o, kind, after, basis), o, kind, after)
<1> DEFINE older == [i \in DOMAIN edits |->
              IF /\ edits[i].of = o /\ edits[i].kind = kind
                 /\ edits[i].status \in {"accepted", "reproduced", "escalated"}
              THEN [edits[i] EXCEPT !.status = "superseded"]
              ELSE edits[i]]
           newest == [of |-> o, kind |-> kind, after |-> after, basis |-> basis,
                      status |-> "accepted"]
<1>1. /\ Len(edits) \in Nat /\ DOMAIN edits = 1..Len(edits)
      /\ \A i \in DOMAIN edits : edits[i] \in Edit
  BY Items
<1>2. older \in [1..Len(edits) -> Edit]
  BY <1>1 DEF Edit
<1>3. older \in Seq(Edit) /\ Len(older) = Len(edits)
  BY <1>1, <1>2, IsSeq
<1>4. newest \in Edit
  BY DEF Edit
<1>5. Recorded(o, kind, after, basis) = Append(older, newest)
  BY DEF Recorded
<1>6. \A i \in DOMAIN edits :
         /\ older[i].of = edits[i].of /\ older[i].kind = edits[i].kind
         /\ older[i].after = edits[i].after
         /\ \/ older[i].status = edits[i].status
            \/ edits[i].of = o /\ edits[i].kind = kind
  BY <1>1 DEF Edit
<1>7. DOMAIN older = DOMAIN edits
  OBVIOUS
<1> HIDE DEF older, newest
<1> DEFINE new == Append(older, newest)
           n == Len(edits) + 1
<1>8. /\ new \in Seq(Edit)
      /\ n \in DOMAIN new
      /\ new[n] = newest
      /\ DOMAIN older \subseteq DOMAIN new
      /\ \A i \in DOMAIN new : i \in DOMAIN older \/ i = n
      /\ \A i \in DOMAIN older : i < n /\ new[i] = older[i]
  BY <1>3, <1>4, Adding
<1> HIDE DEF new
<1>9. /\ DOMAIN edits \subseteq DOMAIN new
      /\ \A i \in DOMAIN new : i \in DOMAIN edits \/ i = n
      /\ \A i \in DOMAIN edits :
            /\ i < n
            /\ new[i].of = edits[i].of /\ new[i].kind = edits[i].kind
            /\ new[i].after = edits[i].after
            /\ \/ new[i].status = edits[i].status
               \/ edits[i].of = o /\ edits[i].kind = kind
  BY <1>6, <1>7, <1>8
<1>10. /\ newest.of = o /\ newest.kind = kind /\ newest.after = after
       /\ newest.status = "accepted"
  BY DEF newest
<1>11. Extends(new, o, kind, after)
  BY <1>8, <1>9, <1>10 DEF Extends
<1> QED
  BY <1>5, <1>11 DEF new

(* The pass supersedes the edit it records anew.                           *)
LEMMA Superseding ==
    ASSUME edits \in Seq(Edit), NEW new, NEW o, NEW kind, NEW after,
           Extends(new, o, kind, after),
           NEW i \in DOMAIN edits, edits[i].of = o, edits[i].kind = kind
    PROVE  Extends([new EXCEPT ![i].status = "superseded"], o, kind, after)
<1> DEFINE last == [new EXCEPT ![i] = [new[i] EXCEPT !.status = "superseded"]]
<1>1. new \in Seq(Edit) /\ i \in DOMAIN new /\ new[i] \in Edit /\ i < Len(edits) + 1
  BY Items DEF Extends
<1>2. [new[i] EXCEPT !.status = "superseded"] \in Edit
  BY <1>1 DEF Edit
<1>3. /\ last \in Seq(Edit) /\ DOMAIN last = DOMAIN new
      /\ \A j \in DOMAIN new :
            last[j] = IF j = i THEN [new[i] EXCEPT !.status = "superseded"] ELSE new[j]
  BY <1>1, <1>2, Changing
<1>4. /\ last[i].of = new[i].of /\ last[i].kind = new[i].kind
      /\ last[i].after = new[i].after
  BY <1>1, <1>3 DEF Edit
<1>5. [new EXCEPT ![i].status = "superseded"] = last
  OBVIOUS
<1> HIDE DEF last
<1>6. Len(edits) + 1 # i
  BY <1>1, Items
<1>7. Extends(last, o, kind, after)
  BY <1>1, <1>3, <1>4, <1>6 DEF Extends
<1> QED
  BY <1>5, <1>7

-----------------------------------------------------------------------------
(* What an edit that is superseded has been answered by.                   *)
Answer(i) ==
    \/ \E j \in DOMAIN edits :
          j > i /\ edits[j].of = edits[i].of /\ edits[j].kind = edits[i].kind
    \/ \E p \in DOMAIN proposals :
          /\ proposals[p].kind = "human_edit_conflict"
          /\ proposals[p].edit = i
          /\ proposals[p].status = "rejected"

LedgerGrows ==
    /\ DOMAIN edits \subseteq DOMAIN edits'
    /\ \A i \in DOMAIN edits :
          /\ edits'[i].of = edits[i].of /\ edits'[i].kind = edits[i].kind
          /\ edits'[i].after = edits[i].after

QueueGrows ==
    /\ DOMAIN proposals \subseteq DOMAIN proposals'
    /\ \A p \in DOMAIN proposals :
          /\ proposals'[p].kind = proposals[p].kind
          /\ proposals'[p].of = proposals[p].of
          /\ proposals'[p].value = proposals[p].value
          /\ proposals'[p].sets = proposals[p].sets
          /\ proposals'[p].edit = proposals[p].edit
          /\ proposals[p].status # "proposed" =>
                proposals'[p].status = proposals[p].status

RowsStay == \A o \in Obligation : row[o] # None => row'[o] # None

(* What a step may do to rows and ledger, and to the queue.                *)
LedgerEffect ==
    /\ edits' \in Seq(Edit)
    /\ row' \in [Obligation -> Row \cup {None}]
    /\ LedgerGrows
    /\ RowsStay
    /\ \A i \in DOMAIN edits' : i \notin DOMAIN edits =>
          /\ row'[edits'[i].of] # None
          /\ edits'[i].status # "superseded"
          /\ Says(edits'[i].kind, edits'[i].after)
    /\ \A i \in DOMAIN edits :
          edits'[i].status = "superseded" => edits[i].status = "superseded" \/ Answer(i)'
    /\ \A o \in Obligation :
          row'[o] # None /\ row'[o].status \in {"validated", "rejected"} =>
             \/ row[o] # None /\ row'[o].status = row[o].status
             \/ Decided(o, row'[o].status)
             \/ \E i \in DOMAIN edits' : /\ edits'[i].of = o
                                         /\ edits'[i].kind # "field_edit"
                                         /\ edits'[i].after = row'[o].status

QueueEffect ==
    /\ proposals' \in Seq(Proposal)
    /\ QueueGrows
    /\ \A p \in DOMAIN proposals' : p \notin DOMAIN proposals =>
          /\ row'[proposals'[p].of] # None
          /\ Asks(proposals'[p])
          /\ proposals'[p].kind = "human_edit_conflict" =>
                /\ proposals'[p].edit \in DOMAIN edits'
                /\ edits'[proposals'[p].edit].of = proposals'[p].of

(* These effects keep what the ledger and the queue promise.               *)
LEMMA LedgerKept ==
    ASSUME IInv, LedgerEffect, QueueEffect
    PROVE  /\ EditsInv' /\ ProposalsInv' /\ Answered' /\ Vouched'
           /\ \A p \in DOMAIN proposals' :
                 proposals'[p].kind = "human_edit_conflict" =>
                   proposals'[p].edit \in DOMAIN edits'
           /\ \A o \in Obligation, s \in RowStatus : Decided(o, s) => Decided(o, s)'
<1> USE DEF LedgerEffect, QueueEffect
<1>0. /\ edits \in Seq(Edit) /\ proposals \in Seq(Proposal)
      /\ \A p \in DOMAIN proposals :
            proposals[p].kind = "human_edit_conflict" =>
              proposals[p].edit \in DOMAIN edits
  BY DEF IInv, TypeOK
<1>1. /\ \A i \in DOMAIN edits : edits[i].of \in Obligation
      /\ \A p \in DOMAIN proposals : proposals[p].of \in Obligation
  <2>1. \A i \in DOMAIN edits : edits[i] \in Edit
    BY <1>0, Items
  <2>2. \A p \in DOMAIN proposals : proposals[p] \in Proposal
    BY <1>0, Items
  <2> QED
    BY <2>1, <2>2 DEF Edit, Proposal
<1>2. EditsInv'
  BY <1>1 DEF IInv, EditsInv, LedgerGrows, RowsStay
<1>3. ProposalsInv'
  <2> SUFFICES ASSUME NEW p \in DOMAIN proposals, NEW q, q = p
               PROVE  /\ row'[proposals'[q].of] # None
                      /\ Asks(proposals'[q])
                      /\ proposals'[q].kind = "human_edit_conflict" =>
                            edits'[proposals'[q].edit].of = proposals'[q].of
    BY DEF ProposalsInv
  <2>1. /\ proposals'[p].of = proposals[p].of /\ proposals'[p].kind = proposals[p].kind
        /\ proposals'[p].value = proposals[p].value
        /\ proposals'[p].sets = proposals[p].sets
        /\ proposals'[p].edit = proposals[p].edit
    BY DEF QueueGrows
  <2>2. row[proposals[p].of] # None /\ proposals[p].of \in Obligation
    BY <1>1 DEF IInv, ProposalsInv
  <2>3. proposals[p].kind = "human_edit_conflict" =>
          edits'[proposals[p].edit].of = proposals[p].of
    BY <1>0 DEF IInv, ProposalsInv, LedgerGrows
  <2> QED
    BY <2>1, <2>2, <2>3 DEF IInv, ProposalsInv, RowsStay, Asks
<1>4. ASSUME NEW i \in DOMAIN edits, Answer(i) PROVE Answer(i)'
  BY <1>4 DEF Answer, LedgerGrows, QueueGrows
<1>5. Answered'
  <2>1. \A i \in DOMAIN edits' : edits'[i].status = "superseded" => Answer(i)'
    <3>1. \A i \in DOMAIN edits : edits[i].status = "superseded" => Answer(i)
      BY DEF IInv, Answered, Answer
    <3> QED
      BY <1>4, <3>1
  <2> QED
    BY <2>1 DEF Answered, Answer
<1>6. ASSUME NEW o \in Obligation, NEW s \in RowStatus, Decided(o, s)
      PROVE  Decided(o, s)'
  <2>1. PICK i \in DOMAIN edits :
          edits[i].of = o /\ edits[i].kind # "field_edit" /\ edits[i].after = s
    BY <1>6 DEF Decided
  <2>2. /\ i \in DOMAIN edits' /\ edits'[i].of = o
        /\ edits'[i].kind # "field_edit" /\ edits'[i].after = s
    BY <2>1 DEF LedgerGrows
  <2> QED
    BY <2>2 DEF Decided
<1>7. Vouched'
  <2> SUFFICES ASSUME NEW o \in Obligation,
                      row'[o] # None, row'[o].status \in {"validated", "rejected"}
               PROVE  \E i \in DOMAIN edits' : /\ edits'[i].of = o
                                              /\ edits'[i].kind # "field_edit"
                                              /\ edits'[i].after = row'[o].status
    BY DEF Vouched
  <2>1. row[o] # None /\ row'[o].status = row[o].status => Decided(o, row'[o].status)
    BY DEF IInv, Vouched, Decided
  <2> QED
    BY <1>6, <2>1 DEF Decided, RowStatus
<1>8. \A p \in DOMAIN proposals' :
         proposals'[p].kind = "human_edit_conflict" =>
           proposals'[p].edit \in DOMAIN edits'
  BY <1>0 DEF LedgerGrows, QueueGrows
<1>9. \A o \in Obligation, s \in RowStatus : Decided(o, s) => Decided(o, s)'
  BY <1>6
<1> QED
  BY <1>2, <1>3, <1>5, <1>7, <1>8, <1>9

-----------------------------------------------------------------------------
(* Steps that write rows or ledger.                                        *)
LEMMA ItemTypes ==
    ASSUME IInv
    PROVE  /\ \A i \in DOMAIN edits : edits[i] \in Edit /\ row[edits[i].of] \in Row
           /\ \A p \in DOMAIN proposals : proposals[p] \in Proposal
           /\ \A o \in Obligation : row[o] # None => row[o] \in Row
<1>1. edits \in Seq(Edit) /\ proposals \in Seq(Proposal)
      /\ row \in [Obligation -> Row \cup {None}]
  BY DEF IInv, TypeOK
<1>2. \A i \in DOMAIN edits : edits[i] \in Edit
  BY <1>1, Items
<1>3. \A p \in DOMAIN proposals : proposals[p] \in Proposal
  BY <1>1, Items
<1>4. \A o \in Obligation : row[o] # None => row[o] \in Row
  BY <1>1
<1>5. \A i \in DOMAIN edits : edits[i].of \in Obligation /\ row[edits[i].of] # None
  BY <1>2 DEF Edit, IInv, EditsInv
<1> QED
  BY <1>2, <1>3, <1>4, <1>5

(* The status a row gets was its status, or was decided before, or is what *)
(* the edit recorded with it says.                                         *)
MayBecome(o, s, kind, after) ==
    s \in {"validated", "rejected"} =>
       \/ s = row[o].status
       \/ Decided(o, s)
       \/ kind # "field_edit" /\ after = s

LEMMA RecordEffect ==
    ASSUME IInv, NEW o \in Obligation, NEW kind, NEW after,
           Extends(edits', o, kind, after),
           Says(kind, after),
           row[o] # None, NEW r \in Row, row' = [row EXCEPT ![o] = r],
           MayBecome(o, r.status, kind, after)
    PROVE  LedgerEffect
<1> DEFINE n == Len(edits) + 1
<1>0. row \in [Obligation -> Row \cup {None}] /\ r # None
  BY NoneAssumption DEF NoneAssumption, IInv, TypeOK
<1>1. /\ edits' \in Seq(Edit) /\ LedgerGrows
      /\ n \in DOMAIN edits' /\ edits'[n].of = o /\ edits'[n].kind = kind
      /\ edits'[n].after = after /\ edits'[n].status = "accepted"
      /\ \A i \in DOMAIN edits' : i \in DOMAIN edits \/ i = n
      /\ \A i \in DOMAIN edits :
            /\ i < n
            /\ \/ edits'[i].status = edits[i].status
               \/ edits[i].of = o /\ edits[i].kind = kind
  BY DEF Extends, LedgerGrows
<1>2. row' \in [Obligation -> Row \cup {None}] /\ RowsStay /\ row'[o] = r
  BY <1>0 DEF RowsStay
<1> HIDE DEF n
<1>3. \A i \in DOMAIN edits' : i \notin DOMAIN edits =>
          /\ row'[edits'[i].of] # None
          /\ edits'[i].status # "superseded"
          /\ Says(edits'[i].kind, edits'[i].after)
  BY <1>0, <1>1, <1>2
<1>4. ASSUME NEW i \in DOMAIN edits, edits'[i].status = "superseded",
             edits[i].status # "superseded"
      PROVE  Answer(i)'
  <2>1. edits'[i].of = o /\ edits'[i].kind = kind /\ n > i
    <3>1. i < n /\ edits[i].of = o /\ edits[i].kind = kind
      BY <1>1, <1>4
    <3>2. i \in Nat /\ n \in Nat
      BY Items DEF IInv, TypeOK, n
    <3> QED
      BY <1>1, <3>1, <3>2 DEF LedgerGrows
  <2> QED
    BY <1>1, <2>1 DEF Answer
<1>5. ASSUME NEW q \in Obligation, row'[q] # None,
             row'[q].status \in {"validated", "rejected"}
      PROVE  \/ row[q] # None /\ row'[q].status = row[q].status
             \/ Decided(q, row'[q].status)
             \/ \E i \in DOMAIN edits' : /\ edits'[i].of = q
                                         /\ edits'[i].kind # "field_edit"
                                         /\ edits'[i].after = row'[q].status
  BY <1>0, <1>1, <1>2, <1>5 DEF MayBecome
<1> QED
  BY <1>1, <1>2, <1>3, <1>4, <1>5 DEF LedgerEffect

LEMMA StatusEffect ==
    ASSUME IInv, NEW i \in DOMAIN edits,
           NEW s \in {"accepted", "reproduced", "escalated", "superseded"},
           edits' = [edits EXCEPT ![i].status = s],
           s = "superseded" =>
              \E p \in DOMAIN proposals' :
                 /\ proposals'[p].kind = "human_edit_conflict"
                 /\ proposals'[p].edit = i
                 /\ proposals'[p].status = "rejected",
           NEW o \in Obligation, NEW r, row' = [row EXCEPT ![o] = r],
           r = row[o] \/ (r \in Row /\ row[o] # None /\ Decided(o, r.status))
    PROVE  LedgerEffect
<1>0. row \in [Obligation -> Row \cup {None}] /\ edits \in Seq(Edit) /\ edits[i] \in Edit
  BY ItemTypes DEF IInv, TypeOK
<1>1. [edits[i] EXCEPT !.status = s] \in Edit
  BY <1>0 DEF Edit
<1>2. /\ edits' \in Seq(Edit) /\ DOMAIN edits' = DOMAIN edits
      /\ \A j \in DOMAIN edits :
            edits'[j] = IF j = i THEN [edits[i] EXCEPT !.status = s] ELSE edits[j]
  BY <1>0, <1>1, Changing
<1>3. LedgerGrows
  BY <1>0, <1>2 DEF LedgerGrows, Edit
<1>4. row' \in [Obligation -> Row \cup {None}] /\ RowsStay
  BY <1>0, NoneAssumption DEF NoneAssumption, RowsStay
<1>5. ASSUME NEW j \in DOMAIN edits, edits'[j].status = "superseded"
      PROVE  edits[j].status = "superseded" \/ Answer(j)'
  BY <1>0, <1>2, <1>5 DEF Answer, Edit
<1>6. ASSUME NEW q \in Obligation, row'[q] # None
      PROVE  \/ row[q] # None /\ row'[q].status = row[q].status
             \/ Decided(q, row'[q].status)
  BY <1>0, <1>6
<1> QED
  BY <1>2, <1>3, <1>4, <1>5, <1>6 DEF LedgerEffect

LEMMA QuietEffect ==
    ASSUME IInv, UNCHANGED <<row, edits>>
    PROVE  LedgerEffect
BY DEF LedgerEffect, LedgerGrows, RowsStay, IInv, TypeOK

(* The extraction keeps rows, with the status they have, or makes them     *)
(* derived or stale.                                                       *)
LEMMA ExtractEffect ==
    ASSUME IInv, NEW j \in Job, Extract(j)
    PROVE  LedgerEffect
<1> DEFINE r == reading[j]
<1>0. /\ row \in [Obligation -> Row \cup {None}]
      /\ r # None
      /\ row' = IF Doubled(r) THEN row ELSE [o \in Obligation |-> Found(o, r[o])]
      /\ r \in [Obligation -> Findings]
      /\ \A o \in Obligation : Grounded(o, r[o])
      /\ UNCHANGED edits
  BY DEF Extract, console, IInv, TypeOK, ReadingInv
<1> HIDE DEF r
<1>1. ASSUME NEW o \in Obligation
      PROVE  \/ Found(o, r[o]) = row[o]
             \/ /\ Found(o, r[o]) \in Row
                /\ Found(o, r[o]).status \in {"derived", "stale"}
  <2> DEFINE f == r[o]
  <2>0. f \in Findings /\ Grounded(o, f)
    BY <1>0
  <2> HIDE DEF f
  <2>1. CASE f.does \in {"look", "leave"}
    BY <2>1 DEF Found, f
  <2>2. CASE f.does = "revoke"
    <3>1. row[o] \in Row
      BY <1>0, <2>0, <2>2 DEF Grounded
    <3>2. Found(o, f) = [row[o] EXCEPT !.status = "stale"]
      BY <2>2 DEF Found
    <3> QED
      BY <3>1, <3>2 DEF Row, RowStatus, f
  <2>3. CASE f.does \in {"insert", "derive"}
    <3>1. f.text \in Text /\ f.by \in 0..MaxUpgrades
      BY <2>0, <2>3 DEF Grounded, Findings
    <3>2. Found(o, f) = Derivation(f.text, f.by)
      BY <2>3 DEF Found
    <3> QED
      BY <3>1, <3>2 DEF Derivation, Row, RowStatus, FieldValue, f
  <2> QED
    BY <2>0, <2>1, <2>2, <2>3 DEF Findings
<1>2. row' \in [Obligation -> Row \cup {None}] /\ RowsStay
  BY <1>0, <1>1, NoneAssumption DEF NoneAssumption, RowsStay
<1>3. \A o \in Obligation :
         row'[o] # None /\ row'[o].status \in {"validated", "rejected"} =>
            row[o] # None /\ row'[o].status = row[o].status
  BY <1>0, <1>1
<1> QED
  BY <1>0, <1>2, <1>3 DEF LedgerEffect, LedgerGrows, IInv, TypeOK

(* What an edit puts in a row fits it; the status changes with the status. *)
LEMMA Putting ==
    ASSUME NEW r \in Row, NEW kind \in FieldKind, NEW v, Says(kind, v)
    PROVE  /\ Put(r, kind, v) \in Row
           /\ \/ Put(r, kind, v).status = r.status
              \/ kind # "field_edit" /\ Put(r, kind, v).status = v
<1>1. CASE kind = "field_edit"
  BY <1>1 DEF Put, Says, Row
<1>2. CASE kind = "status_edit"
  BY <1>2 DEF Put, Says, Row
<1> QED
  BY <1>1, <1>2 DEF FieldKind

(* The three ways a request writes: a field, a validation, a verdict.      *)
LEMMA FieldEffect ==
    ASSUME IInv, NEW m \in Maintainer, NEW o \in Obligation,
           NEW kind \in FieldKind, NEW v, Says(kind, v),
           row[o] # None, desk[m].seen \in SeenRow, EditField(m, o, kind, v)
    PROVE  LedgerEffect
<1>1. row[o] \in Row /\ edits \in Seq(Edit) /\ desk[m].seen.hash \in Text
  BY ItemTypes DEF IInv, TypeOK, SeenRow
<1>2. /\ edits' = Recorded(o, kind, v, desk[m].seen.hash)
      /\ row' = [row EXCEPT ![o] = Put(row[o], kind, v)]
  BY DEF EditField, Commit
<1>3. /\ Put(row[o], kind, v) \in Row
      /\ MayBecome(o, Put(row[o], kind, v).status, kind, v)
  BY <1>1, Putting DEF MayBecome
<1>4. v \in FieldValue \cup RowStatus
  BY DEF Says
<1>5. Extends(edits', o, kind, v)
  BY <1>1, <1>2, <1>4, Recording
<1> QED
  BY <1>2, <1>3, <1>5, RecordEffect

LEMMA ValidationEffect ==
    ASSUME IInv, NEW m \in Maintainer, NEW o \in Obligation,
           row[o] # None, desk[m].step = "open", desk[m].of = o,
           MarkValidated(m, o)
    PROVE  LedgerEffect
<1> DEFINE seen == desk[m].seen
           s == IF seen.status = "derived" THEN "validated" ELSE seen.status
           r == [row[o] EXCEPT !.status = s]
<1>1. /\ row[o] \in Row /\ edits \in Seq(Edit)
      /\ seen.hash \in Text /\ seen.status \in RowStatus
      /\ seen.status \in {"validated", "rejected"} => Decided(o, seen.status)
  BY ItemTypes DEF IInv, TypeOK, DeskInv, SeenRow
<1>2. /\ edits' = Recorded(o, "validation", "validated", seen.hash)
      /\ row' = [row EXCEPT ![o] = r]
  BY DEF MarkValidated, Commit
<1>3. r \in Row /\ r.status = s /\ "validated" \in RowStatus
  BY <1>1 DEF Row, RowStatus
<1>4. Extends(edits', o, "validation", "validated") /\ Says("validation", "validated")
  BY <1>1, <1>2, <1>3, Recording DEF Says
<1>5. MayBecome(o, r.status, "validation", "validated")
  BY <1>1, <1>3 DEF MayBecome
<1> HIDE DEF r
<1> QED
  BY <1>2, <1>3, <1>4, <1>5, RecordEffect

LEMMA VerdictEffect ==
    ASSUME IInv, NEW m \in Maintainer, ApplyVerdict(m)
    PROVE  LedgerEffect
<1>1. PICK o \in Obligation : o = desk[m].of
  BY DEF ApplyVerdict, IInv, DeskInv
<1> DEFINE seen == desk[m].seen
<1>2. /\ row[o] \in Row /\ row[o] # None
      /\ edits \in Seq(Edit) /\ seen \in SeenRow
      /\ seen.hash \in Text /\ seen.status \in RowStatus
  BY <1>1, ItemTypes DEF ApplyVerdict, IInv, TypeOK, DeskInv, SeenRow
<1>3. /\ Judged(m, seen).status \in RowStatus
      /\ Judged(m, row[o]) \in Row
      /\ \/ Judged(m, row[o]).status = row[o].status
         \/ Judged(m, row[o]).status = Judged(m, seen).status
  BY <1>2 DEF Judged, Row, RowStatus, SeenRow
<1>4. PICK after \in RowStatus, r \in Row :
        after = Judged(m, seen).status /\ r = Judged(m, row[o])
  BY <1>3
<1>5. /\ edits' = Recorded(o, "verdict", after, seen.hash)
      /\ row' = [row EXCEPT ![o] = r]
  BY <1>1, <1>4 DEF ApplyVerdict, Commit
<1>6. Extends(edits', o, "verdict", after) /\ Says("verdict", after)
  BY <1>2, <1>4, <1>5, Recording DEF Says
<1>7. MayBecome(o, r.status, "verdict", after)
  BY <1>3, <1>4 DEF MayBecome
<1> QED
  BY <1>1, <1>2, <1>4, <1>5, <1>6, <1>7, RecordEffect

LEMMA ConflictEffect ==
    ASSUME IInv, NEW m \in Maintainer, ApplyConflict(m)
    PROVE  LedgerEffect
<1> DEFINE p == desk[m].p
           i == Asked(m).edit
           e == edits[i]
<1>1. /\ p \in DOMAIN proposals /\ Asked(m) = proposals[p]
      /\ Asked(m).status # "proposed" /\ Asked(m).of = desk[m].of
  <2>1. p \in 0..Len(proposals) /\ p # 0 /\ DOMAIN proposals = 1..Len(proposals)
        /\ Len(proposals) \in Nat
    BY Items DEF ApplyConflict, IInv, TypeOK
  <2>2. desk[m].step = "open"
    BY DEF ApplyConflict
  <2> QED
    BY <2>1, <2>2 DEF IInv, DeskInv, Asked
<1>2. /\ Asked(m).kind = "human_edit_conflict" /\ i \in DOMAIN edits
      /\ Asked(m).status \in {"approved", "rejected"}
      /\ e.of = desk[m].of
  BY <1>1, ItemTypes DEF ApplyConflict, IInv, TypeOK, ProposalsInv, Proposal
<1>3. /\ e \in Edit /\ e.of \in Obligation /\ row[e.of] # None
      /\ desk[m].step = "open" /\ desk[m].seen \in SeenRow
      /\ Says(e.kind, e.after)
  BY <1>2, ItemTypes DEF ApplyConflict, Edit, IInv, EditsInv, DeskInv
<1>4. CASE Asked(m).status = "rejected"
  <2>1. /\ row' = [row EXCEPT ![e.of] = row[e.of]] /\ UNCHANGED proposals
        /\ edits' = [edits EXCEPT ![i].status = "superseded"]
    BY <1>4 DEF ApplyConflict, Commit
  <2> QED
    BY <1>1, <1>2, <1>3, <1>4, <2>1, StatusEffect
<1>5. CASE Asked(m).status = "approved" /\ e.kind \in FieldKind
  <2>1. EditField(m, e.of, e.kind, e.after)
    BY <1>5 DEF ApplyConflict
  <2> QED
    BY <1>3, <1>5, <2>1, FieldEffect
<1>6. CASE Asked(m).status = "approved" /\ e.kind \notin FieldKind
  <2>1. MarkValidated(m, e.of)
    BY <1>6 DEF ApplyConflict
  <2> QED
    BY <1>2, <1>3, <2>1, ValidationEffect
<1> QED
  BY <1>2, <1>4, <1>5, <1>6

Applies(m) ==
    ApplyModification(m) \/ ApplyValidation(m) \/ ApplyVerdict(m) \/ ApplyConflict(m)

LEMMA ApplyEffect ==
    ASSUME IInv, NEW m \in Maintainer, Applies(m)
    PROVE  /\ LedgerEffect
           /\ desk' = [desk EXCEPT ![m] = Idle]
           /\ UNCHANGED <<proposals, nightly, world>>
<1>1. CASE ApplyModification(m)
  <2>1. /\ desk[m].of \in Obligation /\ row[desk[m].of] # None
        /\ desk[m].seen \in SeenRow
    BY <1>1 DEF ApplyModification, IInv, DeskInv
  <2>2. desk[m].p \in DOMAIN proposals /\ Asked(m) = proposals[desk[m].p]
    <3>1. desk[m].p \in 0..Len(proposals) /\ desk[m].p # 0
          /\ DOMAIN proposals = 1..Len(proposals) /\ Len(proposals) \in Nat
      BY <1>1, Items DEF ApplyModification, IInv, TypeOK
    <3> QED
      BY <3>1 DEF Asked
  <2>3. Asked(m).sets \in FieldKind /\ Says(Asked(m).sets, Asked(m).value)
    BY <1>1, <2>2 DEF ApplyModification, IInv, ProposalsInv, Asks
  <2> QED
    BY <1>1, <2>1, <2>3, FieldEffect DEF ApplyModification, EditField, Commit
<1>2. CASE ApplyValidation(m)
  <2>1. desk[m].of \in Obligation /\ row[desk[m].of] # None
    BY <1>2 DEF ApplyValidation, IInv, DeskInv
  <2> QED
    BY <1>2, <2>1, ValidationEffect DEF ApplyValidation, MarkValidated, Commit
<1>3. CASE ApplyVerdict(m)
  BY <1>3, VerdictEffect DEF ApplyVerdict, Commit
<1>4. CASE ApplyConflict(m)
  <2>1. \E o, r, es : Commit(m, o, r, es)
    <3>1. Asked(m).status \in {"approved", "rejected"}
      <4>1. desk[m].p \in DOMAIN proposals
        BY <1>4, Items DEF ApplyConflict, IInv, TypeOK
      <4> QED
        BY <1>4, <4>1, ItemTypes DEF ApplyConflict, Asked, IInv, DeskInv, Proposal
    <3> QED
      BY <1>4, <3>1 DEF ApplyConflict, EditField, MarkValidated
  <2> QED
    BY <1>4, <2>1, ConflictEffect DEF Commit
<1> QED
  BY <1>1, <1>2, <1>3, <1>4 DEF Applies

(* The pass: an edit goes back to the maintainers, is put back, or stands. *)
LEMMA CheckEffect ==
    ASSUME IInv, CheckEdit
    PROVE  /\ LedgerEffect
           /\ QueueEffect
           /\ \A p \in DOMAIN proposals' :
                 p \in DOMAIN proposals => proposals'[p] = proposals[p]
<1>1. /\ pass \in Seq(PassItem) /\ pass # <<>>
      /\ proposals \in Seq(Proposal) /\ edits \in Seq(Edit)
  BY DEF CheckEdit, IInv, TypeOK
<1>2. Head(pass) \in PassItem /\ Head(pass) = pass[1] /\ 1 \in DOMAIN pass
  BY <1>1, HeadTailProperties, EmptySeq, LenProperties
<1> DEFINE i == Head(pass).edit
           e == edits[i]
<1>3. i \in DOMAIN edits
  BY <1>2 DEF IInv, TypeOK
<1>4. e \in Edit /\ e.of \in Obligation /\ row[e.of] \in Row /\ row[e.of] # None
      /\ Says(e.kind, e.after)
  BY <1>3, ItemTypes DEF Edit, IInv, EditsInv
<1>5. CASE Escalate(i)
  <2> DEFINE q == [kind |-> "human_edit_conflict", of |-> edits[i].of, sets |-> None,
                   value |-> None, edit |-> i, status |-> "proposed"]
  <2>1. i \in Nat
    BY <1>1, <1>3, Items
  <2>2. q \in Proposal
    BY <1>4, <2>1 DEF Proposal
  <2>3. /\ proposals' = Append(proposals, q) /\ row' = row
        /\ edits' = [edits EXCEPT ![i].status = "escalated"]
    BY <1>5 DEF Escalate, Propose
  <2>4. LedgerEffect
    <3>1. row' = [row EXCEPT ![e.of] = row[e.of]]
      BY <2>3 DEF IInv, TypeOK
    <3> QED
      BY <1>3, <1>4, <2>3, <3>1, StatusEffect
  <2>5. /\ q.kind = "human_edit_conflict" /\ q.of = edits[i].of /\ q.edit = i
    OBVIOUS
  <2> HIDE DEF q
  <2>6. /\ proposals' \in Seq(Proposal)
        /\ DOMAIN proposals \subseteq DOMAIN proposals'
        /\ \A p \in DOMAIN proposals : proposals'[p] = proposals[p]
        /\ \A p \in DOMAIN proposals' : p \notin DOMAIN proposals => proposals'[p] = q
    BY <1>1, <2>2, <2>3, Adding
  <2>7. row'[q.of] # None /\ q.edit \in DOMAIN edits' /\ edits'[q.edit].of = q.of
    BY <1>3, <1>4, <2>3, <2>4, <2>5 DEF LedgerEffect, LedgerGrows
  <2> QED
    BY <2>4, <2>5, <2>6, <2>7 DEF QueueEffect, QueueGrows, Asks
<1>6. ASSUME UNCHANGED proposals
      PROVE  /\ QueueEffect
             /\ \A p \in DOMAIN proposals' :
                   p \in DOMAIN proposals => proposals'[p] = proposals[p]
  BY <1>1, <1>6 DEF QueueEffect, QueueGrows
<1>7. CASE Reassert(i) /\ e.kind \in FieldKind
  <2>1. /\ UNCHANGED proposals
        /\ row' = [row EXCEPT ![e.of] = Put(row[e.of], e.kind, e.after)]
        /\ edits' = [Recorded(e.of, e.kind, e.after, row[e.of].hash)
                       EXCEPT ![i].status = "superseded"]
    BY <1>7 DEF Reassert
  <2>2. e.after \in FieldValue \cup RowStatus /\ row[e.of].hash \in Text
    BY <1>4 DEF Says, Row
  <2>3. Extends(Recorded(e.of, e.kind, e.after, row[e.of].hash), e.of, e.kind, e.after)
    BY <1>1, <1>4, <1>7, <2>2, Recording
  <2>4. Extends(edits', e.of, e.kind, e.after)
    BY <1>1, <1>3, <2>1, <2>3, Superseding
  <2>5. /\ Put(row[e.of], e.kind, e.after) \in Row
        /\ MayBecome(e.of, Put(row[e.of], e.kind, e.after).status, e.kind, e.after)
    BY <1>4, <1>7, Putting DEF MayBecome
  <2>6. LedgerEffect
    BY <1>4, <2>1, <2>4, <2>5, RecordEffect
  <2> QED
    BY <1>6, <2>1, <2>6
<1>8. CASE Reassert(i) /\ e.kind \notin FieldKind
  <2>1. /\ UNCHANGED proposals
        /\ row' = [row EXCEPT ![e.of] = [row[e.of] EXCEPT !.status = e.after]]
        /\ edits' = [edits EXCEPT ![i].status = "reproduced"]
    BY <1>8 DEF Reassert
  <2>2. /\ [row[e.of] EXCEPT !.status = e.after] \in Row
        /\ [row[e.of] EXCEPT !.status = e.after].status = e.after
    BY <1>4, <1>8 DEF Says, Row, FieldKind
  <2>3. Decided(e.of, e.after)
    BY <1>3, <1>8 DEF Decided, FieldKind
  <2>4. LedgerEffect
    BY <1>3, <1>4, <2>1, <2>2, <2>3, StatusEffect
  <2> QED
    BY <1>6, <2>1, <2>4
<1>9. CASE Intact(i, Head(pass).status)
  <2>1. /\ UNCHANGED proposals /\ row' = [row EXCEPT ![e.of] = row[e.of]]
        /\ edits' = [edits EXCEPT ![i].status = Head(pass).status]
        /\ Head(pass).status \in {"accepted", "reproduced"}
    BY <1>2, <1>9 DEF Intact, PassItem, IInv, TypeOK
  <2>2. LedgerEffect
    BY <1>3, <1>4, <2>1, StatusEffect
  <2> QED
    BY <1>6, <2>1, <2>2
<1> QED
  BY <1>5, <1>7, <1>8, <1>9 DEF CheckEdit

-----------------------------------------------------------------------------
(* Steps that write the queue.                                             *)
LEMMA QuietQueue ==
    ASSUME IInv, UNCHANGED proposals
    PROVE  QueueEffect
BY DEF QueueEffect, QueueGrows, IInv, TypeOK

LEMMA ProposeEffect ==
    ASSUME IInv, UNCHANGED <<row, edits>>, NEW q \in Proposal, Propose(q),
           row[q.of] # None, q.kind # "human_edit_conflict",
           Asks(q)
    PROVE  QueueEffect
<1>1. proposals \in Seq(Proposal) /\ proposals' = Append(proposals, q)
  BY DEF IInv, TypeOK, Propose
<1>2. /\ proposals' \in Seq(Proposal)
      /\ DOMAIN proposals \subseteq DOMAIN proposals'
      /\ \A p \in DOMAIN proposals : proposals'[p] = proposals[p]
      /\ \A p \in DOMAIN proposals' : p \notin DOMAIN proposals => proposals'[p] = q
  BY <1>1, Adding
<1> QED
  BY <1>2 DEF QueueEffect, QueueGrows

Requests(o) ==
    \/ \E v \in Value : Request(o, "field_edit", v)
    \/ \E v \in StatusAsked : Request(o, "status_edit", v)

LEMMA AskingEffect ==
    ASSUME IInv, NEW o \in Obligation, Doubt(o) \/ Requests(o)
    PROVE  QueueEffect
<1>1. row[o] # None /\ UNCHANGED <<row, edits>>
  BY DEF Doubt, Request, Requests
<1>2. CASE Doubt(o)
  <2> DEFINE q == [kind |-> "l2_review", of |-> o, sets |-> None,
                   value |-> row[o].hash, edit |-> 0, status |-> "proposed"]
  <2>1. row[o].hash \in Text
    BY <1>1, ItemTypes DEF Row
  <2>2. q \in Proposal /\ q.of = o /\ q.kind = "l2_review" /\ Asks(q)
    BY <2>1 DEF Proposal, Asks
  <2>3. Propose(q)
    BY <1>2 DEF Doubt
  <2> HIDE DEF q
  <2> QED
    BY <1>1, <2>2, <2>3, ProposeEffect
<1>3. ASSUME NEW kind \in FieldKind, NEW v \in Value \cup RowStatus, Says(kind, v),
             Request(o, kind, v)
      PROVE  QueueEffect
  <2> DEFINE q == [kind |-> "l2_modification", of |-> o, sets |-> kind, value |-> v,
                   edit |-> 0, status |-> "proposed"]
  <2>1. q \in Proposal /\ q.of = o /\ q.kind = "l2_modification" /\ Asks(q)
    BY <1>3 DEF Proposal, Asks
  <2>2. Propose(q)
    BY <1>3 DEF Request
  <2> HIDE DEF q
  <2> QED
    BY <1>1, <2>1, <2>2, ProposeEffect
<1>4. ASSUME NEW v \in Value, Request(o, "field_edit", v) PROVE QueueEffect
  BY <1>3, <1>4 DEF Says, FieldKind, FieldValue
<1>5. ASSUME NEW v \in StatusAsked, Request(o, "status_edit", v) PROVE QueueEffect
  <2>1. v \in RowStatus
    BY ConstantsAssumption DEF ConstantsAssumption, RowStatus
  <2> QED
    BY <1>3, <1>5, <2>1 DEF Says, FieldKind
<1> QED
  BY <1>2, <1>4, <1>5 DEF Requests

LEMMA FlipEffect ==
    ASSUME IInv, NEW m \in Maintainer, NEW p \in DOMAIN proposals,
           NEW decision \in {"approved", "rejected"}, Flip(m, p, decision)
    PROVE  QueueEffect /\ DOMAIN proposals' = DOMAIN proposals
           /\ proposals'[p].status = decision /\ proposals'[p].of = proposals[p].of
<1>1. proposals \in Seq(Proposal) /\ proposals[p] \in Proposal
  BY ItemTypes DEF IInv, TypeOK
<1>2. [proposals[p] EXCEPT !.status = decision] \in Proposal
  BY <1>1 DEF Proposal
<1>3. proposals' = [proposals EXCEPT ![p] = [proposals[p] EXCEPT !.status = decision]]
      /\ proposals[p].status = "proposed"
  BY DEF Flip
<1>4. /\ proposals' \in Seq(Proposal) /\ DOMAIN proposals' = DOMAIN proposals
      /\ \A q \in DOMAIN proposals :
            proposals'[q] = IF q = p THEN [proposals[p] EXCEPT !.status = decision]
                            ELSE proposals[q]
  BY <1>1, <1>2, <1>3, Changing
<1>5. QueueGrows
  BY <1>1, <1>3, <1>4 DEF QueueGrows, Proposal
<1> QED
  BY <1>1, <1>4, <1>5 DEF QueueEffect, Proposal

LEMMA Effects ==
    ASSUME IInv, [Next]_vars
    PROVE  LedgerEffect /\ QueueEffect
<1>1. ASSUME UNCHANGED <<row, edits, proposals>> PROVE LedgerEffect /\ QueueEffect
  BY <1>1, QuietEffect, QuietQueue
<1>2. ASSUME NEW o \in Obligation,
             Amend(o) \/ Doubt(o) \/ Requests(o)
      PROVE  LedgerEffect /\ QueueEffect
  <2>1. CASE Amend(o)
    BY <1>1, <2>1 DEF Amend, console
  <2>2. CASE Doubt(o) \/ Requests(o)
    <3>1. UNCHANGED <<row, edits>>
      BY <2>2 DEF Doubt, Request, Requests
    <3> QED
      BY <2>2, <3>1, QuietEffect, AskingEffect
  <2> QED
    BY <1>2, <2>1, <2>2
<1>3. ASSUME NEW m \in Maintainer, Console(m) PROVE LedgerEffect /\ QueueEffect
  <2>1. CASE Applies(m)
    BY <2>1, ApplyEffect, QuietQueue
  <2>2. ASSUME NEW p \in DOMAIN proposals, NEW d \in {"approved", "rejected"},
               Flip(m, p, d)
        PROVE  LedgerEffect /\ QueueEffect
    <3>1. UNCHANGED <<row, edits>>
      BY <2>2 DEF Flip
    <3> QED
      BY <2>2, <3>1, FlipEffect, QuietEffect
  <2>3. ASSUME Open(m) \/ \E o \in Obligation : Validate(m, o)
        PROVE  UNCHANGED <<row, edits, proposals>>
    BY <2>3 DEF Open, Validate
  <2> QED
    BY <1>1, <1>3, <2>1, <2>2, <2>3 DEF Console, Decide, Applies
<1>4. ASSUME NEW j \in Job, Extract(j) PROVE LedgerEffect /\ QueueEffect
  BY <1>4, ExtractEffect, QuietQueue DEF Extract, console
<1>5. CASE CheckEdit
  BY <1>5, CheckEffect
<1>6. ASSUME Upgrade \/ (\E j \in Job : ReadClauses(j) \/ ReadRows(j)) \/ ListEdits \/ ReadEdit \/ Lose \/ UNCHANGED vars
      PROVE  UNCHANGED <<row, edits, proposals>>
  BY <1>6 DEF Upgrade, ReadClauses, ReadRows, ListEdits, ReadEdit, Lose, vars, console
<1> QED
  BY <1>1, <1>2, <1>3, <1>4, <1>5, <1>6 DEF Next, Requests, Extraction, Reproduction

-----------------------------------------------------------------------------
(* The requests.                                                           *)
DeskEntry ==
    [step : {"idle", "decided", "open"}, p : Nat, of : Obligation \cup {None},
     seen : SeenRow \cup {None}]

PointsWell(m) ==
    /\ desk[m].p \in 0..Len(proposals)
    /\ desk[m].step = "open" => desk[m].seen \in SeenRow

LEMMA Pointing ==
    ASSUME proposals \in Seq(Proposal), NEW p
    PROVE  p \in 0..Len(proposals) <=> p = 0 \/ p \in DOMAIN proposals
<1>1. Len(proposals) \in Nat /\ DOMAIN proposals = 1..Len(proposals)
  BY Items
<1> QED
  BY <1>1

(* A request that waits: what it relies on is still there.                 *)
LEMMA Waiting ==
    ASSUME IInv, [Next]_vars, NEW m \in Maintainer, desk'[m] = desk[m]
    PROVE  desk'[m] \in DeskEntry /\ PointsWell(m)' /\ DeskInv(m)'
<1>1. /\ desk[m] \in DeskEntry /\ DeskInv(m)
      /\ desk[m].p \in 0..Len(proposals)
      /\ proposals \in Seq(Proposal) /\ proposals' \in Seq(Proposal)
      /\ QueueGrows /\ RowsStay
  BY Effects DEF IInv, DeskOK, DeskEntry, TypeOK, LedgerEffect, QueueEffect
<1>2. desk[m].p = 0 \/ desk[m].p \in DOMAIN proposals
  BY <1>1, Pointing
<1>3. Len(proposals') \in Nat /\ DOMAIN proposals' = 1..Len(proposals')
  BY <1>1, Items
<1>4. PointsWell(m)'
  BY <1>1, <1>2, <1>3 DEF PointsWell, QueueGrows, DeskInv
<1>5. \A o \in Obligation, s \in RowStatus : Decided(o, s) => Decided(o, s)'
  BY Effects, LedgerKept
<1>6. ASSUME desk[m].step = "open", desk[m].seen.status \in {"validated", "rejected"}
      PROVE  Decided(desk[m].of, desk[m].seen.status)'
  BY <1>1, <1>5, <1>6 DEF DeskInv, RowStatus
<1>7. DeskInv(m)'
  BY <1>1, <1>2, <1>6 DEF DeskInv, QueueGrows, RowsStay
<1> QED
  BY <1>1, <1>4, <1>7

LEMMA Moving ==
    ASSUME IInv, [Next]_vars, NEW m \in Maintainer, desk'[m] # desk[m]
    PROVE  \/ desk'[m] = Idle
           \/ /\ Open(m) \/ (\E o \in Obligation : Validate(m, o)) \/ Decide(m)
              /\ UNCHANGED <<row, edits>>
<1>0. desk \in [Maintainer -> DeskEntry]
  BY DEF IInv, DeskOK, DeskEntry
<1>1. ASSUME NEW n \in Maintainer, Console(n), n # m PROVE desk'[m] = desk[m]
  BY <1>0, <1>1, ApplyEffect DEF Console, Decide, Flip, Open, Validate, Applies
<1>2. ASSUME Console(m)
      PROVE  \/ desk'[m] = Idle
             \/ /\ Open(m) \/ (\E o \in Obligation : Validate(m, o)) \/ Decide(m)
                /\ UNCHANGED <<row, edits>>
  BY <1>0, <1>2, ApplyEffect DEF Console, Decide, Flip, Open, Validate, Applies
<1>3. ASSUME Lose PROVE desk'[m] = desk[m] \/ desk'[m] = Idle
  BY <1>0, <1>3 DEF Lose
<1> QED
  BY <1>1, <1>2, <1>3
  DEF Next, vars, console, Amend, Doubt, Request, Upgrade, Extraction, ReadClauses,
      ReadRows, Extract, Reproduction, ListEdits, ReadEdit, CheckEdit

LEMMA MovedWell ==
    ASSUME IInv, [Next]_vars, NEW m \in Maintainer, desk'[m] # desk[m]
    PROVE  desk'[m] \in DeskEntry /\ PointsWell(m)' /\ DeskInv(m)'
<1>0. /\ desk \in [Maintainer -> DeskEntry] /\ DeskInv(m)
      /\ proposals \in Seq(Proposal) /\ proposals' \in Seq(Proposal)
      /\ desk[m].p \in 0..Len(proposals)
  BY Effects DEF IInv, TypeOK, DeskOK, DeskEntry, QueueEffect
<1>1. CASE desk'[m] = Idle
  <2>1. Len(proposals') \in Nat
    BY <1>0, Items
  <2> QED
    BY <1>1, <2>1 DEF Idle, DeskEntry, PointsWell, DeskInv
<1>2. \A o \in Obligation : row[o] # None => Seen(o) \in SeenRow
  BY ItemTypes DEF Seen, Row, SeenRow
<1>3. ASSUME NEW o \in Obligation, UNCHANGED <<row, edits>>,
             row[o] # None, Seen(o).status \in {"validated", "rejected"}
      PROVE  \E i \in DOMAIN edits' : /\ edits'[i].of = o
                                     /\ edits'[i].kind # "field_edit"
                                     /\ edits'[i].after = Seen(o).status
  <2>1. \E i \in DOMAIN edits :
          edits[i].of = o /\ edits[i].kind # "field_edit" /\ edits[i].after = row[o].status
    BY <1>3 DEF IInv, Vouched, Seen
  <2> QED
    BY <1>3, <2>1 DEF Seen
<1>4. CASE Open(m) /\ UNCHANGED <<row, edits>>
  <2> DEFINE o == desk[m].of
  <2>1. /\ o \in Obligation /\ row[o] # None
        /\ desk[m].p # 0 => /\ proposals[desk[m].p].status # "proposed"
                            /\ proposals[desk[m].p].of = o
        /\ UNCHANGED proposals
    BY <1>0, <1>4 DEF Open, DeskInv
  <2>2. desk'[m] = [desk[m] EXCEPT !.step = "open", !.seen = Seen(o)]
    BY <1>0, <1>4 DEF Open
  <2>3. /\ desk'[m].step = "open" /\ desk'[m].seen = Seen(o) /\ desk'[m].of = o
        /\ desk'[m].p = desk[m].p /\ desk'[m] \in DeskEntry
    BY <1>0, <1>2, <2>1, <2>2 DEF DeskEntry
  <2> HIDE DEF o
  <2>4. DeskInv(m)'
    BY <1>2, <1>3, <1>4, <2>1, <2>3 DEF DeskInv, Decided
  <2>5. PointsWell(m)'
    BY <1>0, <1>2, <2>1, <2>3 DEF PointsWell
  <2> QED
    BY <2>3, <2>4, <2>5
<1>5. ASSUME NEW o \in Obligation, Validate(m, o), UNCHANGED <<row, edits>>
      PROVE  desk'[m] \in DeskEntry /\ PointsWell(m)' /\ DeskInv(m)'
  <2>1. row[o] # None /\ UNCHANGED proposals
    BY <1>5 DEF Validate
  <2>2. desk'[m] = [step |-> "open", p |-> 0, of |-> o, seen |-> Seen(o)]
    BY <1>0, <1>5 DEF Validate
  <2>3. Len(proposals) \in Nat
    BY <1>0, Items
  <2>4. DeskInv(m)'
    BY <1>2, <1>3, <1>5, <2>1, <2>2 DEF DeskInv, Decided
  <2>5. PointsWell(m)' /\ desk'[m] \in DeskEntry
    BY <1>2, <2>1, <2>2, <2>3 DEF PointsWell, DeskEntry
  <2> QED
    BY <2>4, <2>5
<1>6. ASSUME NEW p \in DOMAIN proposals, NEW d \in {"approved", "rejected"},
             Flip(m, p, d), UNCHANGED <<row, edits>>
      PROVE  desk'[m] \in DeskEntry /\ PointsWell(m)' /\ DeskInv(m)'
  <2> DEFINE o == proposals[p].of
  <2>1. /\ o \in Obligation /\ row[o] # None /\ p \in Nat /\ p # 0
        /\ Len(proposals') \in Nat /\ DOMAIN proposals' = 1..Len(proposals')
    <3>1. p \in Nat /\ p # 0
      BY <1>0, Items
    <3>2. Len(proposals') \in Nat /\ DOMAIN proposals' = 1..Len(proposals')
      BY <1>0, Items
    <3> QED
      BY <3>1, <3>2, ItemTypes DEF IInv, ProposalsInv, Proposal
  <2>2. /\ p \in DOMAIN proposals' /\ proposals'[p].of = o
        /\ proposals'[p].status # "proposed"
    BY <1>6, FlipEffect
  <2>3. desk'[m] = [Idle EXCEPT !.step = "decided", !.p = p, !.of = o]
    BY <1>0, <1>6 DEF Flip
  <2>4. /\ desk'[m].step = "decided" /\ desk'[m].p = p /\ desk'[m].of = o
        /\ desk'[m] \in DeskEntry
    BY <2>1, <2>3 DEF Idle, DeskEntry
  <2> HIDE DEF o
  <2> QED
    BY <1>6, <2>1, <2>2, <2>4 DEF DeskInv, PointsWell
<1> QED
  BY <1>1, <1>4, <1>5, <1>6, Moving DEF Decide

LEMMA DesksStep ==
    ASSUME IInv, [Next]_vars
    PROVE  DeskOK' /\ \A m \in Maintainer : PointsWell(m)' /\ DeskInv(m)'
<1>0. desk \in [Maintainer -> DeskEntry]
  BY DEF IInv, DeskOK, DeskEntry
<1>1. \A m \in Maintainer :
         desk'[m] \in DeskEntry /\ PointsWell(m)' /\ DeskInv(m)'
  BY Waiting, MovedWell
<1>2. ASSUME NEW m \in Maintainer, Console(m)
      PROVE  desk' = desk \/ \E e : desk' = [desk EXCEPT ![m] = e]
  <2>1. CASE Applies(m)
    BY <2>1, ApplyEffect
  <2>2. CASE Open(m)
    <3>1. desk' = [desk EXCEPT ![m] = [desk[m] EXCEPT !.step = "open",
                                                      !.seen = Seen(desk[m].of)]]
      BY <1>0, <2>2 DEF Open
    <3> QED
      BY <3>1
  <2>3. CASE Decide(m) \/ \E o \in Obligation : Validate(m, o)
    BY <2>3 DEF Decide, Flip, Validate
  <2> QED
    BY <1>2, <2>1, <2>2, <2>3 DEF Console, Applies
<1>3. desk' = desk \/ \E m \in Maintainer : \E e : desk' = [desk EXCEPT ![m] = e]
  BY <1>2
  DEF Next, vars, console, Amend, Doubt, Request, Upgrade, Extraction, ReadClauses,
      ReadRows, Extract, Reproduction, ListEdits, ReadEdit, CheckEdit, Lose
<1>4. desk' \in [Maintainer -> DeskEntry]
  BY <1>0, <1>1, <1>3
<1> QED
  BY <1>1, <1>4 DEF DeskOK, DeskEntry

-----------------------------------------------------------------------------
(* The nightly jobs and the world.                                         *)
ReadingOK == reading \in [Job -> {None} \cup [Obligation -> Findings]]

WorldOK ==
    /\ clause \in [Obligation -> Text \cup {Gone}]
    /\ extractor \in 0..MaxUpgrades
    /\ amendments \in 0..MaxAmendments

LEMMA ReadingStep ==
    ASSUME IInv, [Next]_vars
    PROVE  ReadingOK' /\ ReadingInv'
<1>0. ReadingOK /\ ReadingInv /\ WorldOK /\ RowsStay
  BY Effects DEF IInv, TypeOK, ReadingOK, WorldOK, LedgerEffect
<1>1. CASE UNCHANGED reading
  BY <1>0, <1>1 DEF ReadingOK, ReadingInv, Grounded, RowsStay
<1>2. ASSUME NEW j \in Job, reading' = [reading EXCEPT ![j] = None]
      PROVE  ReadingOK' /\ ReadingInv'
  BY <1>0, <1>2 DEF ReadingOK, ReadingInv, Grounded, RowsStay
<1>3. ASSUME NEW j \in Job, NEW r, reading' = [reading EXCEPT ![j] = r],
             r \in [Obligation -> Findings], \A o \in Obligation : Grounded(o, r[o]),
             UNCHANGED row
      PROVE  ReadingOK' /\ ReadingInv'
  <2>1. ReadingOK'
    BY <1>0, <1>3 DEF ReadingOK
  <2>2. ReadingInv'
    BY <1>0, <1>3 DEF ReadingOK, ReadingInv, Grounded
  <2> QED
    BY <2>1, <2>2
<1>4. ASSUME NEW j \in Job, ReadClauses(j) PROVE ReadingOK' /\ ReadingInv'
  <2>1. PICK r : r = [o \in Obligation |->
                        [does |-> "look", text |-> clause[o], by |-> extractor]]
    OBVIOUS
  <2>2. r \in [Obligation -> Findings] /\ \A o \in Obligation : Grounded(o, r[o])
    BY <1>0, <2>1 DEF WorldOK, Findings, Grounded
  <2> QED
    BY <1>3, <1>4, <2>1, <2>2 DEF ReadClauses
<1>5. ASSUME NEW j \in Job, ReadRows(j) PROVE ReadingOK' /\ ReadingInv'
  <2> DEFINE f(o) == [reading[j][o] EXCEPT !.does = Finding(o, reading[j][o])]
  <2>1. reading[j] \in [Obligation -> Findings]
    BY <1>0, <1>5 DEF ReadRows, Looking, ReadingOK
  <2>2. ASSUME NEW o \in Obligation PROVE f(o) \in Findings /\ Grounded(o, f(o))
    <3> DEFINE g == reading[j][o]
    <3>1. g \in Findings
      BY <2>1
    <3> HIDE DEF g
    <3>2. /\ Finding(o, g) \in {"leave", "insert", "derive", "revoke"}
          /\ Finding(o, g) \in {"insert", "derive"} => g.text # Gone
          /\ Finding(o, g) = "revoke" => row[o] # None
      <4>1. CASE g.text = Gone
        BY <4>1 DEF Finding
      <4>2. CASE g.text # Gone
        BY <4>2 DEF Finding
      <4> QED
        BY <4>1, <4>2
    <3>3. f(o) = [g EXCEPT !.does = Finding(o, g)]
      BY DEF g
    <3> HIDE DEF f
    <3> QED
      BY <3>1, <3>2, <3>3 DEF Findings, Grounded
  <2>3. PICK r : r = [o \in Obligation |-> f(o)]
    OBVIOUS
  <2>4. r \in [Obligation -> Findings] /\ \A o \in Obligation : Grounded(o, r[o])
    BY <2>2, <2>3
  <2>5. reading' = [reading EXCEPT ![j] = r] /\ UNCHANGED row
    BY <1>5, <2>3 DEF ReadRows
  <2> QED
    BY <1>3, <2>4, <2>5
<1> QED
  BY <1>1, <1>2, <1>4, <1>5, ApplyEffect
  DEF Next, vars, nightly, Amend, Doubt, Request, Upgrade, Console, Applies, Decide,
      Flip, Open, Validate, Extraction, Extract, Reproduction, ListEdits,
      ReadEdit, CheckEdit, Lose

LEMMA WorldStep ==
    ASSUME IInv, [Next]_vars
    PROVE  WorldOK'
<1>0. WorldOK
  BY DEF IInv, TypeOK, WorldOK
<1>1. ASSUME NEW o \in Obligation, Amend(o) PROVE WorldOK'
  BY <1>0, <1>1, ConstantsAssumption DEF ConstantsAssumption, Amend, WorldOK
<1>2. CASE Upgrade
  BY <1>0, <1>2, ConstantsAssumption DEF ConstantsAssumption, Upgrade, WorldOK
<1>3. CASE Lose
  BY <1>0, <1>3, ConstantsAssumption DEF ConstantsAssumption, Lose, world, WorldOK
<1>4. ASSUME UNCHANGED world PROVE WorldOK'
  BY <1>0, <1>4 DEF world, WorldOK
<1> QED
  BY <1>1, <1>2, <1>3, <1>4, ApplyEffect
  DEF Next, vars, Doubt, Request, Console, Applies, Decide, Flip, Open, Validate,
      Extraction, ReadClauses, ReadRows, Extract, Reproduction, ListEdits, ReadEdit, CheckEdit

PassOK ==
    /\ pass \in Seq(PassItem)
    /\ \A k \in DOMAIN pass : pass[k].edit \in DOMAIN edits

LEMMA PassStep ==
    ASSUME IInv, [Next]_vars
    PROVE  PassOK'
<1>0. /\ PassOK /\ LedgerGrows /\ edits \in Seq(Edit)
  BY Effects DEF IInv, TypeOK, PassOK, LedgerEffect
<1>1. CASE UNCHANGED pass
  BY <1>0, <1>1 DEF PassOK, LedgerGrows
<1>2. CASE pass' = <<>>
  BY <1>2, EmptySeq, NoItems DEF PassOK
<1>3. CASE ListEdits
  <2> DEFINE live == {i \in DOMAIN edits : Live(edits[i].status)}
  <2>1. PICK order \in [1..Cardinality(live) -> live] :
          pass' = [k \in DOMAIN order |->
                    [edit |-> order[k], finds |-> None,
                     status |-> edits[order[k]].status]]
    BY <1>3 DEF ListEdits
  <2>2. Cardinality(live) \in Nat
    <3>1. IsFiniteSet(DOMAIN edits)
      BY <1>0, Items, FS_Interval
    <3>2. IsFiniteSet(live)
      BY <3>1, FS_Subset
    <3> QED
      BY <3>2, FS_CardinalityType
  <2>3. live \subseteq DOMAIN edits /\ live \subseteq Nat
        /\ \A i \in live : edits[i].status \in {"accepted", "reproduced"}
    BY <1>0, Items DEF Live
  <2>4. /\ pass' \in [1..Cardinality(live) -> PassItem]
        /\ \A k \in DOMAIN pass' : pass'[k].edit \in DOMAIN edits
    <3> HIDE DEF live
    <3>1. \A k \in 1..Cardinality(live) : order[k] \in live
      BY <2>1
    <3> QED
      BY <2>1, <2>3, <3>1 DEF PassItem
  <2>5. pass' \in Seq(PassItem)
    BY <2>2, <2>4, IsSeq
  <2> QED
    BY <1>0, <2>4, <2>5 DEF PassOK, LedgerGrows
<1>4. CASE ReadEdit
  <2> DEFINE f == LET e == edits[Head(pass).edit] IN Finds(e, row[e.of])
  <2>1. pass' = [pass EXCEPT ![1] = [pass[1] EXCEPT !.finds = f]] /\ pass # <<>>
    BY <1>4 DEF ReadEdit
  <2>2. f \in {"changed", "lost", "intact"}
    BY DEF Finds
  <2> HIDE DEF f
  <2>3. 1 \in DOMAIN pass /\ pass[1] \in PassItem
    BY <1>0, <2>1, EmptySeq, LenProperties DEF PassOK
  <2>4. /\ [pass[1] EXCEPT !.finds = f] \in PassItem
        /\ [pass[1] EXCEPT !.finds = f].edit = pass[1].edit
    BY <2>2, <2>3 DEF PassItem
  <2>5. /\ pass' \in Seq(PassItem) /\ DOMAIN pass' = DOMAIN pass
        /\ \A k \in DOMAIN pass : pass'[k].edit = pass[k].edit
    BY <1>0, <2>1, <2>3, <2>4, Changing DEF PassOK
  <2> QED
    BY <1>0, <2>5 DEF PassOK, LedgerGrows
<1>5. CASE CheckEdit
  <2>1. pass # <<>> /\ pass' = Tail(pass)
    BY <1>5 DEF CheckEdit
  <2>2. /\ pass' \in Seq(PassItem) /\ Len(pass') = Len(pass) - 1
        /\ \A k \in 1..Len(pass') : pass'[k] = pass[k + 1]
    BY <1>0, <2>1, HeadTailProperties DEF PassOK
  <2>3. /\ DOMAIN pass' = 1..Len(pass') /\ DOMAIN pass = 1..Len(pass)
        /\ Len(pass) \in Nat /\ Len(pass') \in Nat
    BY <1>0, <2>2, Items DEF PassOK
  <2>4. \A k \in DOMAIN pass' : k + 1 \in DOMAIN pass
    BY <2>2, <2>3
  <2> QED
    BY <1>0, <2>2, <2>3, <2>4 DEF PassOK, LedgerGrows
<1> QED
  BY <1>1, <1>2, <1>3, <1>4, <1>5, ApplyEffect
  DEF Next, vars, nightly, Amend, Doubt, Request, Upgrade, Console, Applies, Decide,
      Flip, Open, Validate, Extraction, ReadClauses, ReadRows, Extract,
      Reproduction, Lose

-----------------------------------------------------------------------------
LEMMA TypeParts ==
    TypeOK <=> /\ WorldOK /\ ReadingOK
               /\ row \in [Obligation -> Row \cup {None}]
               /\ edits \in Seq(Edit) /\ proposals \in Seq(Proposal)
               /\ \A p \in DOMAIN proposals :
                     proposals[p].kind = "human_edit_conflict" =>
                       proposals[p].edit \in DOMAIN edits
               /\ \A m \in Maintainer :
                     /\ desk[m].step \in {"idle", "decided", "open"}
                     /\ PointsWell(m)
               /\ \A k \in DOMAIN pass :
                     /\ pass[k].edit \in DOMAIN edits
                     /\ pass[k].finds \in {"changed", "lost", "intact", None}
BY DEF TypeOK, WorldOK, ReadingOK, PointsWell, SeenRow

LEMMA InitInv == Init => IInv
<1> SUFFICES ASSUME Init PROVE IInv
  OBVIOUS
<1>0. DOMAIN <<>> = {} /\ Len(<<>>) = 0
  BY NoItems, EmptySeq
<1>1. WorldOK /\ ReadingOK
  BY ConstantsAssumption DEF ConstantsAssumption, Init, WorldOK, ReadingOK
<1>2. ASSUME NEW o \in Obligation
      PROVE  row[o] = None \/ (row[o] \in Row /\ row[o].status = "derived")
  <2>1. row[o] = IF clause[o] = Gone THEN None ELSE Derivation(clause[o], 0)
    BY DEF Init
  <2>2. clause[o] \in Text \cup {Gone} /\ 0 \in 0..MaxUpgrades
    BY ConstantsAssumption DEF ConstantsAssumption, Init
  <2> QED
    BY <2>1, <2>2 DEF Derivation, Row, RowStatus, FieldValue
<1>3. row \in [Obligation -> Row \cup {None}]
  <2>1. row = [o \in Obligation |-> row[o]]
    BY DEF Init
  <2> QED
    BY <1>2, <2>1
<1>4. edits = <<>> /\ proposals = <<>> /\ pass = <<>> /\ reading = [j \in Job |-> None]
      /\ desk = [m \in Maintainer |-> Idle]
  BY DEF Init
<1>5. edits \in Seq(Edit) /\ proposals \in Seq(Proposal) /\ pass \in Seq(PassItem)
  BY <1>4, EmptySeq
<1>6. DeskOK /\ \A m \in Maintainer : PointsWell(m) /\ DeskInv(m)
  BY <1>0, <1>4 DEF DeskOK, PointsWell, DeskInv, Idle
<1>7. TypeOK
  BY <1>0, <1>1, <1>3, <1>4, <1>5, <1>6, TypeParts DEF Idle
<1>8. EditsInv /\ ProposalsInv /\ Answered
  BY <1>0, <1>4 DEF EditsInv, ProposalsInv, Answered
<1>9. ReadingInv
  BY <1>4 DEF ReadingInv
<1>10. Vouched
  BY <1>2 DEF Vouched
<1> QED
  BY <1>5, <1>6, <1>7, <1>8, <1>9, <1>10 DEF IInv

LEMMA Invariance == Spec => []IInv
<1>1. ASSUME IInv, [Next]_vars PROVE IInv'
  <2>1. LedgerEffect /\ QueueEffect
    BY <1>1, Effects
  <2>2. /\ EditsInv' /\ ProposalsInv' /\ Answered' /\ Vouched'
        /\ \A p \in DOMAIN proposals' :
              proposals'[p].kind = "human_edit_conflict" =>
                proposals'[p].edit \in DOMAIN edits'
    BY <1>1, <2>1, LedgerKept
  <2>3. DeskOK' /\ \A m \in Maintainer : PointsWell(m)' /\ DeskInv(m)'
    BY <1>1, DesksStep
  <2>4. ReadingOK' /\ ReadingInv' /\ WorldOK' /\ PassOK'
    BY <1>1, ReadingStep, WorldStep, PassStep
  <2>5. \A k \in DOMAIN pass' : pass'[k] \in PassItem
    BY <2>4, Items DEF PassOK
  <2>6. TypeOK'
    BY <2>1, <2>2, <2>3, <2>4, <2>5
    DEF TypeOK, WorldOK, ReadingOK, PointsWell, DeskOK, PassOK, PassItem, SeenRow,
        LedgerEffect, QueueEffect
  <2> QED
    BY <2>2, <2>3, <2>4, <2>6 DEF IInv, PassOK
<1> QED
  BY <1>1, InitInv, PTL DEF Spec

(* Rows, ledger and queue stay well typed, and what points at an edit or a *)
(* proposal points at one that exists.                                     *)
THEOREM TypeCorrect == Spec => []TypeOK
<1>1. IInv => TypeOK
  BY DEF IInv
<1> QED
  BY <1>1, Invariance, PTL

(* A decision in the ledger is superseded only by a later one of its kind  *)
(* on the same obligation, or by a maintainer who let the derivation stand *)
(* against it, however requests, pass and extraction overlap.              *)
THEOREM AnsweredAlways == Spec => []Answered
<1>1. IInv => Answered
  BY DEF IInv
<1> QED
  BY <1>1, Invariance, PTL

(* No race makes a row validated or rejected that nobody decided so.       *)
THEOREM VouchedAlways == Spec => []Vouched
<1>1. IInv => Vouched
  BY DEF IInv
<1> QED
  BY <1>1, Invariance, PTL

=============================================================================
