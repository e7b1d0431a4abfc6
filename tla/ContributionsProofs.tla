------------------------- MODULE ContributionsProofs -------------------------
(***************************************************************************)
(* For any people, any maintainers and any number of contributions: the    *)
(* rows are well formed, every application to the registry is backed by    *)
(* two reviewers and a verdict, the mirror says no more than what          *)
(* happened, and what is closed stays closed.                              *)
(*                                                                         *)
(* A request acts on what it saw earlier, in another transaction.  The     *)
(* argument is that what it relies on only grows: a row is never unfiled,  *)
(* an author never changes, a verdict, a mirror, a vote and an application *)
(* are never taken back.  So what held when a request looked still holds   *)
(* when it writes.                                                         *)
(***************************************************************************)
EXTENDS Contributions, FiniteSetTheorems, SequenceTheorems, TLAPS

Steps == {"idle", "passed", "failed", "derive", "deriving", "again",
          "voting", "counted", "flip"}

DeskOK ==
    desk \in [Person -> [step : Steps, on : {0} \cup Contribution,
                         says : Decision \cup {"review", None},
                         accepts : SUBSET Person]]

(* Contributions are filed in order; a decision comes after a verdict, and *)
(* a vote from somebody else than the author.                              *)
RowsInv ==
    /\ \E n \in 0..MaxContributions : Filed = 1..n
    /\ \A c \in Contribution :
          status[c] \in {"rederived", "accepted", "rejected"} => derived[c]
    /\ \A c \in Contribution : \A q \in Person :
          votes[c][q] # None => c \in Filed /\ q # author[c]

(* A vote that has been counted counts the votes of others than the author *)
(* that are there already, and its own; a request that goes on to the      *)
(* mirror has committed its vote, or the application.                      *)
BallotInv(p) ==
    LET c == desk[p].on
    IN  /\ desk[p].step \in {"counted", "flip"} =>
              desk[p].says \in Decision /\ p # author[c]
        /\ desk[p].step = "counted" =>
              \A q \in desk[p].accepts :
                 q # author[c] /\ (q = p \/ votes[c][q] # None)
        /\ desk[p].step = "flip" =>
              IF desk[p].says = "reject" THEN p \in refused[c] ELSE applied[c] # <<>>

RequestInv(p) ==
    LET c == desk[p].on
    IN  /\ desk[p].step \notin {"idle", "passed", "failed"} => c \in Filed
        /\ desk[p].step \in {"deriving", "again", "voting", "counted", "flip"}
              => proposal[c] # None
        /\ desk[p].step \in {"voting", "counted", "flip"} => derived[c]
        /\ BallotInv(p)

NightInv ==
    /\ night.left \subseteq Filed
    /\ night.on # 0 => proposal[night.on] # None

IInv ==
    /\ TypeOK
    /\ DeskOK
    /\ RowsInv
    /\ \A p \in Person : RequestInv(p)
    /\ NightInv
    /\ Backed
    /\ Mirrored

-----------------------------------------------------------------------------
(* TypeOK in two: what is in the tables, and who may act.                  *)
RowsTyped ==
    /\ status \in [Contribution -> Status \cup {None}]
    /\ author \in [Contribution -> Person \cup {None}]
    /\ derived \in [Contribution -> BOOLEAN]
    /\ votes \in [Contribution -> [Person -> Decision \cup {None}]]
    /\ applied \in [Contribution -> Seq(SUBSET Person)]
    /\ refused \in [Contribution -> SUBSET Person]
    /\ proposal \in [Contribution -> {"proposed", "approved", "rejected", None}]
    /\ \A c \in Contribution :
          /\ (proposal[c] = None) <=> (status[c] \in {None, "checks_failed"})
          /\ derived[c] => proposal[c] # None

PeopleTyped ==
    /\ signed \subseteq Person
    /\ roles \in [Person -> SUBSET {"contributor", "reviewer"}]
    /\ night \in [left : SUBSET Contribution, on : {0} \cup Contribution]

LEMMA TypeParts == TypeOK <=> RowsTyped /\ PeopleTyped
BY DEF TypeOK, RowsTyped, PeopleTyped

(* Most steps only look.                                                   *)
Looking == UNCHANGED <<rows, votes, applied, refused, proposal>>

LEMMA WhoWrites ==
    ASSUME [Next]_vars, ~Looking
    PROVE  \/ \E p \in Person : File(p) \/ Rederive(p) \/ Vote(p) \/ Flip(p)
           \/ NightDerive
BY DEF Next, Request, Looking, vars, Sign, Grant, Revoke, Check, AskVerdict,
   LookToDerive, Look, LookAgain, Count, Abort, StartNight, NightLook, AbortNight

(* What is in the applications of a contribution, first and last.          *)
LEMMA NoApplications == DOMAIN <<>> = {}
<1>1. DOMAIN <<>> = 1..0
  BY EmptySeq, LenProperties
<1> QED
  BY <1>1

LEMMA Applying ==
    ASSUME NEW seq \in Seq(SUBSET Person), NEW e \in SUBSET Person
    PROVE  /\ Append(seq, e) \in Seq(SUBSET Person)
           /\ Append(seq, e) # <<>>
           /\ \A i \in DOMAIN Append(seq, e) :
                 \/ i \in DOMAIN seq /\ Append(seq, e)[i] = seq[i]
                 \/ Append(seq, e)[i] = e
<1>1. Len(seq) \in Nat /\ DOMAIN seq = 1..Len(seq)
  BY LenProperties
<1>2. /\ Append(seq, e) \in Seq(SUBSET Person)
      /\ Append(seq, e) # <<>>
      /\ Len(Append(seq, e)) = Len(seq) + 1
      /\ \A i \in 1..Len(seq) : Append(seq, e)[i] = seq[i]
      /\ Append(seq, e)[Len(seq) + 1] = e
  BY AppendProperties
<1>3. DOMAIN Append(seq, e) = 1..(Len(seq) + 1)
  BY <1>2, LenProperties
<1> QED
  BY <1>1, <1>2, <1>3

LEMMA InitInv == Init => IInv
<1> SUFFICES ASSUME Init PROVE IInv
  OBVIOUS
<1> USE DEF Init
<1>1. TypeOK
  BY DEF TypeOK, Asleep
<1>2. DeskOK
  BY DEF DeskOK, Idle, Steps
<1>3. Filed = {}
  BY DEF Filed
<1>4. RowsInv
  <2>1. 0 \in 0..MaxContributions /\ 1..0 = {}
    BY ConstantsAssumption DEF ConstantsAssumption
  <2> QED
    BY <1>3, <2>1, NoneAssumption DEF RowsInv, NoneAssumption, Status
<1>5. \A p \in Person : RequestInv(p)
  BY DEF RequestInv, BallotInv, Idle
<1>6. NightInv
  BY DEF NightInv, Asleep
<1>7. Backed /\ Mirrored
  <2>1. \A c \in Contribution : DOMAIN applied[c] = {}
    BY NoApplications
  <2> QED
    BY <2>1, NoneAssumption DEF Backed, Mirrored, NoneAssumption, Status
<1> QED
  BY <1>1, <1>2, <1>4, <1>5, <1>6, <1>7 DEF IInv

(* The identifier a filing draws is free, and keeps the filed ones in a    *)
(* row.                                                                    *)
LEMMA NextPlace ==
    ASSUME RowsInv, Cardinality(Filed) < MaxContributions
    PROVE  LET c == Cardinality(Filed) + 1
           IN  /\ c \in Contribution
               /\ c \notin Filed
               /\ Filed \cup {c} = 1..c
               /\ c \in 0..MaxContributions
<1>1. PICK n \in 0..MaxContributions : Filed = 1..n
  BY DEF RowsInv
<1>2. n \in Nat /\ MaxContributions \in Nat
  BY <1>1, ConstantsAssumption DEF ConstantsAssumption
<1>3. Cardinality(Filed) = n
  BY <1>1, <1>2, FS_Interval
<1> QED
  BY <1>1, <1>2, <1>3 DEF Contribution

-----------------------------------------------------------------------------
(* What a request relies on only grows.                                    *)
Kept(c) ==
    /\ status'[c] # None
    /\ author'[c] = author[c]
    /\ proposal[c] # None => proposal'[c] # None
    /\ derived[c] => derived'[c]
    /\ applied[c] # <<>> => applied'[c] # <<>>
    /\ refused[c] \subseteq refused'[c]
    /\ \A q \in Person : votes[c][q] # None => votes'[c][q] # None

LEMMA AlwaysKept ==
    ASSUME IInv, [Next]_vars
    PROVE  \A c \in Filed : Kept(c)
<1> SUFFICES ASSUME NEW c \in Filed PROVE Kept(c)
  OBVIOUS
<1>0. c \in Contribution /\ status[c] # None /\ RowsTyped
  BY TypeParts DEF Filed, IInv
<1>1. CASE Looking
  BY <1>0, <1>1 DEF Looking, rows, Kept
<1>2. ASSUME NEW p \in Person, File(p) PROVE Kept(c)
  <2>1. Cardinality(Filed) + 1 # c
    BY <1>2, NextPlace DEF File, IInv
  <2> QED
    BY <1>0, <1>2, <2>1 DEF File, RowsTyped, Kept
<1>3. ASSUME NEW d, WriteVerdict(d), UNCHANGED <<votes, applied, refused, proposal>>
      PROVE  Kept(c)
  BY <1>0, <1>3, NoneAssumption
  DEF WriteVerdict, RowsTyped, Kept, NoneAssumption, Status
<1>4. ASSUME NEW p \in Person, Vote(p) PROVE Kept(c)
  <2>1. desk[p].says \in Decision /\ desk[p].says # None
    BY <1>4, NoneAssumption
    DEF Vote, AtDesk, IInv, RequestInv, BallotInv, NoneAssumption
  <2>2. desk[p].on \in Contribution
    BY <1>4 DEF Vote, AtDesk, IInv, RequestInv, Filed
  <2>3. \A q \in Person : votes[c][q] # None => votes'[c][q] # None
    BY <1>0, <1>4, <2>1 DEF Vote, RowsTyped
  <2>4. status'[c] # None
    BY <1>0, <1>4, NoneAssumption DEF Vote, RowsTyped, NoneAssumption, Status
  <2>5. applied[c] # <<>> => applied'[c] # <<>>
    <3>1. desk[p].accepts \in SUBSET Person
      BY DEF IInv, DeskOK
    <3>2. applied[desk[p].on] \in Seq(SUBSET Person)
      BY <2>2, <1>0 DEF RowsTyped
    <3>3. Append(applied[desk[p].on], desk[p].accepts) # <<>>
      BY <3>1, <3>2, Applying
    <3> QED
      BY <1>0, <1>4, <3>3 DEF Vote, RowsTyped
  <2>6. refused[c] \subseteq refused'[c]
    BY <1>0, <1>4 DEF Vote, RowsTyped
  <2> QED
    BY <1>4, <2>3, <2>4, <2>5, <2>6 DEF Vote, Kept
<1>5. ASSUME NEW p \in Person, Flip(p) PROVE Kept(c)
  BY <1>0, <1>5, NoneAssumption
  DEF Flip, rows, RowsTyped, Kept, NoneAssumption, Status
<1>6. ASSUME NEW p \in Person, Rederive(p) PROVE Kept(c)
  BY <1>3, <1>6 DEF Rederive
<1>7. CASE NightDerive
  BY <1>3, <1>7 DEF NightDerive
<1> QED
  BY <1>1, <1>2, <1>4, <1>5, <1>6, <1>7, WhoWrites

-----------------------------------------------------------------------------
(* The desks.                                                              *)
LEMMA DeskMoves ==
    ASSUME DeskOK, NEW p \in Person
    PROVE  /\ \A step \in Steps : Turn(p, step) =>
                 DeskOK' /\ desk'[p] = [desk[p] EXCEPT !.step = step]
           /\ Leave(p) => DeskOK' /\ desk'[p] = Idle
<1>1. ASSUME NEW step \in Steps, Turn(p, step)
      PROVE  DeskOK' /\ desk'[p] = [desk[p] EXCEPT !.step = step]
  BY <1>1 DEF DeskOK, Turn, Contribution
<1>2. ASSUME Leave(p) PROVE DeskOK' /\ desk'[p] = Idle
  BY <1>2 DEF DeskOK, Leave, Idle, Steps, Contribution
<1> QED
  BY <1>1, <1>2

LEMMA DeskStep ==
    ASSUME IInv, [Next]_vars
    PROVE  DeskOK'
<1>0. DeskOK
  BY DEF IInv
<1>1. ASSUME NEW p \in Person, Request(p) PROVE DeskOK'
  <2>1. CASE \E step \in Steps : Turn(p, step)
    BY <1>0, <2>1, DeskMoves
  <2>2. CASE Leave(p)
    BY <1>0, <2>2, DeskMoves
  <2>3. ASSUME NEW c \in Filed, AskVerdict(p, c) \/ Look(p, c) PROVE DeskOK'
    <3>1. \E step \in {"derive", "voting"}, says \in {"review", None} :
            desk' = [desk EXCEPT ![p] = [step |-> step, on |-> c,
                                         says |-> says, accepts |-> {}]]
      BY <2>3 DEF AskVerdict, Look, Idle
    <3>2. c \in Contribution
      BY DEF Filed
    <3> QED
      BY <1>0, <3>1, <3>2 DEF DeskOK, Steps
  <2>4. CASE LookAgain(p)
    BY <1>0, <2>2, <2>4 DEF LookAgain, DeskOK, Steps, Contribution
  <2>5. ASSUME NEW d \in Decision, Count(p, d) PROVE DeskOK'
    <3>1. (IF d = "accept" THEN Accepting(p, desk[p].on, d) ELSE {})
             \in SUBSET Person
      BY DEF Accepting
    <3>2. desk[p].on \in {0} \cup Contribution
      BY <1>0 DEF DeskOK
    <3> QED
      BY <1>0, <2>2, <2>5, <3>1, <3>2 DEF Count, DeskOK, Steps
  <2> QED
    BY <1>1, <2>1, <2>2, <2>3, <2>4, <2>5
    DEF Request, Check, File, LookToDerive, Rederive, Vote, Flip, Abort, Steps
<1>2. ASSUME UNCHANGED desk PROVE DeskOK'
  BY <1>0, <1>2 DEF DeskOK
<1> QED
  BY <1>1, <1>2
  DEF Next, vars, Sign, Grant, Revoke, StartNight, NightLook, NightDerive, AbortNight

(* A request changes the desk of its own person only.                      *)
LEMMA OwnDesk ==
    ASSUME IInv, [Next]_vars, NEW p \in Person, desk'[p] # desk[p]
    PROVE  Request(p)
<1>1. ASSUME NEW q \in Person, Request(q), q # p PROVE desk'[p] = desk[p]
  BY <1>1
  DEF Request, Check, File, AskVerdict, Look, LookToDerive, Rederive, LookAgain,
      Count, Vote, Flip, Abort, Turn, Leave, IInv, DeskOK
<1> QED
  BY <1>1
  DEF Next, vars, Sign, Grant, Revoke, StartNight, NightLook, NightDerive, AbortNight

(* What a request relies on stays true while it does nothing.              *)
LEMMA Waiting ==
    ASSUME IInv, [Next]_vars, NEW p \in Person, desk'[p] = desk[p]
    PROVE  RequestInv(p)'
<1>1. RequestInv(p)
  BY DEF IInv
<1>2. CASE desk[p].step \in {"idle", "passed", "failed"}
  BY <1>2 DEF RequestInv, BallotInv
<1>3. CASE desk[p].step \notin {"idle", "passed", "failed"}
  <2>1. desk[p].on \in Filed
    BY <1>1, <1>3 DEF RequestInv
  <2>2. Kept(desk[p].on)
    BY <2>1, AlwaysKept
  <2>3. desk'[p].on \in Filed'
    BY <2>1, <2>2 DEF Filed, Kept
  <2>4. desk[p].accepts \subseteq Person
    BY DEF IInv, DeskOK
  <2>5. BallotInv(p)'
    BY <1>1, <2>2, <2>4 DEF RequestInv, BallotInv, Kept
  <2> QED
    BY <1>1, <2>2, <2>3, <2>5 DEF RequestInv, Kept
<1> QED
  BY <1>2, <1>3

LEMMA RequestStep ==
    ASSUME IInv, [Next]_vars, NEW p \in Person
    PROVE  RequestInv(p)'
<1> SUFFICES ASSUME desk'[p] # desk[p] PROVE RequestInv(p)'
  BY Waiting
<1>0. Request(p)
  BY OwnDesk
<1>1. /\ DeskOK /\ RowsTyped /\ RequestInv(p)
      /\ \A c \in Filed : Kept(c)
  BY AlwaysKept, TypeParts DEF IInv
<1>2. \A c \in Filed : c \in Filed'
  BY <1>1 DEF Kept, Filed
<1>3. CASE Leave(p)
  <2>1. desk'[p] = Idle
    BY <1>1, <1>3, DeskMoves
  <2> QED
    BY <2>1 DEF Idle, RequestInv, BallotInv
<1>4. CASE Check(p)
  <2>1. desk'[p].step \in {"passed", "failed"}
    BY <1>1, <1>4 DEF Check, Turn, DeskOK
  <2> QED
    BY <2>1 DEF RequestInv, BallotInv
<1>5. ASSUME NEW c \in Filed, AskVerdict(p, c) PROVE RequestInv(p)'
  <2>1. desk'[p].step = "derive" /\ desk'[p].on = c
    BY <1>1, <1>5 DEF AskVerdict, Idle, DeskOK
  <2> QED
    BY <1>2, <2>1 DEF RequestInv, BallotInv
<1>6. ASSUME NEW c \in Filed, Look(p, c) PROVE RequestInv(p)'
  <2>1. UNCHANGED <<rows, proposal>> /\ desk'[p].on = c
    BY <1>1, <1>6 DEF Look, Idle, DeskOK
  <2>2. CASE desk'[p].step = "derive"
    BY <1>2, <2>1, <2>2 DEF RequestInv, BallotInv
  <2>3. CASE desk'[p].step = "voting" /\ Reviewable(c)
    <3>1. derived[c] /\ proposal[c] # None
      BY <2>3 DEF Reviewable, IInv, RowsInv, Filed, TypeOK
    <3> QED
      BY <1>2, <2>1, <2>3, <3>1 DEF rows, RequestInv, BallotInv
  <2> QED
    BY <1>1, <1>6, <2>2, <2>3 DEF Look, Idle, DeskOK
<1>7. CASE LookToDerive(p) /\ ~Leave(p)
  <2>1. /\ desk'[p].step = "deriving" /\ desk'[p].on = desk[p].on
        /\ desk[p].on \in Filed /\ Derivable(desk[p].on)
        /\ UNCHANGED proposal
    BY <1>1, <1>7 DEF LookToDerive, Turn, AtDesk, RequestInv, DeskOK
  <2>2. proposal[desk[p].on] # None
    BY <1>1, <2>1, NoneAssumption
    DEF Derivable, RowsTyped, Filed, NoneAssumption, Status
  <2> QED
    BY <1>2, <2>1, <2>2 DEF RequestInv, BallotInv
<1>8. CASE Rederive(p) /\ ~Leave(p)
  <2>1. /\ desk'[p].step = "again" /\ desk'[p].on = desk[p].on
        /\ desk[p].on \in Filed /\ proposal[desk[p].on] # None
        /\ UNCHANGED proposal
    BY <1>1, <1>8 DEF Rederive, Turn, AtDesk, RequestInv, DeskOK
  <2> QED
    BY <1>2, <2>1 DEF RequestInv, BallotInv
<1>9. CASE LookAgain(p) /\ ~Leave(p)
  <2>1. /\ desk'[p].step = "voting" /\ desk'[p].on = desk[p].on
        /\ desk[p].on \in Filed /\ proposal[desk[p].on] # None
        /\ Reviewable(desk[p].on)
        /\ UNCHANGED <<rows, proposal>>
    BY <1>1, <1>9 DEF LookAgain, AtDesk, RequestInv, DeskOK
  <2>2. derived[desk[p].on]
    BY <2>1 DEF Reviewable, IInv, RowsInv, Filed
  <2> QED
    BY <1>2, <2>1, <2>2 DEF rows, RequestInv, BallotInv
<1>10. ASSUME NEW d \in Decision, Count(p, d), ~Leave(p) PROVE RequestInv(p)'
  <2> DEFINE c == desk[p].on
  <2>1. /\ c \in Filed /\ proposal[c] # None /\ derived[c]
        /\ p # author[c]
        /\ UNCHANGED <<rows, proposal, votes>>
    BY <1>1, <1>10 DEF Count, AtDesk, RequestInv, MayVote
  <2>2. desk'[p] = [step |-> "counted", on |-> c, says |-> d,
                    accepts |-> IF d = "accept" THEN Accepting(p, c, d) ELSE {}]
    BY <1>1, <1>10 DEF Count, DeskOK
  <2>3. \A q \in Accepting(p, c, d) : q # author[c] /\ (q = p \/ votes[c][q] # None)
    BY <2>1, NoneAssumption
    DEF Accepting, IInv, RowsInv, Filed, NoneAssumption, Decision
  <2>4. BallotInv(p)'
    BY <2>1, <2>2, <2>3 DEF BallotInv, rows
  <2> QED
    BY <1>2, <2>1, <2>2, <2>4 DEF rows, RequestInv
<1>11. CASE Vote(p) /\ ~Leave(p)
  <2> DEFINE c == desk[p].on
  <2>1. /\ c \in Filed /\ proposal[c] # None /\ derived[c]
        /\ p # author[c] /\ desk[p].says \in Decision
        /\ UNCHANGED <<author, derived, proposal>>
    BY <1>1, <1>11 DEF Vote, AtDesk, RequestInv, BallotInv
  <2>2. /\ desk'[p].step = "flip" /\ desk'[p].on = c
        /\ desk'[p].says = desk[p].says /\ Decides(p)
    BY <1>1, <1>11, DeskMoves DEF Vote, Steps, DeskOK
  <2>3. desk[p].says = "reject" => p \in refused'[c]
    BY <1>1, <1>11, <2>1 DEF Vote, RowsTyped, Filed
  <2>4. desk[p].says # "reject" => applied'[c] # <<>>
    <3>1. desk[p].accepts \in SUBSET Person /\ applied[c] \in Seq(SUBSET Person)
      BY <1>1, <2>1 DEF DeskOK, RowsTyped, Filed
    <3>2. Append(applied[c], desk[p].accepts) # <<>>
      BY <3>1, Applying
    <3> QED
      BY <1>1, <1>11, <2>1, <2>2, <3>2 DEF Vote, Decides, RowsTyped, Filed
  <2>5. BallotInv(p)'
    BY <2>1, <2>2, <2>3, <2>4 DEF BallotInv
  <2> QED
    BY <1>2, <2>1, <2>2, <2>5 DEF RequestInv
<1> QED
  BY <1>0, <1>3, <1>4, <1>5, <1>6, <1>7, <1>8, <1>9, <1>10, <1>11
  DEF Request, File, Flip, Abort

-----------------------------------------------------------------------------
(* The rows, the night and the two things that are promised about them.    *)
LEMMA VerdictRows ==
    ASSUME RowsTyped, RowsInv, NEW c \in Contribution, proposal[c] # None,
           WriteVerdict(c), UNCHANGED <<votes, applied, refused, proposal>>
    PROVE  RowsTyped' /\ RowsInv'
<1>1. RowsTyped'
  BY NoneAssumption DEF WriteVerdict, RowsTyped, NoneAssumption, Status
<1>2. Filed' = Filed
  BY NoneAssumption
  DEF WriteVerdict, RowsTyped, Filed, Contribution, NoneAssumption, Status
<1> QED
  BY <1>1, <1>2 DEF WriteVerdict, RowsInv, RowsTyped

LEMMA RowsStep ==
    ASSUME IInv, [Next]_vars
    PROVE  RowsTyped' /\ RowsInv'
<1>0. RowsTyped /\ RowsInv /\ DeskOK
  BY TypeParts DEF IInv
<1>1. CASE Looking
  BY <1>0, <1>1 DEF Looking, rows, RowsTyped, RowsInv, Filed
<1>2. ASSUME NEW p \in Person, File(p) PROVE RowsTyped' /\ RowsInv'
  <2> DEFINE c == Cardinality(Filed) + 1
  <2>1. /\ c \in Contribution /\ c \notin Filed
        /\ Filed \cup {c} = 1..c /\ c \in 0..MaxContributions
    BY <1>0, <1>2, NextPlace DEF File
  <2> HIDE DEF c
  <2>2. /\ status' = [status EXCEPT ![c] = IF AtDesk(p, "passed") THEN "checked"
                                           ELSE "checks_failed"]
        /\ author' = [author EXCEPT ![c] = p]
        /\ proposal' = [proposal EXCEPT ![c] = IF AtDesk(p, "passed")
                                               THEN "proposed" ELSE None]
        /\ UNCHANGED <<derived, votes, applied, refused>>
    BY <1>2 DEF File, c
  <2>3. status[c] = None /\ derived[c] = FALSE
    BY <1>0, <2>1 DEF Filed, RowsTyped
  <2>4. RowsTyped'
    BY <1>0, <2>1, <2>2, <2>3, NoneAssumption DEF RowsTyped, NoneAssumption, Status
  <2>5. Filed' = Filed \cup {c}
    BY <1>0, <2>1, <2>2, NoneAssumption
    DEF RowsTyped, Filed, Contribution, NoneAssumption, Status
  <2> QED
    BY <1>0, <2>1, <2>2, <2>4, <2>5 DEF RowsInv, RowsTyped
<1>3. ASSUME NEW p \in Person, Vote(p) PROVE RowsTyped' /\ RowsInv'
  <2> DEFINE c == desk[p].on
  <2>1. /\ c \in Contribution /\ c \in Filed /\ proposal[c] # None /\ derived[c]
        /\ p # author[c] /\ desk[p].says \in Decision
        /\ desk[p].accepts \in SUBSET Person
    BY <1>0, <1>3 DEF Vote, AtDesk, IInv, RequestInv, BallotInv, DeskOK, Filed
  <2>2. Append(applied[c], desk[p].accepts) \in Seq(SUBSET Person)
    BY <1>0, <2>1, Applying DEF RowsTyped
  <2>3. applied' \in [Contribution -> Seq(SUBSET Person)]
    BY <1>0, <1>3, <2>2 DEF Vote, RowsTyped
  <2>4. votes' \in [Contribution -> [Person -> Decision \cup {None}]]
    BY <1>0, <1>3, <2>1 DEF Vote, RowsTyped
  <2>5. /\ status' \in [Contribution -> Status \cup {None}]
        /\ \A d \in Contribution : d # c => status'[d] = status[d]
        /\ status'[c] = status[c] \/ status'[c] \in {"accepted", "rejected"}
    BY <1>0, <1>3, <2>1 DEF Vote, RowsTyped, Status
  <2>6. Filed' = Filed
    BY <1>0, <2>1, <2>5, NoneAssumption DEF Filed, Contribution, NoneAssumption, Status
  <2>9. refused' \in [Contribution -> SUBSET Person]
    BY <1>0, <1>3, <2>1 DEF Vote, RowsTyped
  <2>7. RowsTyped'
    BY <1>0, <1>3, <2>1, <2>3, <2>4, <2>5, <2>9, NoneAssumption
    DEF Vote, RowsTyped, NoneAssumption, Status
  <2>8. \A d \in Contribution : \A q \in Person :
          votes'[d][q] # None => d \in Filed' /\ q # author'[d]
    BY <1>0, <1>3, <2>1, <2>6 DEF Vote, RowsInv, RowsTyped
  <2> QED
    BY <1>0, <1>3, <2>1, <2>5, <2>6, <2>7, <2>8 DEF Vote, RowsInv
<1>4. ASSUME NEW p \in Person, Flip(p) PROVE RowsTyped' /\ RowsInv'
  <2>1. desk[p].on \in Contribution
    BY <1>0, <1>4 DEF Flip, AtDesk, IInv, RequestInv, Filed
  <2>2. RowsTyped'
    BY <1>0, <1>4, <2>1, NoneAssumption
    DEF Flip, rows, RowsTyped, NoneAssumption, Status
  <2> QED
    BY <1>0, <1>4, <2>2 DEF Flip, rows, RowsInv, Filed
<1>5. ASSUME NEW p \in Person, Rederive(p) PROVE RowsTyped' /\ RowsInv'
  <2>1. desk[p].on \in Contribution /\ proposal[desk[p].on] # None
    BY <1>0, <1>5 DEF Rederive, AtDesk, IInv, RequestInv, Filed
  <2> QED
    BY <1>0, <1>5, <2>1, VerdictRows DEF Rederive
<1>6. CASE NightDerive
  <2>1. night.on \in Contribution /\ proposal[night.on] # None
    BY <1>6 DEF NightDerive, IInv, NightInv, TypeOK
  <2> QED
    BY <1>0, <1>6, <2>1, VerdictRows DEF NightDerive
<1> QED
  BY <1>1, <1>2, <1>3, <1>4, <1>5, <1>6, WhoWrites

LEMMA PeopleStep ==
    ASSUME IInv, [Next]_vars
    PROVE  PeopleTyped' /\ NightInv'
<1>0. PeopleTyped /\ NightInv
  BY TypeParts DEF IInv
<1>1. \A c \in Filed : c \in Filed' /\ (proposal[c] # None => proposal'[c] # None)
  BY AlwaysKept DEF Kept, Filed
<1>2. night.on # 0 => night.on \in Filed
  <2>1. night.on # 0 => night.on \in Contribution /\ proposal[night.on] # None
    BY <1>0 DEF PeopleTyped, NightInv
  <2> QED
    BY <2>1 DEF IInv, TypeOK, Filed
<1>3. signed' \subseteq Person /\ roles' \in [Person -> SUBSET {"contributor", "reviewer"}]
  <2>1. ASSUME NEW p \in Person, Sign(p) \/ Grant(p) \/ \E r \in roles[p] : Revoke(p, r)
        PROVE  signed' \subseteq Person
               /\ roles' \in [Person -> SUBSET {"contributor", "reviewer"}]
    BY <1>0, <2>1 DEF PeopleTyped, Sign, Grant, Revoke
  <2>2. ASSUME NEW p \in Person, Request(p) PROVE UNCHANGED people
    BY <2>2
    DEF Request, Check, File, AskVerdict, Look, LookToDerive, Rederive,
        LookAgain, Count, Vote, Flip, Abort
  <2>3. ASSUME UNCHANGED people
        PROVE  signed' \subseteq Person
               /\ roles' \in [Person -> SUBSET {"contributor", "reviewer"}]
    BY <1>0, <2>3 DEF PeopleTyped, people
  <2> QED
    BY <2>1, <2>2, <2>3
    DEF Next, vars, StartNight, NightLook, NightDerive, AbortNight
<1>4. ASSUME UNCHANGED night PROVE PeopleTyped' /\ NightInv'
  BY <1>0, <1>1, <1>2, <1>3, <1>4 DEF PeopleTyped, NightInv
<1>5. CASE StartNight
  <2>1. night' = [left |-> Unread, on |-> 0]
    BY <1>5 DEF StartNight
  <2>2. Unread \subseteq Filed /\ Filed \subseteq Contribution
    BY DEF Unread, Filed
  <2> QED
    BY <1>1, <1>3, <2>1, <2>2 DEF PeopleTyped, NightInv
<1>6. CASE night' = Asleep
  BY <1>3, <1>6 DEF PeopleTyped, NightInv, Asleep
<1>7. CASE NightLook /\ night' # Asleep
  <2>1. PICK c \in night.left :
          Derivable(c) /\ night' = [left |-> night.left \ {c}, on |-> c]
    BY <1>7 DEF NightLook
  <2>2. c \in Filed /\ c \in Contribution /\ night.left \subseteq Filed
    BY <1>0, <2>1 DEF NightInv, Filed
  <2>3. proposal[c] # None
    BY <2>1, <2>2, NoneAssumption
    DEF Derivable, IInv, TypeOK, Filed, NoneAssumption, Status
  <2> QED
    BY <1>0, <1>1, <1>3, <2>1, <2>2, <2>3 DEF PeopleTyped, NightInv
<1>8. CASE NightDerive
  <2>1. night'.left = night.left /\ night'.on = 0
        /\ night' \in [left : SUBSET Contribution, on : {0} \cup Contribution]
    BY <1>0, <1>8 DEF NightDerive, PeopleTyped
  <2> QED
    BY <1>0, <1>1, <1>3, <2>1 DEF PeopleTyped, NightInv
<1> QED
  BY <1>4, <1>5, <1>6, <1>7, <1>8
  DEF Next, vars, Sign, Grant, Revoke, Request, Check, File, AskVerdict, Look,
      LookToDerive, Rederive, LookAgain, Count, Vote, Flip, Abort, AbortNight

(* An application is never taken back, and neither is what backs it.       *)
LEMMA BackedStep ==
    ASSUME IInv, [Next]_vars
    PROVE  Backed'
<1> SUFFICES ASSUME NEW c \in Contribution, NEW i \in DOMAIN applied'[c]
             PROVE  /\ Cardinality(applied'[c][i]) >= 2
                    /\ \A q \in applied'[c][i] : q # author'[c] /\ votes'[c][q] # None
                    /\ derived'[c]
  BY DEF Backed
<1>0. RowsTyped
  BY TypeParts DEF IInv
<1>1. CASE i \in DOMAIN applied[c] /\ applied'[c][i] = applied[c][i]
  <2>1. derived[c] /\ c \in Filed
    BY <1>1 DEF IInv, Backed, TypeOK, Filed
  <2>2. Kept(c)
    BY <2>1, AlwaysKept
  <2>3. applied[c][i] \subseteq Person
    BY <1>0, <1>1, ElementOfSeq, LenProperties DEF RowsTyped
  <2> QED
    BY <1>1, <2>2, <2>3 DEF IInv, Backed, Kept
<1>2. ASSUME NEW p \in Person, Vote(p), applied'[c] # applied[c]
      PROVE  \/ i \in DOMAIN applied[c] /\ applied'[c][i] = applied[c][i]
             \/ /\ Cardinality(applied'[c][i]) >= 2
                /\ \A q \in applied'[c][i] :
                      q # author'[c] /\ votes'[c][q] # None
                /\ derived'[c]
  <2>1. /\ desk[p].on = c /\ Enough(desk[p].accepts)
        /\ applied'[c] = Append(applied[c], desk[p].accepts)
    BY <1>0, <1>2 DEF Vote, RowsTyped
  <2>2. /\ derived[c] /\ desk[p].says \in Decision
        /\ \A q \in desk[p].accepts : q # author[c] /\ (q = p \/ votes[c][q] # None)
    BY <1>2, <2>1 DEF Vote, AtDesk, IInv, RequestInv, BallotInv
  <2>3. desk[p].accepts \in SUBSET Person /\ applied[c] \in Seq(SUBSET Person)
    BY <1>0 DEF IInv, DeskOK, RowsTyped
  <2>4. CASE i \in DOMAIN applied[c] /\ applied'[c][i] = applied[c][i]
    BY <2>4
  <2>5. CASE applied'[c][i] = desk[p].accepts
    <3>1. \A q \in desk[p].accepts : votes'[c][q] # None
      BY <1>0, <1>2, <2>1, <2>2, <2>3, NoneAssumption DEF Vote, RowsTyped, NoneAssumption
    <3> QED
      BY <1>2, <2>1, <2>2, <2>5, <3>1 DEF Vote, Enough
  <2> QED
    BY <2>1, <2>3, <2>4, <2>5, Applying
<1>3. applied'[c] = applied[c] \/ \E p \in Person : Vote(p)
  BY WhoWrites DEF Looking, File, Rederive, Flip, NightDerive
<1> QED
  BY <1>1, <1>2, <1>3

LEMMA MirroredStep ==
    ASSUME IInv, [Next]_vars
    PROVE  Mirrored'
<1> SUFFICES ASSUME NEW c \in Contribution
             PROVE  /\ proposal'[c] = "approved" => applied'[c] # <<>>
                    /\ proposal'[c] = "rejected" =>
                          \E p \in refused'[c] : p # author'[c]
  BY DEF Mirrored
<1>0. RowsTyped
  BY TypeParts DEF IInv
<1>1. CASE proposal'[c] = proposal[c] /\ proposal[c] # None
  <2>1. Kept(c)
    BY <1>0, <1>1, AlwaysKept DEF RowsTyped, Filed
  <2> QED
    BY <1>1, <2>1 DEF IInv, Mirrored, Kept
<1>2. CASE proposal'[c] \in {"proposed", None}
  BY <1>2, NoneAssumption DEF NoneAssumption, Status
<1>3. ASSUME NEW p \in Person, Flip(p), proposal'[c] # proposal[c]
      PROVE  /\ proposal'[c] = "approved" => applied'[c] # <<>>
             /\ proposal'[c] = "rejected" =>
                   \E q \in refused'[c] : q # author'[c]
  <2>1. desk[p].on = c /\ UNCHANGED <<votes, applied, refused, author>>
        /\ (desk[p].says # "reject" <=> proposal'[c] # "rejected")
    BY <1>0, <1>3 DEF Flip, rows, RowsTyped
  <2>2. /\ p # author[c]
        /\ IF desk[p].says = "reject" THEN p \in refused[c] ELSE applied[c] # <<>>
    BY <1>3, <2>1 DEF Flip, AtDesk, IInv, RequestInv, BallotInv
  <2> QED
    BY <2>1, <2>2
<1>4. ASSUME NEW p \in Person, File(p)
      PROVE  proposal'[c] = proposal[c] \/ proposal'[c] \in {"proposed", None}
  BY <1>0, <1>4 DEF File, RowsTyped
<1> QED
  BY <1>1, <1>2, <1>3, <1>4, WhoWrites DEF Looking, Rederive, Vote, NightDerive

-----------------------------------------------------------------------------
LEMMA Invariance == Spec => []IInv
<1>1. ASSUME IInv, [Next]_vars PROVE IInv'
  <2>1. TypeOK'
    BY <1>1, RowsStep, PeopleStep DEF TypeOK, RowsTyped, PeopleTyped
  <2>2. \A p \in Person : RequestInv(p)'
    BY <1>1, RequestStep
  <2> QED
    BY <1>1, <2>1, <2>2, DeskStep, RowsStep, PeopleStep, BackedStep, MirroredStep
    DEF IInv
<1> QED
  BY <1>1, InitInv, PTL DEF Spec

(* The rows stay well typed: a contribution has a mirror if and only if it *)
(* passed its checks, and only such a one gets a verdict.                  *)
THEOREM TypeCorrect == Spec => []TypeOK
<1>1. IInv => TypeOK
  BY DEF IInv
<1> QED
  BY <1>1, Invariance, PTL

(* Every application to the registry has two approvers who are not the     *)
(* author and have voted, and comes after the fleet's verdict, whatever    *)
(* requests overlap.                                                       *)
THEOREM BackedAlways == Spec => []Backed
<1>1. IInv => Backed
  BY DEF IInv
<1> QED
  BY <1>1, Invariance, PTL

(* An approved mirror has been applied, and behind a rejected one is the   *)
(* reject of somebody else than the author, which the author was told of.  *)
THEOREM MirrorHonest == Spec => []Mirrored
<1>1. IInv => Mirrored
  BY DEF IInv
<1> QED
  BY <1>1, Invariance, PTL

(* A step of anybody leaves a closed contribution alone when nobody has    *)
(* looked at it while it was open, and nobody starts on it.                *)
LEMMA ClosedStep ==
    ASSUME IInv, [Next]_vars, NEW c \in Contribution, Closed(c)
    PROVE  status'[c] = status[c] /\ applied'[c] = applied[c] /\ ~Engaged(c)'
<1>0. RowsTyped /\ PeopleTyped /\ DeskOK /\ RowsInv
  BY TypeParts DEF IInv
<1>1. /\ status[c] \in {"accepted", "rejected"} /\ night.on # c
      /\ \A p \in Person : desk[p].on = c =>
            desk[p].step \notin {"deriving", "voting", "counted"}
  BY DEF Closed, Engaged
<1>2. status'[c] = status[c] /\ applied'[c] = applied[c]
  <2>1. ASSUME NEW p \in Person, File(p) PROVE status'[c] = status[c]
    <3>1. Cardinality(Filed) + 1 # c
      BY <1>0, <1>1, <2>1, NextPlace, NoneAssumption
      DEF File, Filed, NoneAssumption, Status
    <3> QED
      BY <1>0, <2>1, <3>1 DEF File, RowsTyped
  <2>2. ASSUME NEW d, d # c, WriteVerdict(d) PROVE status'[c] = status[c]
    BY <1>0, <2>2 DEF WriteVerdict, RowsTyped
  <2>3. ASSUME NEW p \in Person, Vote(p)
        PROVE  status'[c] = status[c] /\ applied'[c] = applied[c]
    BY <1>0, <1>1, <2>3 DEF Vote, AtDesk, RowsTyped
  <2> QED
    BY <1>1, <2>1, <2>2, <2>3, WhoWrites
    DEF Looking, rows, File, Rederive, AtDesk, Flip, NightDerive
<1>3. night'.on # c
  <2>1. CASE NightLook
    <3>1. PICK d \in night.left :
            night' = IF Derivable(d) THEN [left |-> night.left \ {d}, on |-> d]
                     ELSE Asleep
      BY <2>1 DEF NightLook
    <3>2. Derivable(d) => d # c
      BY <1>1 DEF Derivable
    <3> QED
      BY <3>1, <3>2 DEF Asleep, Contribution
  <2>2. CASE night'.on \in {0, night.on}
    BY <1>1, <2>2 DEF Contribution
  <2>3. CASE StartNight \/ NightDerive \/ AbortNight
    BY <1>0, <2>2, <2>3
    DEF StartNight, NightDerive, AbortNight, PeopleTyped, Asleep
  <2> QED
    BY <2>1, <2>2, <2>3
    DEF Next, vars, Sign, Grant, Revoke, Request, Check, File, AskVerdict, Look,
        LookToDerive, Rederive, LookAgain, Count, Vote, Flip, Abort
<1>4. ASSUME NEW p \in Person, desk'[p].on = c, desk'[p] # desk[p]
      PROVE  desk'[p].step \notin {"deriving", "voting", "counted"}
  <2>1. Request(p)
    BY <1>4, OwnDesk
  <2>2. CASE Leave(p)
    BY <1>0, <2>2, DeskMoves DEF Idle
  <2>3. CASE Check(p) \/ LookToDerive(p) \/ Rederive(p) \/ Vote(p)
    BY <1>0, <1>1, <1>4, <2>2, <2>3
    DEF Check, LookToDerive, Rederive, Vote, Turn, Derivable, DeskOK
  <2>4. ASSUME NEW d \in Filed, AskVerdict(p, d) \/ Look(p, d)
        PROVE  desk'[p].step \notin {"deriving", "voting", "counted"}
    <3>1. \/ desk'[p].step = "derive"
          \/ desk'[p].on = d /\ Reviewable(d)
      BY <1>0, <2>4 DEF AskVerdict, Look, Idle, DeskOK
    <3> QED
      BY <1>1, <1>4, <3>1 DEF Reviewable
  <2>5. CASE LookAgain(p)
    BY <1>0, <1>1, <1>4, <2>2, <2>5 DEF LookAgain, Reviewable, DeskOK
  <2>6. ASSUME NEW d \in Decision, Count(p, d)
        PROVE  desk'[p].step \notin {"deriving", "voting", "counted"}
    BY <1>0, <1>1, <1>4, <2>2, <2>6 DEF Count, AtDesk, DeskOK
  <2> QED
    BY <2>1, <2>2, <2>3, <2>4, <2>5, <2>6 DEF Request, File, Flip, Abort
<1> QED
  BY <1>1, <1>2, <1>3, <1>4 DEF Engaged

(* What is accepted or rejected stays so and is not applied again, once    *)
(* the requests that had looked at it while it was open are over.          *)
THEOREM ClosesForGood == Spec => Closes
<1>1. IInv /\ [Next]_vars =>
        [\A c \in Contribution : Closed(c) =>
            /\ status'[c] = status[c] /\ applied'[c] = applied[c]
            /\ ~Engaged(c)']_vars
  BY ClosedStep
<1> QED
  BY <1>1, Invariance, PTL DEF Spec, Closes

=============================================================================
