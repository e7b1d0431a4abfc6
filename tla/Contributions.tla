---------------------------- MODULE Contributions ----------------------------
(***************************************************************************)
(* Community contributions: whoever has signed the licence agreement files *)
(* one, automated checks pass it or not, the fleet re-derives it, and      *)
(* reviewers vote on it.  The second accept applies it to the registry,    *)
(* one reject closes it, and the outcome decides the proposal that mirrors *)
(* it in the console's queue.                                              *)
(*                                                                         *)
(* A request looks at the contribution first, on a connection of its own,  *)
(* and votes in a later transaction; that transaction counts the committed *)
(* votes and commits in another step, as under READ COMMITTED; the mirror  *)
(* is decided in a third one.  A person has one request at a time: the     *)
(* requests of one reviewer are serialised by the unique key of the votes. *)
(* Nothing reads what a verdict says, so only that there is one is kept.   *)
(***************************************************************************)
EXTENDS Naturals, Sequences, FiniteSets

CONSTANTS
    Person,
    Maintainer,       \* the configured maintainers, whatever roles are granted
    None,
    MaxContributions,
    MaxApplications,  \* how often one contribution is applied
    MaxSigned,        \* people who sign the agreement
    MaxGrants,        \* roles granted and revoked
    MaxCrashes        \* nights that die half-way

ASSUME ConstantsAssumption ==
    /\ Maintainer \subseteq Person
    /\ {MaxContributions, MaxApplications, MaxSigned, MaxGrants, MaxCrashes}
         \subseteq Nat

VARIABLES
    status, author,  \* the rows of contributions
    derived,    \* [Contribution -> BOOLEAN]: it has a verdict of the fleet
    votes,      \* [Contribution -> [Person -> ...]]: contribution_reviews
    applied,    \* the approvers of each application to the registry
    refused,    \* [Contribution -> SUBSET Person]: whose rejections the author
                \* has been told of (contributor_notifications)
    proposal,   \* the status of the mirror, None without one
    signed,     \* who has signed the agreement
    roles,      \* the roles granted and not revoked
    desk,       \* what each person's request is doing
    night,      \* the nightly re-derivation: what it has still to do
    grants, crashes  \* counters, for the bounds

rows == <<status, author, derived>>
people == <<signed, roles, grants>>
vars == <<rows, votes, applied, refused, proposal, people, desk, night, crashes>>

Contribution == 1..MaxContributions

Status == {"checked", "checks_failed", "rederived", "accepted", "rejected"}
Decision == {"accept", "reject", "request_changes"}
Reviewing == {"reviewer", "maintainer"}

(* None is no person, and none of the words of the rows.                   *)
ASSUME NoneAssumption ==
    None \notin Person \cup Status \cup Decision \cup {"proposed", "approved"}

Idle == [step |-> "idle", on |-> 0, says |-> None, accepts |-> {}]
Asleep == [left |-> {}, on |-> 0]

Filed == {c \in Contribution : status[c] # None}

RolesOf(p) == roles[p] \cup (IF p \in Maintainer THEN {"maintainer"} ELSE {})

IsReviewer(p) == RolesOf(p) \cap Reviewing # {}

Init ==
    /\ status = [c \in Contribution |-> None]
    /\ author = [c \in Contribution |-> None]
    /\ derived = [c \in Contribution |-> FALSE]
    /\ votes = [c \in Contribution |-> [p \in Person |-> None]]
    /\ applied = [c \in Contribution |-> <<>>]
    /\ refused = [c \in Contribution |-> {}]
    /\ proposal = [c \in Contribution |-> None]
    /\ signed = {}
    /\ roles = [p \in Person |-> {}]
    /\ desk = [p \in Person |-> Idle]
    /\ night = Asleep
    /\ grants = 0
    /\ crashes = 0

-----------------------------------------------------------------------------
(* Roles.  A signature grants the contributor's role once and for all: who *)
(* signs again is shown the earlier signature.                             *)

Sign(p) ==
    /\ p \notin signed
    /\ Cardinality(signed) < MaxSigned
    /\ signed' = signed \cup {p}
    /\ roles' = [roles EXCEPT ![p] = @ \cup {"contributor"}]
    /\ UNCHANGED <<rows, votes, applied, refused, proposal, desk, night, grants, crashes>>

Grant(p) ==
    /\ Maintainer # {}
    /\ "reviewer" \notin roles[p]
    /\ grants < MaxGrants
    /\ grants' = grants + 1
    /\ roles' = [roles EXCEPT ![p] = @ \cup {"reviewer"}]
    /\ UNCHANGED <<rows, votes, applied, refused, proposal, signed, desk, night, crashes>>

Revoke(p, r) ==
    /\ Maintainer # {}
    /\ r \in roles[p]
    /\ grants < MaxGrants
    /\ grants' = grants + 1
    /\ roles' = [roles EXCEPT ![p] = @ \ {r}]
    /\ UNCHANGED <<rows, votes, applied, refused, proposal, signed, desk, night, crashes>>

-----------------------------------------------------------------------------
(* Filing: the transaction runs the checks (schema, target, rights,        *)
(* duplicates), whose outcome is open here, and then inserts the row and   *)
(* its mirror.                                                             *)

AtDesk(p, step) == desk[p].step = step
Turn(p, step) == desk' = [desk EXCEPT ![p].step = step]
Leave(p) == desk' = [desk EXCEPT ![p] = Idle]

Check(p) ==
    /\ AtDesk(p, "idle")
    /\ Cardinality(Filed) < MaxContributions
    /\ "contributor" \in RolesOf(p)
    /\ Turn(p, "passed") \/ Turn(p, "failed")
    /\ UNCHANGED <<rows, votes, applied, refused, proposal, people, night, crashes>>

File(p) ==
    /\ desk[p].step \in {"passed", "failed"}
    /\ Cardinality(Filed) < MaxContributions
    /\ LET c == Cardinality(Filed) + 1
           ok == AtDesk(p, "passed")
       IN  /\ status' = [status EXCEPT ![c] = IF ok THEN "checked"
                                              ELSE "checks_failed"]
           /\ author' = [author EXCEPT ![c] = p]
           /\ proposal' = [proposal EXCEPT ![c] = IF ok THEN "proposed" ELSE None]
    /\ Leave(p)
    /\ UNCHANGED <<derived, votes, applied, refused, people, night, crashes>>

-----------------------------------------------------------------------------
(* Re-derivation reads the status first and writes the verdict later,      *)
(* whatever the status has become.                                         *)

(* Mutant: whatever is not decided may be re-derived.                      *)
DerivableOpen(c) == status[c] \notin {"accepted", "rejected"}

Derivable(c) == status[c] \in {"checked", "rederived"}

WriteVerdict(c) ==
    /\ status' = [status EXCEPT ![c] = "rederived"]
    /\ derived' = [derived EXCEPT ![c] = TRUE]
    /\ UNCHANGED author

(* A reviewer asks for it, or a review comes before the first one.         *)
AskVerdict(p, c) ==
    /\ AtDesk(p, "idle")
    /\ IsReviewer(p)
    /\ desk' = [desk EXCEPT ![p] = [Idle EXCEPT !.step = "derive", !.on = c]]
    /\ UNCHANGED <<rows, votes, applied, refused, proposal, people, night, crashes>>

LookToDerive(p) ==
    /\ AtDesk(p, "derive")
    /\ IF Derivable(desk[p].on) THEN Turn(p, "deriving") ELSE Leave(p)
    /\ UNCHANGED <<rows, votes, applied, refused, proposal, people, night, crashes>>

Rederive(p) ==
    /\ AtDesk(p, "deriving")
    /\ WriteVerdict(desk[p].on)
    /\ IF desk[p].says = "review" THEN Turn(p, "again") ELSE Leave(p)
    /\ UNCHANGED <<votes, applied, refused, proposal, people, night, crashes>>

(* The night lists the checked ones and takes them in any order; one that  *)
(* has been closed in the meantime ends the night.                         *)
Unread == {c \in Filed : status[c] = "checked"}

StartNight ==
    /\ night = Asleep
    /\ Unread # {}
    /\ night' = [left |-> Unread, on |-> 0]
    /\ UNCHANGED <<rows, votes, applied, refused, proposal, people, desk, crashes>>

NightLook ==
    /\ night.on = 0
    /\ \E c \in night.left :
          night' = IF Derivable(c) THEN [left |-> night.left \ {c}, on |-> c]
                   ELSE Asleep
    /\ UNCHANGED <<rows, votes, applied, refused, proposal, people, desk, crashes>>

NightDerive ==
    /\ night.on # 0
    /\ WriteVerdict(night.on)
    /\ night' = [night EXCEPT !.on = 0]
    /\ UNCHANGED <<votes, applied, refused, proposal, people, desk, crashes>>

-----------------------------------------------------------------------------
(* Review, from the community pages or from the console.                   *)

(* Mutant: an accepted contribution may be reviewed again.                 *)
ReviewableUnlessRejected(c) == status[c] \in {"rederived", "accepted"}

Reviewable(c) == status[c] = "rederived"

Look(p, c) ==
    /\ AtDesk(p, "idle")
    /\ \/ /\ status[c] = "checked"
          /\ desk' = [desk EXCEPT ![p] = [Idle EXCEPT !.step = "derive", !.on = c,
                                                      !.says = "review"]]
       \/ /\ status[c] # "checked" /\ Reviewable(c)
          /\ desk' = [desk EXCEPT ![p] = [Idle EXCEPT !.step = "voting", !.on = c]]
    /\ UNCHANGED <<rows, votes, applied, refused, proposal, people, night, crashes>>

LookAgain(p) ==
    /\ AtDesk(p, "again")
    /\ IF Reviewable(desk[p].on)
       THEN desk' = [desk EXCEPT ![p].step = "voting", ![p].says = None]
       ELSE Leave(p)
    /\ UNCHANGED <<rows, votes, applied, refused, proposal, people, night, crashes>>

(* Mutant: reviewers vote on their own contributions.                      *)
MayVoteOwn(p, c) == IsReviewer(p)

(* Only reviewers vote, and never on what they filed themselves.           *)
MayVote(p, c) == IsReviewer(p) /\ p # author[c]

Accepting(p, c, d) ==
    {q \in Person \ {p} : votes[c][q] = "accept"}
        \cup (IF d = "accept" THEN {p} ELSE {})

Count(p, d) ==
    LET c == desk[p].on
    IN  /\ AtDesk(p, "voting")
        /\ IF MayVote(p, c)
           THEN desk' = [desk EXCEPT ![p] =
                           [step |-> "counted", on |-> c, says |-> d,
                            accepts |-> IF d = "accept" THEN Accepting(p, c, d)
                                        ELSE {}]]
           ELSE Leave(p)
        /\ UNCHANGED <<rows, votes, applied, refused, proposal, people, night, crashes>>

Enough(accepts) == Cardinality(accepts) >= 2

(* Mutant: one accept decides the mirror.                                  *)
DecidesAlone(p) == desk[p].says # "request_changes"

(* A reject and an application decide the contribution.                    *)
Decides(p) == desk[p].says = "reject" \/ Enough(desk[p].accepts)

Vote(p) ==
    LET c == desk[p].on
        d == desk[p].says
        accepted == Enough(desk[p].accepts)
    IN  /\ AtDesk(p, "counted")
        /\ accepted => Len(applied[c]) < MaxApplications
        /\ votes' = [votes EXCEPT ![c][p] = d]
        /\ status' = IF d = "reject" THEN [status EXCEPT ![c] = "rejected"]
                     ELSE IF accepted THEN [status EXCEPT ![c] = "accepted"]
                     ELSE status
        /\ applied' = IF accepted
                      THEN [applied EXCEPT ![c] = Append(@, desk[p].accepts)]
                      ELSE applied
        /\ refused' = IF d = "reject" THEN [refused EXCEPT ![c] = @ \cup {p}]
                      ELSE refused
        /\ IF Decides(p) THEN Turn(p, "flip") ELSE Leave(p)
        /\ UNCHANGED <<author, derived, proposal, people, night, crashes>>

(* The first outcome decides the mirror.                                   *)
Flip(p) ==
    LET c == desk[p].on
    IN  /\ AtDesk(p, "flip")
        /\ proposal' = IF proposal[c] = "proposed"
                       THEN [proposal EXCEPT ![c] = IF desk[p].says = "reject"
                                                    THEN "rejected" ELSE "approved"]
                       ELSE proposal
        /\ Leave(p)
        /\ UNCHANGED <<rows, votes, applied, refused, people, night, crashes>>

-----------------------------------------------------------------------------
(* A request dies, or its transaction fails: on an identifier that another *)
(* one drew at the same time, or on a target that is gone.                 *)
Abort(p) ==
    /\ ~AtDesk(p, "idle")
    /\ Leave(p)
    /\ UNCHANGED <<rows, votes, applied, refused, proposal, people, night, crashes>>

AbortNight ==
    /\ night # Asleep
    /\ crashes < MaxCrashes
    /\ crashes' = crashes + 1
    /\ night' = Asleep
    /\ UNCHANGED <<rows, votes, applied, refused, proposal, people, desk>>

Request(p) ==
    \/ Check(p) \/ File(p)
    \/ \E c \in Filed : AskVerdict(p, c) \/ Look(p, c)
    \/ LookToDerive(p) \/ Rederive(p) \/ LookAgain(p)
    \/ \E d \in Decision : Count(p, d)
    \/ Vote(p) \/ Flip(p) \/ Abort(p)

Next ==
    \/ \E p \in Person : \/ Sign(p) \/ Grant(p) \/ Request(p)
                         \/ \E r \in roles[p] : Revoke(p, r)
    \/ StartNight \/ NightLook \/ NightDerive \/ AbortNight

Spec == Init /\ [][Next]_vars

-----------------------------------------------------------------------------
(* The rows are well formed: a contribution that has passed its checks has *)
(* a mirror, and only such a contribution is read by the fleet or voted on *)
(* (platform/contributions.py:436).                                        *)
TypeOK ==
    /\ status \in [Contribution -> Status \cup {None}]
    /\ author \in [Contribution -> Person \cup {None}]
    /\ derived \in [Contribution -> BOOLEAN]
    /\ votes \in [Contribution -> [Person -> Decision \cup {None}]]
    /\ applied \in [Contribution -> Seq(SUBSET Person)]
    /\ refused \in [Contribution -> SUBSET Person]
    /\ proposal \in [Contribution -> {"proposed", "approved", "rejected", None}]
    /\ signed \subseteq Person
    /\ roles \in [Person -> SUBSET {"contributor", "reviewer"}]
    /\ night \in [left : SUBSET Contribution, on : {0} \cup Contribution]
    /\ \A c \in Contribution :
          /\ (proposal[c] = None) <=> (status[c] \in {None, "checks_failed"})
          /\ derived[c] => proposal[c] # None

(* Whatever two reviewers, their re-votes, the fleet and the roles do at   *)
(* the same time, an application to the registry has two approvers, none   *)
(* of them the author, each has voted on the contribution, and the fleet's *)
(* verdict was there to be seen (contributions.py:759).                    *)
Backed ==
    \A c \in Contribution : \A i \in DOMAIN applied[c] :
        /\ Cardinality(applied[c][i]) >= 2
        /\ \A p \in applied[c][i] : p # author[c] /\ votes[c][p] # None
        /\ derived[c]

(* The console's mirror never says more than what happened: an approved    *)
(* one has been applied to the registry, and behind a rejected one is the  *)
(* reject of somebody else than the author, which the author has been told *)
(* of -- though the outcome is committed before the mirror is decided, and *)
(* another outcome or a re-derivation may come in between (contributions.  *)
(* py:751, 809).                                                           *)
Mirrored ==
    \A c \in Contribution :
        /\ proposal[c] = "approved" => applied[c] # <<>>
        /\ proposal[c] = "rejected" => \E p \in refused[c] : p # author[c]

(* A contribution that is closed stays closed, and is not applied again,   *)
(* once the requests that had looked at it while it was open are over.     *)
Engaged(c) ==
    \/ \E p \in Person : desk[p].on = c
                         /\ desk[p].step \in {"deriving", "voting", "counted"}
    \/ night.on = c

Closed(c) == status[c] \in {"accepted", "rejected"} /\ ~Engaged(c)

Closes ==
    [][\A c \in Contribution : Closed(c) =>
          /\ status'[c] = status[c] /\ applied'[c] = applied[c]
          /\ ~Engaged(c)']_vars
==============================================================================
