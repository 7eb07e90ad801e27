------------------------- MODULE PdsCommandsTypes -------------------------
(***************************************************************************)
(* The types of the command plane, proved for every number of keys,        *)
(* callers, records and dispatches.  TypeOK is not inductive: what a       *)
(* caller or a request refers to has to be there, and no step may take it  *)
(* away.  TypeInv adds that; PlanInv of PdsCommandsProofs, with which it   *)
(* is proved, adds which caller a request on the wire still belongs to.    *)
(* The lemmas on rows say what the operations on a command can do to it.   *)
(***************************************************************************)
EXTENDS PdsCommands, FiniteSetTheorems, SequenceTheorems, WellFoundedInduction, TLAPS

Pending == {"prepared", "dispatching", "ambiguous"}
Rows == [state : {"none", "spent"} \cup Pending \cup Verdicts, gen : Nat, plan : Nat,
         dispatches : Seq([plan : Nat, outcome : Outcomes])]
Changes == [uri : Uris, expect : Contents, body : Contents]
Requests == [key : Keys, dispatch : Nat, head : Nat, steps : SUBSET Changes,
             caller : Callers \cup {Nobody}]
Requesters ==
    [pc : {"idle", "prepared", "read", "head", "begin", "sent", "replied", "decided"},
     key : Keys \cup {Nobody}, gen : Nat, local : {"none"} \cup Pending, plan : Nat,
     try : Nat, decision : {"none", "accept", "reject", "recover", "unresolved"},
     head : Nat, steps : SUBSET Changes, dispatch : Nat,
     reply : {"none", "ok", "invalid_swap", "rejected", "rate_limited"}]

\* The row of a command somebody works on.
Known(row) == row.state \notin {"none", "spent"}

RowOK(row) == row \in Rows /\ (row.state = "none" => row = NoCommand)

\* What a request on the wire and a caller refer to in the table of commands.
RequestOK(w, rows) ==
    /\ w \in Requests
    /\ Known(rows[w.key]) /\ w.dispatch \in DOMAIN rows[w.key].dispatches

RequesterOK(r, rows) ==
    /\ r \in Requesters
    /\ r.pc = "idle" <=> r.key = Nobody
    /\ r.pc # "idle" => Known(rows[r.key]) /\ rows[r.key].gen = r.gen
    /\ r.pc \in {"sent", "replied"} => r.dispatch \in DOMAIN rows[r.key].dispatches
    /\ r.pc = "replied" => r.reply # "none"

WorldOK ==
    /\ life \in [state : States, gen : 1..MaxGen]
    /\ intent \in [Keys -> [kind : Kinds, uri : Uris]]
    /\ repo \in [head : Nat, rec : [Uris -> Contents]]
    /\ landed \in [Keys -> Nat] /\ raced \in [Keys -> BOOLEAN]

TypeInv ==
    /\ WorldOK
    /\ command \in [Keys -> Rows] /\ \A k \in Keys : RowOK(command[k])
    /\ \A w \in wire : RequestOK(w, command)
    /\ caller \in [Callers -> Requesters] /\ \A c \in Callers : RequesterOK(caller[c], command)

----------------------------------------------------------------------------
(* Rows.                                                                   *)

\* What a step that begins no dispatch may do to a row: the state moves from
\* one that is pending to an uncertain or a final one, and outcomes change.
Moved(row, new) ==
    /\ RowOK(new) /\ new.gen = row.gen /\ Len(new.dispatches) = Len(row.dispatches)
    /\ \/ new.state = row.state
       \/ row.state \in Pending /\ new.state \in {"ambiguous"} \cup Verdicts

\* What it may give: the state and the last outcome stay or become the outcome.
Gives(row, new, outcome) ==
    /\ new.state \in {row.state, outcome}
    /\ row.dispatches # <<>> => LastOutcome(new) \in {LastOutcome(row), outcome}

\* A set of dispatch numbers has a latest.
LEMMA LatestExists ==
    ASSUME NEW n \in Nat, NEW T \in SUBSET (1..n), T # {}
    PROVE  \E i \in T : \A j \in T : j <= i
<1> DEFINE R == {p \in Nat \X Nat : p[1] < p[2]}
           F == {n - i : i \in T}
<1>1. R = OpToRel(<, Nat)
  BY DEF OpToRel
<1>2. IsWellFoundedOn(R, Nat)
  BY <1>1, NatLessThanWellFounded
<1>3. F \subseteq Nat /\ F # {}
  <2>1. \A i \in T : n - i \in Nat
    OBVIOUS
  <2>2. PICK i \in T : TRUE
    OBVIOUS
  <2>3. n - i \in F
    OBVIOUS
  <2> QED
    BY <2>1, <2>3
<1>4. PICK x \in F : \A y \in F : <<y, x>> \notin R
  <2> HIDE DEF F, R
  <2> QED
    BY <1>2, <1>3, WFMin
<1>5. PICK i \in T : x = n - i
  OBVIOUS
<1>6. ASSUME NEW j \in T PROVE ~(n - j < n - i)
  <2>1. n - j \in F /\ n - j \in Nat /\ x \in Nat
    BY <1>3
  <2>2. <<n - j, x>> \notin R
    <3> HIDE DEF F, R
    <3> QED
      BY <1>4, <2>1
  <2> QED
    BY <1>5, <2>1, <2>2
<1> QED
  BY <1>6

\* A verdict without a dispatch.
LEMMA ConcludedRow ==
    ASSUME NEW row, RowOK(row), Known(row), NEW verdict \in Verdicts
    PROVE  /\ Moved(row, Concluded(row, verdict))
           /\ Concluded(row, verdict).state \in {row.state, verdict}
           /\ Concluded(row, verdict).dispatches = row.dispatches
<1>1. CASE CanTransition(row.state, verdict)
  <2> DEFINE new == [row EXCEPT !.state = verdict]
  <2>1. Concluded(row, verdict) = new
    BY <1>1 DEF Concluded
  <2>2. new \in Rows /\ new.state = verdict /\ new.gen = row.gen
        /\ new.dispatches = row.dispatches
    BY DEF RowOK, Rows
  <2>3. row.state \in Pending /\ verdict # "none"
    BY <1>1 DEF CanTransition, Verdicts, Pending
  <2> HIDE DEF new
  <2> QED
    BY <2>1, <2>2, <2>3 DEF Moved, RowOK
<1>2. CASE ~CanTransition(row.state, verdict)
  BY <1>2 DEF Concluded, Moved, Verdicts
<1> QED
  BY <1>1, <1>2

\* What becomes of a dispatch, with the state of its command.
LEMMA SettledRow ==
    ASSUME NEW row, RowOK(row), Known(row), NEW i \in DOMAIN row.dispatches,
           NEW outcome \in Outcomes \ {"dispatching"}
    PROVE  /\ Moved(row, Settle(row, i, outcome))
           /\ Gives(row, Settle(row, i, outcome), outcome)
<1>1. CASE CanComplete(row, i, outcome)
  <2> DEFINE d == row.dispatches
             e == [d EXCEPT ![i].outcome = outcome]
             state == IF outcome \in Definite THEN row.state ELSE outcome
             new == [row EXCEPT !.state = state, !.dispatches = e]
  <2>1. Settle(row, i, outcome) = new
    BY <1>1 DEF Settle, Completed
  <2>2. /\ d \in Seq([plan : Nat, outcome : Outcomes]) /\ Len(d) \in Nat
        /\ DOMAIN d = 1..Len(d) /\ d[i] \in [plan : Nat, outcome : Outcomes]
    <3>1. d \in Seq([plan : Nat, outcome : Outcomes])
      BY DEF RowOK, Rows
    <3> HIDE DEF d
    <3>2. i \in DOMAIN d
      BY DEF d
    <3> QED
      BY <3>1, <3>2, LenProperties, ElementOfSeq
  <2>3. /\ e \in Seq([plan : Nat, outcome : Outcomes]) /\ Len(e) = Len(d)
        /\ \A j \in DOMAIN d : e[j].outcome = IF j = i THEN outcome ELSE d[j].outcome
    <3>1. [d[i] EXCEPT !.outcome = outcome] \in [plan : Nat, outcome : Outcomes]
          /\ [d[i] EXCEPT !.outcome = outcome].outcome = outcome
      BY <2>2
    <3> DEFINE x == [d[i] EXCEPT !.outcome = outcome]
    <3>2. e = [d EXCEPT ![i] = x]
      OBVIOUS
    <3>3. i \in 1..Len(d)
      BY <2>2
    <3> HIDE DEF d, e, x
    <3>4. /\ [d EXCEPT ![i] = x] \in Seq([plan : Nat, outcome : Outcomes])
          /\ Len([d EXCEPT ![i] = x]) = Len(d)
          /\ \A j \in 1..Len(d) : [d EXCEPT ![i] = x][j] = IF j = i THEN x ELSE d[j]
      BY <2>2, <3>1, <3>3, ExceptSeq DEF x
    <3> QED
      BY <2>2, <3>1, <3>2, <3>4 DEF x
  <2>4. state \in Pending \cup Verdicts /\ row.state \in Pending
    BY <1>1 DEF CanComplete, CanTransition, Pending, Verdicts, Outcomes, Definite
  <2>5. state = row.state \/ state \in {"ambiguous"} \cup Verdicts
    BY DEF Pending, Verdicts, Outcomes, Definite
  <2> HIDE DEF e, state
  <2>6. new \in Rows /\ new.state = state /\ new.gen = row.gen /\ new.dispatches = e
    BY <2>3, <2>4 DEF RowOK, Rows
  <2>7. d # <<>> => LastOutcome(new) \in {LastOutcome(row), outcome}
    BY <2>2, <2>3, <2>6 DEF LastOutcome
  <2>8. state \in {row.state, outcome} /\ state # "none"
    BY <2>4 DEF state, Pending, Verdicts
  <2> HIDE DEF new
  <2> QED
    BY <2>1, <2>3, <2>4, <2>5, <2>6, <2>7, <2>8 DEF Moved, Gives, RowOK
<1>2. CASE ~CanComplete(row, i, outcome)
  BY <1>2 DEF Settle, Moved, Gives
<1> QED
  BY <1>1, <1>2

\* A dispatch left open becomes uncertain, or the command without one does.
LEMMA MarkedRow ==
    ASSUME NEW row, RowOK(row), Known(row)
    PROVE  /\ Moved(row, MarkedAmbiguous(row))
           /\ Gives(row, MarkedAmbiguous(row), "ambiguous")
<1> DEFINE open == {i \in DOMAIN row.dispatches : row.dispatches[i].outcome = "dispatching"}
           last == CHOOSE i \in open : \A j \in open : j <= i
<1>1. CASE open # {}
  <2>1. open \in SUBSET (1..Len(row.dispatches)) /\ Len(row.dispatches) \in Nat
    BY DEF RowOK, Rows
  <2>2. last \in DOMAIN row.dispatches
    <3>1. \E i \in open : \A j \in open : j <= i
      <4> HIDE DEF open
      <4> QED
        BY <1>1, <2>1, LatestExists
    <3> QED
      BY <3>1
  <2>3. MarkedAmbiguous(row) = Settle(row, last, "ambiguous")
    BY <1>1 DEF MarkedAmbiguous
  <2>4. "ambiguous" \in Outcomes \ {"dispatching"}
    BY DEF Outcomes
  <2> HIDE DEF last
  <2> QED
    BY <2>2, <2>3, <2>4, SettledRow
<1>2. CASE open = {} /\ row.state = "dispatching" /\ LastOutcome(row) = "invalid_swap"
  <2> DEFINE new == [row EXCEPT !.state = "ambiguous"]
  <2>1. MarkedAmbiguous(row) = new
    BY <1>2 DEF MarkedAmbiguous
  <2>2. new \in Rows /\ new.state = "ambiguous" /\ new.gen = row.gen
        /\ new.dispatches = row.dispatches
    BY DEF RowOK, Rows, Pending
  <2>3. row.state \in Pending
    BY <1>2 DEF Pending
  <2> HIDE DEF new
  <2> QED
    BY <2>1, <2>2, <2>3 DEF Moved, Gives, RowOK, LastOutcome
<1>3. CASE open = {} /\ ~(row.state = "dispatching" /\ LastOutcome(row) = "invalid_swap")
  BY <1>3 DEF MarkedAmbiguous, Moved, Gives
<1> QED
  BY <1>1, <1>2, <1>3

\* An editor finds its write in the repository.
LEMMA RecoveredRow ==
    ASSUME NEW row, RowOK(row), Known(row), NEW plan
    PROVE  /\ Moved(row, Recovered(row, plan))
           /\ Gives(row, Recovered(row, plan), "accepted")
<1> DEFINE known == {i \in DOMAIN row.dispatches : row.dispatches[i].plan = plan}
           last == CHOOSE i \in known : \A j \in known : j <= i
<1>1. CASE known # {}
  <2>1. known \in SUBSET (1..Len(row.dispatches)) /\ Len(row.dispatches) \in Nat
    BY DEF RowOK, Rows
  <2>2. last \in DOMAIN row.dispatches
    <3>1. \E i \in known : \A j \in known : j <= i
      <4> HIDE DEF known
      <4> QED
        BY <1>1, <2>1, LatestExists
    <3> QED
      BY <3>1
  <2>3. Recovered(row, plan) = Settle(row, last, "accepted")
    BY <1>1 DEF Recovered
  <2>4. "accepted" \in Outcomes \ {"dispatching"}
    BY DEF Outcomes
  <2> HIDE DEF last
  <2> QED
    BY <2>2, <2>3, <2>4, SettledRow
<1>2. CASE known = {}
  BY <1>2 DEF Recovered, Moved, Gives
<1> QED
  BY <1>1, <1>2

\* A dispatch is persisted: it is the last of its command, and open.
LEMMA BegunRow ==
    ASSUME NEW row, RowOK(row), Known(row), NEW version \in Nat,
           CanBegin(row, version)
    PROVE  LET new == Begun(row, version) IN
           /\ RowOK(new) /\ new.gen = row.gen /\ new.state = "dispatching"
           /\ row.state \in Pending
           /\ Len(new.dispatches) = Len(row.dispatches) + 1
           /\ LastOutcome(new) = "dispatching"
<1> DEFINE e == Append(row.dispatches, [plan |-> version, outcome |-> "dispatching"])
           new == [row EXCEPT !.state = "dispatching", !.plan = version, !.dispatches = e]
<1>1. Begun(row, version) = new
  BY DEF Begun
<1>2. e \in Seq([plan : Nat, outcome : Outcomes]) /\ Len(e) = Len(row.dispatches) + 1
      /\ e[Len(row.dispatches) + 1].outcome = "dispatching"
  <2>1. [plan |-> version, outcome |-> "dispatching"] \in [plan : Nat, outcome : Outcomes]
    BY DEF Outcomes
  <2> QED
    BY <2>1, AppendProperties DEF RowOK, Rows
<1> HIDE DEF e
<1>3. new \in Rows /\ new.state = "dispatching" /\ new.gen = row.gen /\ new.dispatches = e
  BY <1>2 DEF RowOK, Rows, Pending
<1>4. row.state \in Pending
  BY DEF CanBegin, CanTransition, Pending
<1> HIDE DEF new
<1> QED
  BY <1>1, <1>2, <1>3, <1>4 DEF RowOK, LastOutcome

----------------------------------------------------------------------------
(* Steps.                                                                  *)

\* What callers and requests refer to in a row is still there.
Kept(row, new) ==
    Known(row) => /\ Known(new) /\ new.gen = row.gen
                  /\ DOMAIN row.dispatches \subseteq DOMAIN new.dispatches

\* What callers and requests refer to is still there after a row has moved.
LEMMA MovedKeeps ==
    ASSUME NEW row, RowOK(row), NEW new, Moved(row, new)
    PROVE  RowOK(new) /\ Kept(row, new)
<1>1. DOMAIN row.dispatches = 1..Len(row.dispatches)
  BY LenProperties DEF RowOK, Rows
<1>2. DOMAIN new.dispatches = 1..Len(new.dispatches)
  BY LenProperties DEF Moved, RowOK, Rows
<1> QED
  BY <1>1, <1>2 DEF Moved, Kept, Known, Pending, Verdicts

\* The same after a dispatch has begun.
LEMMA BegunKeeps ==
    ASSUME NEW row, RowOK(row), Known(row), NEW version \in Nat, CanBegin(row, version)
    PROVE  LET new == Begun(row, version) IN
           /\ RowOK(new) /\ Kept(row, new)
           /\ Len(row.dispatches) + 1 \in DOMAIN new.dispatches
<1> DEFINE new == Begun(row, version)
<1>1. RowOK(new) /\ new.gen = row.gen /\ new.state = "dispatching"
      /\ Len(new.dispatches) = Len(row.dispatches) + 1
  BY BegunRow
<1>2. DOMAIN row.dispatches = 1..Len(row.dispatches) /\ Len(row.dispatches) \in Nat
  BY LenProperties DEF RowOK, Rows
<1> HIDE DEF new
<1>3. DOMAIN new.dispatches = 1..Len(new.dispatches)
  BY <1>1, LenProperties DEF RowOK, Rows
<1> QED
  BY <1>1, <1>2, <1>3 DEF Kept, Known, new

\* A step that keeps the rows keeps the types of all it does not write.
LEMMA StepTypes ==
    ASSUME TypeInv, WorldOK',
           command' \in [Keys -> Rows],
           \A k \in Keys : RowOK(command'[k]) /\ Kept(command[k], command'[k]),
           caller' \in [Callers -> Requesters],
           \A c \in Callers : caller'[c] = caller[c] \/ RequesterOK(caller'[c], command'),
           \A w \in wire' : RequestOK(w, command) \/ RequestOK(w, command')
    PROVE  TypeInv'
<1>1. ASSUME NEW w \in wire' PROVE RequestOK(w, command')
  BY DEF RequestOK, Requests, Kept
<1>2. ASSUME NEW c \in Callers PROVE RequesterOK(caller'[c], command')
  <2>1. CASE caller'[c] = caller[c]
    <3>1. RequesterOK(caller[c], command)
      BY DEF TypeInv
    <3>2. caller[c].pc # "idle" => caller[c].key \in Keys
      BY <3>1 DEF RequesterOK, Requesters
    <3> QED
      BY <2>1, <3>1, <3>2 DEF RequesterOK, Kept
  <2> QED
    BY <2>1
<1> QED
  BY <1>1, <1>2 DEF TypeInv

\* The same for a step of one caller, that writes its own row.
LEMMA CallerTypes ==
    ASSUME TypeInv, WorldOK',
           NEW c \in Callers, caller[c].pc # "idle",
           RowOK(command'[caller[c].key]),
           Kept(command[caller[c].key], command'[caller[c].key]),
           command' = [command EXCEPT ![caller[c].key] = command'[caller[c].key]],
           caller' = [caller EXCEPT ![c] = caller'[c]],
           RequesterOK(caller'[c], command'),
           \A w \in wire' : RequestOK(w, command) \/ RequestOK(w, command')
    PROVE  TypeInv'
<1>1. command' \in [Keys -> Rows] /\ caller' \in [Callers -> Requesters]
  BY DEF TypeInv, RowOK, RequesterOK
<1>2. ASSUME NEW k \in Keys PROVE RowOK(command'[k]) /\ Kept(command[k], command'[k])
  BY DEF TypeInv, Kept
<1>3. ASSUME NEW d \in Callers PROVE caller'[d] = caller[d] \/ RequesterOK(caller'[d], command')
  BY DEF TypeInv
<1> QED
  BY <1>1, <1>2, <1>3, StepTypes

\* A caller at work knows its command.
LEMMA AtWork ==
    ASSUME TypeInv, NEW c \in Callers
    PROVE  /\ caller[c] \in Requesters /\ RequesterOK(caller[c], command)
           /\ caller[c].pc # "idle" =>
                caller[c].key \in Keys /\ RowOK(Row(c)) /\ Known(Row(c))
<1>1. RequesterOK(caller[c], command)
  BY DEF TypeInv
<1>2. caller[c].pc # "idle" => caller[c].key \in Keys
  BY <1>1 DEF RequesterOK, Requesters
<1> QED
  BY <1>1, <1>2 DEF TypeInv, RequesterOK, Row

\* A caller that is done refers to nothing.
LEMMA IdleOK == \A rows : RequesterOK(Idle, rows)
  BY DEF RequesterOK, Requesters, Idle, Pending

\* Requests whose caller is gone refer to what they did.
LEMMA AbandonedOK ==
    ASSUME TypeInv, NEW c \in Callers, NEW w \in Abandoned(c)
    PROVE  /\ RequestOK(w, command)
           /\ \E v \in wire : /\ v.key = w.key /\ v.dispatch = w.dispatch
                              /\ v.head = w.head /\ v.steps = w.steps
                              /\ w.caller = IF v.caller = c THEN Nobody ELSE v.caller
<1>1. PICK v \in wire : w = IF v.caller = c THEN [v EXCEPT !.caller = Nobody] ELSE v
  BY DEF Abandoned
<1>2. RequestOK(v, command)
  BY DEF TypeInv
<1>3. v \in Requests
  BY <1>2 DEF RequestOK
<1> DEFINE n == [v EXCEPT !.caller = Nobody]
<1>4. /\ n \in Requests /\ n.key = v.key /\ n.dispatch = v.dispatch /\ n.head = v.head
      /\ n.steps = v.steps /\ n.caller = Nobody
  BY <1>3 DEF Requests
<1> HIDE DEF n
<1>5. RequestOK(n, command)
  BY <1>2, <1>4 DEF RequestOK
<1> QED
  BY <1>1, <1>2, <1>4, <1>5 DEF n

----------------------------------------------------------------------------
(* One lemma per operation says what it does and that it keeps the types.  *)

Unmoved == UNCHANGED <<life, intent, repo, landed, raced>>

\* Only the row and the record of a caller change.
Own(c) ==
    /\ command' = [command EXCEPT ![caller[c].key] = command'[caller[c].key]]
    /\ caller' = [caller EXCEPT ![c] = caller'[c]]

\* The last outcome stays, or is one that refuses nothing.
Unrefused(row, new) ==
    row.dispatches # <<>> =>
        LastOutcome(new) \in {LastOutcome(row), "accepted", "ambiguous"}

\* The world keeps its types when no step has moved it.
LEMMA UnmovedWorld == ASSUME TypeInv, Unmoved PROVE WorldOK'
  BY DEF TypeInv, WorldOK, Unmoved

\* A caller that leaves a row it moved keeps the types.
LEMMA LeaveTypes ==
    ASSUME TypeInv, WorldOK', NEW c \in Callers, caller[c].pc # "idle", Own(c),
           caller'[c] = Idle, Moved(Row(c), command'[caller[c].key]),
           wire' = wire \/ wire' = Abandoned(c)
    PROVE  TypeInv'
<1>1. RowOK(command'[caller[c].key]) /\ Kept(Row(c), command'[caller[c].key])
  BY AtWork, MovedKeeps
<1>2. \A w \in wire' : RequestOK(w, command)
  BY AbandonedOK DEF TypeInv
<1> QED
  BY <1>1, <1>2, IdleOK, CallerTypes DEF Own, Row

\* The rows that a step writes.
LEMMA StoreRow ==
    ASSUME TypeInv, NEW c \in Callers, caller[c].pc # "idle",
           NEW row, Store(c, row), NEW r, Become(c, r)
    PROVE  Own(c) /\ command'[caller[c].key] = row /\ caller'[c] = r
<1>1. caller[c].key \in DOMAIN command /\ c \in DOMAIN caller
  BY AtWork DEF TypeInv
<1> QED
  BY <1>1 DEF Store, Become, Own

\* A caller that moves on without a write leaves its row as it was.
LEMMA BecomeRow ==
    ASSUME TypeInv, NEW c \in Callers, caller[c].pc # "idle",
           command' = command, NEW r, Become(c, r)
    PROVE  Own(c) /\ command'[caller[c].key] = Row(c) /\ caller'[c] = r
<1>1. caller[c].key \in DOMAIN command /\ c \in DOMAIN caller
  BY AtWork DEF TypeInv
<1>2. command = [command EXCEPT ![caller[c].key] = command[caller[c].key]]
  BY <1>1 DEF TypeInv
<1> QED
  BY <1>1, <1>2 DEF Become, Own, Row

\* A row that stays as it is has moved, trivially.
LEMMA SameRow == ASSUME NEW row, RowOK(row) PROVE Moved(row, row) /\ Unrefused(row, row)
  BY DEF Moved, Unrefused

\* An owner who left: the command is rejected, or left as it is.
LEMMA RefuseEffect ==
    ASSUME TypeInv, NEW c \in Callers, Refuse(c)
    PROVE  LET new == command'[caller[c].key] IN
           /\ caller[c].pc = "prepared" /\ Unmoved /\ wire' = wire /\ Own(c)
           /\ caller'[c] = Idle
           /\ Moved(Row(c), new) /\ Unrefused(Row(c), new)
           /\ new.state \in {Row(c).state, "rejected"}
           /\ TypeInv'
<1> DEFINE row == IF Kind(c) = "append" THEN Row(c) ELSE Concluded(Row(c), "rejected")
<1>1. Store(c, row) /\ Become(c, Idle) /\ caller[c].pc = "prepared" /\ Unmoved /\ wire' = wire
  BY DEF Refuse, Unmoved
<1>2. Own(c) /\ command'[caller[c].key] = row /\ caller'[c] = Idle
  <2> HIDE DEF row
  <2> QED
    BY <1>1, StoreRow
<1>3. Moved(Row(c), row) /\ Unrefused(Row(c), row) /\ row.state \in {Row(c).state, "rejected"}
  <2>1. RowOK(Row(c)) /\ Known(Row(c)) /\ "rejected" \in Verdicts
    BY <1>1, AtWork DEF Verdicts
  <2> QED
    BY <2>1, SameRow, ConcludedRow DEF Unrefused, LastOutcome
<1> HIDE DEF row
<1> QED
  BY <1>1, <1>2, <1>3, UnmovedWorld, LeaveTypes

\* A decision without a dispatch: the command is accepted only when the caller
\* found what it wanted.
LEMMA ConcludeEffect ==
    ASSUME TypeInv, NEW c \in Callers, Conclude(c)
    PROVE  LET new == command'[caller[c].key] IN
           /\ caller[c].pc = "decided" /\ Unmoved /\ wire' = wire /\ Own(c)
           /\ caller'[c] = Idle
           /\ Moved(Row(c), new) /\ Unrefused(Row(c), new)
           /\ new.state = "accepted" =>
                Row(c).state = "accepted" \/ caller[c].decision \in {"accept", "recover"}
           /\ TypeInv'
<1> DEFINE row == CASE caller[c].decision = "accept" -> Concluded(Row(c), "accepted")
                    [] caller[c].decision = "reject" -> Concluded(Row(c), "rejected")
                    [] caller[c].decision = "recover" -> Recovered(Row(c), caller[c].plan)
                    [] OTHER -> IF caller[c].local = "dispatching"
                                THEN MarkedAmbiguous(Row(c)) ELSE Row(c)
<1>1. Store(c, row) /\ Become(c, Idle) /\ caller[c].pc = "decided" /\ Unmoved /\ wire' = wire
  BY DEF Conclude, Unmoved
<1>2. Own(c) /\ command'[caller[c].key] = row /\ caller'[c] = Idle
  <2> HIDE DEF row
  <2> QED
    BY <1>1, StoreRow
<1>3. RowOK(Row(c)) /\ Known(Row(c))
  BY <1>1, AtWork
<1>4. /\ Moved(Row(c), row) /\ Unrefused(Row(c), row)
      /\ row.state = "accepted" =>
            Row(c).state = "accepted" \/ caller[c].decision \in {"accept", "recover"}
  <2>1. CASE caller[c].decision = "accept"
    <3>1. row = Concluded(Row(c), "accepted") /\ "accepted" \in Verdicts
      BY <2>1 DEF Verdicts
    <3> HIDE DEF row
    <3> QED
      BY <1>3, <2>1, <3>1, ConcludedRow DEF Unrefused, LastOutcome
  <2>2. CASE caller[c].decision = "reject"
    <3>1. row = Concluded(Row(c), "rejected") /\ "rejected" \in Verdicts
      BY <2>2 DEF Verdicts
    <3> HIDE DEF row
    <3> QED
      BY <1>3, <3>1, ConcludedRow DEF Unrefused, LastOutcome
  <2>3. CASE caller[c].decision = "recover"
    <3>1. row = Recovered(Row(c), caller[c].plan)
      BY <2>3
    <3> HIDE DEF row
    <3> QED
      BY <1>3, <2>3, <3>1, RecoveredRow DEF Unrefused, Gives
  <2>4. CASE /\ caller[c].decision \notin {"accept", "reject", "recover"}
             /\ caller[c].local = "dispatching"
    <3>1. row = MarkedAmbiguous(Row(c))
      BY <2>4
    <3> HIDE DEF row
    <3> QED
      BY <1>3, <3>1, MarkedRow DEF Unrefused, Gives
  <2>5. CASE /\ caller[c].decision \notin {"accept", "reject", "recover"}
             /\ caller[c].local # "dispatching"
    <3>1. row = Row(c)
      BY <2>5
    <3> HIDE DEF row
    <3> QED
      BY <1>3, <3>1, SameRow
  <2> QED
    BY <2>1, <2>2, <2>3, <2>4, <2>5
<1> HIDE DEF row
<1> QED
  BY <1>1, <1>2, <1>4, UnmovedWorld, LeaveTypes

\* A crash leaves its command as it is, and its request on its way.
LEMMA CrashEffect ==
    ASSUME TypeInv, NEW c \in Callers, Crash(c)
    PROVE  /\ caller[c].pc # "idle" /\ Unmoved /\ wire' = Abandoned(c) /\ Own(c)
           /\ command' = command /\ caller'[c] = Idle /\ TypeInv'
<1>1. caller[c].pc # "idle" /\ Unmoved /\ wire' = Abandoned(c)
      /\ command' = command /\ Become(c, Idle)
  BY DEF Crash, Unmoved
<1>2. Own(c) /\ command'[caller[c].key] = Row(c) /\ caller'[c] = Idle
  BY <1>1, BecomeRow
<1>3. Moved(Row(c), Row(c))
  BY <1>1, AtWork, SameRow
<1> QED
  BY <1>1, <1>2, <1>3, UnmovedWorld, LeaveTypes

\* A caller that goes on keeps the types, with its command as it was.
LEMMA GoOnTypes ==
    ASSUME TypeInv, WorldOK', NEW c \in Callers, caller[c].pc # "idle", Own(c),
           command' = command, wire' = wire,
           caller'[c] \in Requesters, caller'[c].key = caller[c].key,
           caller'[c].gen = caller[c].gen,
           caller'[c].pc \in {"read", "head", "begin", "decided"}
    PROVE  TypeInv'
<1>1. RequesterOK(caller[c], command) /\ RowOK(Row(c))
  BY AtWork
<1>2. RequesterOK(caller'[c], command')
  BY <1>1 DEF RequesterOK
<1>3. RowOK(command'[caller[c].key]) /\ Kept(Row(c), command'[caller[c].key])
  BY <1>1 DEF Kept, Row
<1> QED
  BY <1>2, <1>3, CallerTypes DEF TypeInv, Own, Row

\* The lost head swaps of a command can be counted.
LEMMA SwapsType == ASSUME NEW row, RowOK(row) PROVE Swaps(row) \in Nat
<1> DEFINE lost == {i \in DOMAIN row.dispatches :
                       row.dispatches[i].outcome = "invalid_swap"}
<1>1. DOMAIN row.dispatches = 1..Len(row.dispatches) /\ Len(row.dispatches) \in Nat
  BY LenProperties DEF RowOK, Rows
<1>2. IsFiniteSet(1..Len(row.dispatches)) /\ lost \subseteq 1..Len(row.dispatches)
  BY <1>1, FS_Interval
<1> HIDE DEF lost
<1>3. Cardinality(lost) \in Nat
  BY <1>2, FS_Subset, FS_CardinalityType
<1> QED
  BY <1>3 DEF Swaps, lost

\* What a caller knows when it enters: its command was prepared, or the last
\* dispatch was definitely refused.
LEMMA EnterEffect ==
    ASSUME TypeInv, NEW c \in Callers, Enter(c)
    PROVE  LET was == caller[c]
               r == caller'[c] IN
           /\ was.pc = "prepared" /\ Unmoved /\ wire' = wire /\ Own(c)
           /\ command' = command /\ life = [state |-> "active", gen |-> was.gen]
           /\ r.key = was.key /\ r.gen = was.gen
           /\ r.pc = "read" \/ (r.pc = "decided" /\ r.decision = "reject")
           /\ r.local = was.local \/
                (r.local = "prepared" /\ Row(c).dispatches # <<>>
                   /\ LastOutcome(Row(c)) \in Definite)
           /\ TypeInv'
<1> DEFINE refused == /\ caller[c].local # "prepared"
                      /\ Row(c).dispatches # <<>>
                      /\ LastOutcome(Row(c)) \in Definite
           local == IF refused THEN "prepared" ELSE caller[c].local
           try == IF refused THEN Swaps(Row(c)) + 1 ELSE 1
           next == [caller[c] EXCEPT !.pc = "read", !.local = local, !.try = try]
           over == [next EXCEPT !.pc = "decided", !.decision = "reject"]
           r == IF next.try <= 3 THEN next ELSE over
<1>1. /\ Become(c, r) /\ caller[c].pc = "prepared" /\ Unmoved /\ wire' = wire
      /\ command' = command /\ life = [state |-> "active", gen |-> caller[c].gen]
  BY DEF Enter, Unmoved
<1>2. caller[c] \in Requesters /\ RowOK(Row(c))
  BY <1>1, AtWork
<1>3. local \in {"none"} \cup Pending /\ try \in Nat
  BY <1>2, SwapsType DEF Requesters, Pending
<1>4. local = caller[c].local \/ (local = "prepared" /\ Row(c).dispatches # <<>>
                                     /\ LastOutcome(Row(c)) \in Definite)
  OBVIOUS
<1> HIDE DEF local, try
<1>5. /\ next \in Requesters /\ next.pc = "read" /\ next.key = caller[c].key
      /\ next.gen = caller[c].gen /\ next.local = local
  BY <1>2, <1>3 DEF Requesters
<1> HIDE DEF next
<1>6. /\ over \in Requesters /\ over.pc = "decided" /\ over.key = caller[c].key
      /\ over.gen = caller[c].gen /\ over.local = local /\ over.decision = "reject"
  BY <1>5 DEF Requesters
<1> HIDE DEF over
<1>7. /\ r \in Requesters /\ r.key = caller[c].key /\ r.gen = caller[c].gen
      /\ r.local = local
      /\ r.pc = "read" \/ (r.pc = "decided" /\ r.decision = "reject")
  BY <1>5, <1>6
<1> HIDE DEF r
<1>8. Own(c) /\ caller'[c] = r
  BY <1>1, BecomeRow
<1>9. TypeInv'
  <2>1. caller'[c].pc \in {"read", "head", "begin", "decided"}
    BY <1>7, <1>8
  <2> QED
    BY <1>1, <1>7, <1>8, <2>1, UnmovedWorld, GoOnTypes
<1> QED
  BY <1>1, <1>4, <1>7, <1>8, <1>9

\* What is planned is a set of changes of records.
LEMMA StepsType ==
    ASSUME WorldOK, NEW k \in Keys
    PROVE  Steps(intent[k], repo.rec) \in SUBSET Changes
<1>1. intent[k].uri \in Uris /\ \A u \in Uris : repo.rec[u] \in Contents
  BY DEF WorldOK
<1>2. {"new", "absent"} \subseteq Contents
  BY DEF Contents
<1> QED
  BY <1>1, <1>2 DEF Steps, Changes, Matching

\* A look at the repository gives a decision or a plan.
LEMMA ObserveEffect ==
    ASSUME TypeInv, NEW c \in Callers, Observe(c)
    PROVE  LET was == caller[c]
               r == caller'[c]
               decision == Decision(Intent(c), was.local, repo.rec) IN
           /\ was.pc = "read" /\ Unmoved /\ wire' = wire /\ Own(c)
           /\ command' = command
           /\ r.key = was.key /\ r.gen = was.gen /\ r.local = was.local
           /\ \/ r.pc = "decided" /\ r.decision = decision
              \/ /\ decision = "dispatch" /\ r.steps = Steps(Intent(c), repo.rec)
                 /\ IF Bracketed(Intent(c)) THEN r.pc = "begin" /\ r.head = repo.head
                                          ELSE r.pc = "head"
           /\ TypeInv'
<1> DEFINE k == caller[c].key
           decision == Decision(Intent(c), caller[c].local, repo.rec)
           steps == Steps(Intent(c), repo.rec)
           pc == IF Bracketed(Intent(c)) THEN "begin" ELSE "head"
           head == IF Bracketed(Intent(c)) THEN repo.head ELSE 0
           decided == [caller[c] EXCEPT !.pc = "decided", !.decision = decision]
           planned == [caller[c] EXCEPT !.pc = pc, !.head = head, !.steps = steps]
           r == IF decision # "dispatch" THEN decided ELSE planned
<1>1. /\ Become(c, r) /\ caller[c].pc = "read" /\ Unmoved /\ wire' = wire
      /\ command' = command
  BY DEF Observe, Unmoved, Decide
<1>2. caller[c] \in Requesters /\ k \in Keys
  BY <1>1, AtWork
<1>3. /\ decision \in {"accept", "reject", "recover", "unresolved", "dispatch"}
      /\ steps \in SUBSET Changes
  BY <1>2, StepsType DEF TypeInv, Decision, Intent
<1>4. pc \in {"begin", "head"} /\ head \in Nat
  BY DEF TypeInv, WorldOK
<1>5. /\ r.key = k /\ r.gen = caller[c].gen /\ r.local = caller[c].local
      /\ r \in Requesters
      /\ \/ decision # "dispatch" /\ r.pc = "decided" /\ r.decision = decision
         \/ decision = "dispatch" /\ r.pc = pc /\ r.head = head /\ r.steps = steps
  <2> HIDE DEF k, decision, steps, pc, head
  <2>1. CASE decision # "dispatch"
    BY <1>2, <1>3, <2>1, ZenonT(60) DEF Requesters, k
  <2>2. CASE decision = "dispatch"
    <3>1. /\ planned \in Requesters /\ planned.key = k /\ planned.gen = caller[c].gen
          /\ planned.local = caller[c].local
      BY <1>2, <1>3, <1>4 DEF Requesters, k
    <3>2. planned.pc = pc /\ planned.head = head /\ planned.steps = steps
      BY <1>2 DEF Requesters
    <3> QED
      BY <2>2, <3>1, <3>2
  <2> QED
    BY <2>1, <2>2
<1> HIDE DEF r
<1>6. Own(c) /\ caller'[c] = r
  BY <1>1, BecomeRow
<1>7. TypeInv'
  <2>1. caller'[c].pc \in {"read", "head", "begin", "decided"}
    BY <1>4, <1>5, <1>6
  <2> QED
    BY <1>1, <1>5, <1>6, <2>1, UnmovedWorld, GoOnTypes
<1> QED
  BY <1>1, <1>5, <1>6, <1>7

\* The head is read after the record.
LEMMA ReadHeadEffect ==
    ASSUME TypeInv, NEW c \in Callers, ReadHead(c)
    PROVE  LET was == caller[c]
               r == caller'[c] IN
           /\ was.pc = "head" /\ Unmoved /\ wire' = wire /\ Own(c)
           /\ command' = command
           /\ r.key = was.key /\ r.gen = was.gen /\ r.local = was.local
           /\ r.pc = "begin" /\ r.head = repo.head /\ r.steps = was.steps
           /\ TypeInv'
<1> DEFINE r == [caller[c] EXCEPT !.pc = "begin", !.head = repo.head]
<1>1. /\ Become(c, r) /\ caller[c].pc = "head" /\ Unmoved /\ wire' = wire
      /\ command' = command
  BY DEF ReadHead, Unmoved
<1>2. /\ r.key = caller[c].key /\ r.gen = caller[c].gen /\ r.local = caller[c].local
      /\ r \in Requesters /\ r.pc = "begin" /\ r.head = repo.head
      /\ r.steps = caller[c].steps
  BY AtWork, ZenonT(60) DEF Requesters, TypeInv, WorldOK
<1> HIDE DEF r
<1>3. Own(c) /\ caller'[c] = r
  BY <1>1, BecomeRow
<1> QED
  BY <1>1, <1>2, <1>3, UnmovedWorld, GoOnTypes

\* Another record is written under a caller that reads: the head moves on.
LEMMA UnstableEffect ==
    ASSUME TypeInv, NEW c \in Callers, Unstable(c)
    PROVE  LET was == caller[c]
               r == caller'[c] IN
           /\ was.pc = "read" /\ UNCHANGED <<life, intent, landed, raced>>
           /\ repo' = [repo EXCEPT !.head = @ + 1] /\ wire' = wire /\ Own(c)
           /\ command' = command
           /\ r.key = was.key /\ r.gen = was.gen /\ r.local = was.local
           /\ \/ r.pc = "read"
              \/ r.pc = "decided" /\ r.decision \in {"reject", "unresolved"}
           /\ TypeInv'
<1> DEFINE again == [caller[c] EXCEPT !.try = @ + 1]
           over == [caller[c] EXCEPT !.pc = "decided", !.decision = "reject"]
           unsure == [caller[c] EXCEPT !.pc = "decided", !.decision = "unresolved"]
<1>1. /\ caller[c].pc = "read" /\ UNCHANGED <<life, intent, landed, raced>>
      /\ repo' = [repo EXCEPT !.head = @ + 1] /\ wire' = wire /\ command' = command
      /\ Become(c, again) \/ Become(c, over) \/ Become(c, unsure)
  BY DEF Unstable, Decide
<1>2. caller[c] \in Requesters
  BY AtWork
<1>3. ASSUME NEW r \in {again, over, unsure}
      PROVE  /\ r \in Requesters /\ r.key = caller[c].key /\ r.gen = caller[c].gen
             /\ r.local = caller[c].local
             /\ \/ r.pc = "read"
                \/ r.pc = "decided" /\ r.decision \in {"reject", "unresolved"}
  <2>1. CASE r = again
    <3>1. caller[c].try + 1 \in Nat
      BY <1>2 DEF Requesters
    <3> QED
      BY <1>1, <1>2, <2>1, <3>1 DEF Requesters
  <2>2. CASE r = over
    BY <1>2, <2>2 DEF Requesters
  <2>3. CASE r = unsure
    BY <1>2, <2>3 DEF Requesters
  <2> QED
    BY <2>1, <2>2, <2>3
<1>4. PICK r \in {again, over, unsure} : Become(c, r)
  BY <1>1
<1>5. Own(c) /\ caller'[c] = r
  BY <1>1, <1>4, BecomeRow
<1>6. WorldOK'
  BY <1>1 DEF TypeInv, WorldOK
<1>7. TypeInv'
  <2>1. caller'[c].pc \in {"read", "head", "begin", "decided"}
    BY <1>3, <1>5
  <2> HIDE DEF again, over, unsure
  <2> QED
    BY <1>1, <1>3, <1>5, <1>6, <2>1, GoOnTypes
<1> HIDE DEF again, over, unsure
<1> QED
  BY <1>1, <1>3, <1>5, <1>7

\* A dispatch is persisted before its request is on the wire; or the caller
\* may not begin, and nothing happens.
LEMMA BeginEffect ==
    ASSUME TypeInv, NEW c \in Callers, Begin(c)
    PROVE  LET was == caller[c]
               r == caller'[c]
               row == Row(c)
               new == command'[was.key] IN
           /\ was.pc = "begin" /\ Unmoved /\ Own(c)
           /\ TypeInv'
           /\ \/ command' = command /\ wire' = wire /\ r = Idle
              \/ /\ row.state \in Pending /\ new.state = "dispatching"
                 /\ new.gen = row.gen
                 /\ Len(new.dispatches) = Len(row.dispatches) + 1
                 /\ LastOutcome(new) = "dispatching"
                 /\ \E w \in Requests :
                       /\ wire' = wire \cup {w} /\ w.key = was.key
                       /\ w.head = was.head /\ w.steps = was.steps
                       /\ w.caller = c /\ w.dispatch = r.dispatch
                 /\ r.pc = "sent" /\ r.key = was.key /\ r.gen = was.gen
                 /\ r.local = was.local
<1> DEFINE version == caller[c].plan + caller[c].try
           ordinal == Len(Row(c).dispatches) + 1
           w == [key |-> caller[c].key, dispatch |-> ordinal, head |-> caller[c].head,
                 steps |-> caller[c].steps, caller |-> c]
           new == Begun(Row(c), version)
           r == [caller[c] EXCEPT !.pc = "sent", !.dispatch = ordinal, !.head = 0,
                                  !.steps = {}]
<1>1. caller[c].pc = "begin" /\ Unmoved
  BY DEF Begin, Unmoved
<1>2. /\ caller[c] \in Requesters /\ RequesterOK(caller[c], command)
      /\ caller[c].key \in Keys /\ RowOK(Row(c)) /\ Known(Row(c))
  BY <1>1, AtWork
<1>3. version \in Nat /\ ordinal \in Nat
  <2>1. Len(Row(c).dispatches) \in Nat
    BY <1>2, LenProperties DEF RowOK, Rows
  <2> QED
    BY <1>2, <2>1 DEF Requesters
<1>4. WorldOK'
  BY <1>1, UnmovedWorld
<1>5. CASE CanBegin(Row(c), version)
  <2>1. Store(c, new) /\ Become(c, r) /\ wire' = wire \cup {w}
    BY <1>5 DEF Begin
  <2>2. /\ RowOK(new) /\ Kept(Row(c), new) /\ ordinal \in DOMAIN new.dispatches
        /\ new.gen = Row(c).gen /\ new.state = "dispatching"
        /\ Row(c).state \in Pending /\ LastOutcome(new) = "dispatching"
        /\ Len(new.dispatches) = Len(Row(c).dispatches) + 1
    <3> HIDE DEF version
    <3> QED
      BY <1>2, <1>3, <1>5, BegunRow, BegunKeeps
  <2> HIDE DEF new
  <2>3. /\ r \in Requesters /\ r.pc = "sent" /\ r.key = caller[c].key
        /\ r.gen = caller[c].gen /\ r.local = caller[c].local /\ r.dispatch = ordinal
    <3> HIDE DEF ordinal
    <3> QED
      BY <1>2, <1>3 DEF Requesters
  <2>4. /\ w \in Requests /\ w.key = caller[c].key /\ w.head = caller[c].head
        /\ w.steps = caller[c].steps /\ w.caller = c /\ w.dispatch = ordinal
    <3> HIDE DEF ordinal
    <3> QED
      BY <1>2, <1>3 DEF Requesters, Requests
  <2> HIDE DEF r, w
  <2>5. Own(c) /\ command'[caller[c].key] = new /\ caller'[c] = r
    BY <1>1, <2>1, StoreRow
  <2>6. RequesterOK(r, command') /\ RequestOK(w, command')
    <3> HIDE DEF ordinal
    <3>1. Known(new) /\ r.key # Nobody
      BY <1>2, <2>2, <2>3, CommandConstants DEF Kept
    <3> QED
      BY <1>2, <2>2, <2>3, <2>4, <2>5, <3>1 DEF RequesterOK, RequestOK, Row
  <2>7. TypeInv'
    <3>1. \A v \in wire' : RequestOK(v, command) \/ RequestOK(v, command')
      BY <2>1, <2>6 DEF TypeInv
    <3> QED
      BY <1>1, <1>2, <1>4, <2>2, <2>5, <2>6, <3>1, CallerTypes DEF Own, Row
  <2> HIDE DEF ordinal
  <2> QED
    BY <1>1, <2>1, <2>2, <2>3, <2>4, <2>5, <2>7
<1>6. CASE ~CanBegin(Row(c), version)
  <2>1. command' = command /\ wire' = wire /\ Become(c, Idle)
    BY <1>6 DEF Begin
  <2>2. Own(c) /\ command'[caller[c].key] = Row(c) /\ caller'[c] = Idle
    BY <1>1, <2>1, BecomeRow
  <2>3. Moved(Row(c), Row(c))
    BY <1>2, SameRow
  <2> QED
    BY <1>1, <1>4, <2>1, <2>2, <2>3, LeaveTypes
<1> QED
  BY <1>5, <1>6

\* What the PDS does with a request.
LEMMA ServeEffect ==
    ASSUME TypeInv, NEW w \in wire,
           NEW answer \in {"ok", "invalid_swap", "rejected", "rate_limited"},
           Serve(w, answer),
           w.caller # Nobody => caller[w.caller].pc = "sent"
    PROVE  /\ w \in Requests /\ w.key \in Keys /\ Known(command[w.key])
           /\ UNCHANGED <<life, intent, command, raced>> /\ wire' = wire \ {w}
           /\ \/ answer # "ok" /\ repo' = repo /\ landed' = landed
              \/ /\ answer = "ok" /\ w.head = repo.head
                 /\ \A s \in w.steps : repo.rec[s.uri] = s.expect
                 /\ repo'.head = repo.head + 1
                 /\ landed' = [landed EXCEPT ![w.key] = @ + 1]
           /\ \/ w.caller = Nobody /\ caller' = caller
              \/ /\ w.caller \in Callers
                 /\ caller' = [caller EXCEPT ![w.caller] = caller'[w.caller]]
                 /\ caller'[w.caller].pc = "replied"
                 /\ caller'[w.caller].reply = answer
                 /\ caller'[w.caller].key = caller[w.caller].key
                 /\ caller'[w.caller].gen = caller[w.caller].gen
                 /\ caller'[w.caller].local = caller[w.caller].local
           /\ TypeInv'
<1>1. /\ answer \in {Answer(w), "rejected", "rate_limited"}
      /\ UNCHANGED <<life, intent, command, raced>> /\ wire' = wire \ {w}
  BY DEF Serve
<1>2. RequestOK(w, command) /\ w \in Requests /\ w.key \in Keys /\ Known(command[w.key])
  BY DEF TypeInv, RequestOK, Requests
<1> DEFINE written == [u \in Uris |->
                          IF \E s \in w.steps : s.uri = u
                          THEN (CHOOSE s \in w.steps : s.uri = u).body ELSE repo.rec[u]]
<1>3. \/ answer # "ok" /\ repo' = repo /\ landed' = landed
      \/ /\ answer = "ok" /\ w.head = repo.head
         /\ \A s \in w.steps : repo.rec[s.uri] = s.expect
         /\ repo' = [head |-> repo.head + 1, rec |-> written]
         /\ landed' = [landed EXCEPT ![w.key] = @ + 1]
  <2>1. answer = "ok" => w.head = repo.head /\ \A s \in w.steps : repo.rec[s.uri] = s.expect
    BY <1>1 DEF Answer
  <2> QED
    BY <2>1 DEF Serve
<1>4. WorldOK'
  <2>1. written \in [Uris -> Contents]
    <3>1. ASSUME NEW u \in Uris PROVE written[u] \in Contents
      <4>1. CASE \E s \in w.steps : s.uri = u
        <5>1. (CHOOSE s \in w.steps : s.uri = u) \in Changes
          BY <1>2, <4>1 DEF Requests
        <5> QED
          BY <4>1, <5>1 DEF Changes
      <4>2. CASE ~\E s \in w.steps : s.uri = u
        BY <4>2 DEF TypeInv, WorldOK
      <4> QED
        BY <4>1, <4>2
    <3> QED
      BY <3>1
  <2> HIDE DEF written
  <2> QED
    BY <1>1, <1>2, <1>3, <2>1 DEF TypeInv, WorldOK
<1> HIDE DEF written
<1>5. CASE w.caller = Nobody
  <2>1. caller' = caller
    BY <1>5 DEF Serve
  <2>2. TypeInv'
    BY <1>1, <1>4, <2>1 DEF TypeInv
  <2> QED
    BY <1>1, <1>2, <1>3, <1>5, <2>1, <2>2
<1>6. CASE w.caller # Nobody
  <2> DEFINE c == w.caller
             r == [caller[c] EXCEPT !.pc = "replied", !.reply = answer]
  <2>1. c \in Callers /\ caller[c].pc = "sent"
    BY <1>2, <1>6 DEF Requests
  <2>2. Become(c, r)
    BY <1>6 DEF Serve
  <2>3. RequesterOK(caller[c], command) /\ caller[c] \in Requesters
    BY <2>1, AtWork
  <2>4. /\ r.pc = "replied" /\ r.reply = answer /\ r.key = caller[c].key
        /\ r.gen = caller[c].gen /\ r.local = caller[c].local
        /\ r.dispatch = caller[c].dispatch /\ r \in Requesters
    BY <2>3 DEF Requesters
  <2>5. RequesterOK(r, command)
    BY <2>1, <2>3, <2>4 DEF RequesterOK
  <2> HIDE DEF r
  <2>6. caller'[c] = r /\ caller' = [caller EXCEPT ![c] = r]
    BY <2>1, <2>2 DEF Become, TypeInv
  <2>7. TypeInv'
    BY <1>1, <1>4, <2>1, <2>4, <2>5, <2>6 DEF TypeInv
  <2> QED
    BY <1>1, <1>2, <1>3, <1>6, <2>1, <2>4, <2>6, <2>7
<1> QED
  BY <1>5, <1>6

\* What is recorded of a dispatch: the row takes the outcome; the caller looks
\* again after a lost head swap, or is done.
LEMMA FinishEffect ==
    ASSUME TypeInv, NEW c \in Callers, caller[c].pc \in {"sent", "replied"},
           NEW outcome \in Outcomes \ {"dispatching"}, Finish(c, outcome),
           wire' = wire \/ wire' = Abandoned(c)
    PROVE  LET was == caller[c]
               r == caller'[c]
               new == command'[was.key] IN
           /\ Unmoved /\ Own(c)
           /\ Moved(Row(c), new) /\ Gives(Row(c), new, outcome)
           /\ \/ r = Idle
              \/ /\ outcome = "invalid_swap" /\ r.pc = "read" /\ r.key = was.key
                 /\ r.gen = was.gen /\ r.local = was.local
           /\ TypeInv'
<1> DEFINE settled == Settle(Row(c), caller[c].dispatch, outcome)
           plan == IF Kind(c) \in {"like", "unlike"} THEN caller[c].plan
                                                     ELSE caller[c].plan + 1
           again == [caller[c] EXCEPT !.pc = "read", !.try = @ + 1, !.dispatch = 0,
                                      !.reply = "none", !.plan = plan]
           r == IF outcome = "invalid_swap" /\ settled # Row(c) THEN again ELSE Idle
<1>1. Store(c, settled) /\ Become(c, r) /\ Unmoved
  BY DEF Finish, Unmoved
<1>2. /\ caller[c] \in Requesters /\ RequesterOK(caller[c], command)
      /\ caller[c].key \in Keys /\ RowOK(Row(c)) /\ Known(Row(c))
      /\ caller[c].dispatch \in DOMAIN Row(c).dispatches
  BY AtWork DEF RequesterOK, Row
<1>3. Moved(Row(c), settled) /\ Gives(Row(c), settled, outcome)
  BY <1>2, SettledRow
<1>4. RowOK(settled) /\ Kept(Row(c), settled)
  BY <1>2, <1>3, MovedKeeps
<1> HIDE DEF settled
<1>5. /\ again \in Requesters /\ again.pc = "read" /\ again.key = caller[c].key
      /\ again.gen = caller[c].gen /\ again.local = caller[c].local
  <2>1. plan \in Nat /\ caller[c].try + 1 \in Nat
    BY <1>2 DEF Requesters
  <2> HIDE DEF plan
  <2> QED
    BY <1>2, <2>1 DEF Requesters
<1> HIDE DEF again
<1>6. \/ r = Idle
      \/ /\ outcome = "invalid_swap" /\ r.pc = "read" /\ r.key = caller[c].key
         /\ r.gen = caller[c].gen /\ r.local = caller[c].local /\ r \in Requesters
  BY <1>5
<1> HIDE DEF r
<1>7. Own(c) /\ command'[caller[c].key] = settled /\ caller'[c] = r
  BY <1>1, StoreRow
<1>8. RequesterOK(r, command')
  <2>1. CASE r = Idle
    BY <2>1, IdleOK
  <2>2. CASE r # Idle
    BY <1>2, <1>4, <1>6, <1>7, <2>2 DEF RequesterOK, Kept, Row
  <2> QED
    BY <2>1, <2>2
<1>9. TypeInv'
  <2>1. \A w \in wire' : RequestOK(w, command)
    BY AbandonedOK DEF TypeInv
  <2> QED
    BY <1>1, <1>2, <1>4, <1>7, <1>8, <2>1, UnmovedWorld, CallerTypes DEF Own, Row
<1> QED
  BY <1>1, <1>3, <1>6, <1>7, <1>9

\* What an answer can do to the row and to the caller.
LEMMA ReceiveEffect ==
    ASSUME TypeInv, NEW c \in Callers, Receive(c)
    PROVE  LET was == caller[c]
               r == caller'[c]
               new == command'[was.key] IN
           /\ was.pc = "replied" /\ Unmoved /\ wire' = wire /\ Own(c)
           /\ Moved(Row(c), new) /\ Gives(Row(c), new, Outcome(c))
           /\ Outcome(c) = "accepted" => was.reply = "ok"
           /\ Outcome(c) \in Definite \cup {"rejected"} => was.reply # "ok"
           /\ \/ r = Idle
              \/ /\ was.reply # "ok" /\ r.pc = "read" /\ r.key = was.key
                 /\ r.gen = was.gen /\ r.local = was.local
           /\ TypeInv'
<1>1. caller[c].pc = "replied" /\ Finish(c, Outcome(c)) /\ wire' = wire
  BY DEF Receive
<1>2. /\ caller[c].reply \in {"ok", "invalid_swap", "rejected", "rate_limited"}
  BY <1>1, AtWork DEF RequesterOK, Requesters
<1>3. /\ Outcome(c) \in Outcomes \ {"dispatching"}
      /\ Outcome(c) = "accepted" => caller[c].reply = "ok"
      /\ Outcome(c) \in Definite \cup {"rejected"} => caller[c].reply # "ok"
  BY <1>2 DEF Outcome, Outcomes, Definite
<1> QED
  BY <1>1, <1>3, FinishEffect DEF Definite

\* What a timeout can do to them.
LEMMA TimeOutEffect ==
    ASSUME TypeInv, NEW c \in Callers, TimeOut(c)
    PROVE  LET was == caller[c]
               new == command'[was.key] IN
           /\ was.pc \in {"sent", "replied"} /\ Unmoved /\ wire' = Abandoned(c) /\ Own(c)
           /\ Moved(Row(c), new) /\ Gives(Row(c), new, "ambiguous")
           /\ caller'[c] = Idle
           /\ TypeInv'
<1>1. caller[c].pc \in {"sent", "replied"} /\ Finish(c, "ambiguous") /\ wire' = Abandoned(c)
  BY DEF TimeOut
<1>2. "ambiguous" \in Outcomes \ {"dispatching"}
  BY DEF Outcomes
<1> QED
  BY <1>1, <1>2, FinishEffect

\* The first request with a key opens its command, a later one takes it up.
LEMMA PrepareEffect ==
    ASSUME TypeInv, NEW c \in Callers, NEW k \in Keys, Prepare(c, k)
    PROVE  LET r == caller'[c]
               new == command'[k] IN
           /\ caller[c].pc = "idle" /\ caller[c].key = Nobody
           /\ UNCHANGED <<life, intent, repo, landed>> /\ wire' = wire
           /\ raced' = [raced EXCEPT ![k] = raced[k] \/ \E d \in Callers : caller[d].key = k]
           /\ command' = [command EXCEPT ![k] = new]
           /\ caller' = [caller EXCEPT ![c] = r]
           /\ \/ /\ command[k] = NoCommand /\ new.state = "prepared"
                 /\ new.dispatches = <<>>
              \/ new = command[k] /\ command[k].state \in Pending
           /\ r.pc = "prepared" /\ r.key = k /\ r.local = new.state
           /\ TypeInv'
<1> DEFINE fresh == [NoCommand EXCEPT !.state = "prepared", !.gen = life.gen]
           row == IF command[k] = NoCommand THEN fresh ELSE command[k]
           r == [Idle EXCEPT !.pc = "prepared", !.key = k, !.gen = row.gen,
                             !.local = row.state, !.plan = row.plan]
<1>1. /\ caller[c].pc = "idle" /\ UNCHANGED <<life, intent, repo, landed>> /\ wire' = wire
      /\ raced' = [raced EXCEPT ![k] = raced[k] \/ \E d \in Callers : caller[d].key = k]
      /\ command' = [command EXCEPT ![k] = row] /\ Become(c, r)
      /\ command[k].state \notin Verdicts \cup {"spent"}
  BY DEF Prepare
<1>2. RowOK(command[k]) /\ RequesterOK(caller[c], command)
  BY DEF TypeInv
<1>3. /\ fresh \in Rows /\ fresh.state = "prepared" /\ fresh.dispatches = <<>>
  <2>1. life.gen \in Nat
    BY DEF TypeInv, WorldOK
  <2>2. <<>> \in Seq([plan : Nat, outcome : Outcomes])
    OBVIOUS
  <2> QED
    BY <2>1, <2>2 DEF NoCommand, Rows, Pending
<1>4. \/ /\ command[k] = NoCommand /\ row = fresh
      \/ row = command[k] /\ command[k].state \in Pending
  BY <1>1, <1>2 DEF RowOK, Rows, Pending, Verdicts
<1> HIDE DEF fresh, row
<1>5. row \in Rows /\ RowOK(row) /\ row.state \in Pending /\ Known(row)
  BY <1>2, <1>3, <1>4 DEF RowOK, Pending, Known
<1>6. Kept(command[k], row)
  BY <1>4, <1>5 DEF Kept, Known, NoCommand
<1>7. /\ r \in Requesters /\ r.pc = "prepared" /\ r.key = k /\ r.local = row.state
      /\ r.gen = row.gen
  <2>1. /\ Idle \in Requesters
    BY DEF Idle, Requesters, Pending
  <2>2. row.gen \in Nat /\ row.plan \in Nat /\ row.state \in {"none"} \cup Pending
    BY <1>5 DEF Rows
  <2> QED
    BY <2>1, <2>2 DEF Requesters
<1> HIDE DEF r
<1>8. /\ command'[k] = row /\ caller'[c] = r /\ caller' = [caller EXCEPT ![c] = r]
      /\ command' \in [Keys -> Rows] /\ caller' \in [Callers -> Requesters]
      /\ \A j \in Keys : j # k => command'[j] = command[j]
      /\ \A d \in Callers : d # c => caller'[d] = caller[d]
  BY <1>1, <1>5, <1>7 DEF TypeInv, Become
<1>9. WorldOK'
  BY <1>1 DEF TypeInv, WorldOK
<1>10. TypeInv'
  <2>1. RequesterOK(r, command')
    <3>1. r.key # Nobody
      BY <1>7, CommandConstants
    <3> QED
      BY <1>5, <1>7, <1>8, <3>1 DEF RequesterOK
  <2>2. \A j \in Keys : RowOK(command'[j]) /\ Kept(command[j], command'[j])
    BY <1>5, <1>6, <1>8 DEF TypeInv, Kept
  <2>3. \A w \in wire' : RequestOK(w, command)
    BY <1>1 DEF TypeInv
  <2> QED
    BY <1>8, <1>9, <2>1, <2>2, <2>3, StepTypes
<1>11. caller[c].key = Nobody
  BY <1>1, <1>2 DEF RequesterOK
<1> QED
  BY <1>1, <1>3, <1>4, <1>7, <1>8, <1>10, <1>11

\* Lose keeps TypeInv.
LEMMA LoseTypes ==
    ASSUME TypeInv, NEW w \in wire, Lose(w)
    PROVE  TypeInv'
<1>1. Unmoved /\ command' = command /\ caller' = caller /\ wire' \subseteq wire
  BY DEF Lose, Unmoved
<1> QED
  BY <1>1, UnmovedWorld DEF TypeInv

\* A command is spent only when nobody refers to it.
LEMMA CompactEffect ==
    ASSUME TypeInv, NEW k \in Keys, Compact(k)
    PROVE  /\ Unmoved /\ wire' = wire /\ caller' = caller
           /\ command' = [command EXCEPT ![k] = Spent]
           /\ command[k].state \in Verdicts
           /\ Spent.state = "spent" /\ Spent.dispatches = <<>>
           /\ \A w \in wire : w.key # k
           /\ \A c \in Callers : caller[c].key # k
           /\ TypeInv'
<1>1. /\ Unmoved /\ wire' = wire /\ caller' = caller
      /\ command' = [command EXCEPT ![k] = Spent]
      /\ command[k].state \in Verdicts
      /\ \A w \in wire : w.key # k
      /\ \A c \in Callers : caller[c].key # k
  BY DEF Compact, Unmoved
<1>2. RowOK(Spent) /\ Spent \in Rows /\ Spent.state = "spent" /\ Spent.dispatches = <<>>
  <2>1. <<>> \in Seq([plan : Nat, outcome : Outcomes])
    OBVIOUS
  <2> QED
    BY <2>1 DEF Spent, NoCommand, RowOK, Rows
<1>3. command' \in [Keys -> Rows] /\ \A j \in Keys : RowOK(command'[j])
  BY <1>1, <1>2 DEF TypeInv
<1>4. ASSUME NEW w \in wire PROVE RequestOK(w, command')
  BY <1>1 DEF TypeInv, RequestOK, Requests
<1>5. ASSUME NEW c \in Callers PROVE RequesterOK(caller[c], command')
  <2>1. RequesterOK(caller[c], command)
    BY DEF TypeInv
  <2>2. caller[c].pc # "idle" => caller[c].key \in Keys /\ caller[c].key # k
    BY <1>1, AtWork
  <2>3. caller[c].pc # "idle" => command'[caller[c].key] = command[caller[c].key]
    BY <1>1, <2>2 DEF TypeInv
  <2> QED
    BY <2>1, <2>3 DEF RequesterOK
<1> QED
  BY <1>1, <1>2, <1>3, <1>4, <1>5, UnmovedWorld DEF TypeInv

\* Move keeps TypeInv.
LEMMA MoveTypes ==
    ASSUME TypeInv, NEW to \in States, Move(to)
    PROVE  TypeInv'
<1>1. /\ life.gen < MaxGen /\ life' = [state |-> to, gen |-> life.gen + 1]
      /\ UNCHANGED <<intent, repo, command, wire, caller, landed, raced>>
  BY DEF Move
<1>2. life' \in [state : States, gen : 1..MaxGen]
  BY <1>1, CommandConstants DEF TypeInv, WorldOK
<1> QED
  BY <1>1, <1>2 DEF TypeInv, WorldOK

\* A write of another client moves the head on.
LEMMA ElsewhereEffect ==
    ASSUME TypeInv, NEW u \in Uris, NEW content \in Contents, Elsewhere(u, content)
    PROVE  /\ UNCHANGED <<life, intent, command, wire, caller, landed, raced>>
           /\ repo'.head = repo.head + 1
           /\ TypeInv'
<1>1. /\ UNCHANGED <<life, intent, command, wire, caller, landed, raced>>
      /\ repo' = [head |-> repo.head + 1, rec |-> [repo.rec EXCEPT ![u] = content]]
  BY DEF Elsewhere
<1>2. repo' \in [head : Nat, rec : [Uris -> Contents]] /\ repo'.head = repo.head + 1
  BY <1>1 DEF TypeInv, WorldOK
<1> QED
  BY <1>1, <1>2 DEF TypeInv, WorldOK

\* TypeInv holds at the start.
LEMMA InitTypes == ASSUME Init PROVE TypeInv
<1>1. WorldOK
  <2>1. PICK s \in Scenarios : intent = s.intent /\ repo = [head |-> 0, rec |-> s.rec]
    BY DEF Init
  <2>2. s.intent \in [Keys -> [kind : Kinds, uri : Uris]] /\ s.rec \in [Uris -> Contents]
    BY CommandConstants
  <2>3. life \in [state : States, gen : 1..MaxGen]
    BY CommandConstants DEF Init, States
  <2> QED
    BY <2>1, <2>2, <2>3 DEF Init, WorldOK
<1>2. NoCommand \in Rows /\ RowOK(NoCommand)
  <2>1. <<>> \in Seq([plan : Nat, outcome : Outcomes])
    OBVIOUS
  <2> QED
    BY <2>1 DEF NoCommand, RowOK, Rows
<1>3. Idle \in Requesters
  BY IdleOK DEF RequesterOK
<1> QED
  BY <1>1, <1>2, <1>3, IdleOK DEF Init, TypeInv
=============================================================================
