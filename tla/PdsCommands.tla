---------------------------- MODULE PdsCommands ----------------------------
(***************************************************************************)
(* The durable command plane: a member's write to their own PDS            *)
(* (appview/internal/pdscommands).  A request carries an operation key.    *)
(* The first one with a key inserts a command; every later one replays it. *)
(* Under the owner's shared fence and its session's fence a request reads  *)
(* the record and the repository head, persists a dispatch, sends the      *)
(* write bound to that head, and records what became of it.  The PDS, the  *)
(* owner's other clients and the network are external: a request may be    *)
(* lost, may be answered late or may land after its caller is gone.        *)
(*                                                                         *)
(* One owner.  A record is one of four contents, and its CID is its        *)
(* content.  A key asks for one change of one record:                      *)
(*   append    create a record of a fresh name                             *)
(*   edit      replace base by new, on the version the editor saw          *)
(*   put       the same without the strict version check                   *)
(*   delete    delete base                                                 *)
(*   like      have one matching record in the collection                  *)
(*   unlike    have none                                                   *)
(*   compound  set the record, whatever it is                              *)
(***************************************************************************)
EXTENDS OwnerStates, Integers, Sequences, FiniteSets

CONSTANTS
    Keys,          \* operation keys
    Uris,          \* records
    Callers,       \* requests being served
    Nobody,        \* the caller of a request whose caller is gone
    Scenarios,     \* what the keys ask for, how many requests come with each
                   \* and how many writes of others, the session of each
                   \* caller, the first records
    Moves,         \* lifecycle transitions of the owner
    MaxGen,        \* bound: generation after which the owner moves no more
    MaxDispatches  \* bound: dispatches of one command

Kinds == {"append", "edit", "put", "delete", "like", "unlike", "compound"}
Contents == {"absent", "base", "new", "other"}

ASSUME CommandConstants ==
    /\ Scenarios \subseteq [intent : [Keys -> [kind : Kinds, uri : Uris]],
                             requests : [Keys -> Nat], others : Nat,
                             session : [Callers -> STRING],
                             rec : [Uris -> Contents]]
    /\ Moves \subseteq ValidTransitions
    /\ Nobody \notin Callers \cup Keys
    /\ MaxGen \in Nat \ {0} /\ MaxDispatches \in Nat

VARIABLES
    due,      \* bound: the requests with each key, and the writes of others,
              \* that are still to come
    life,     \* owner_lifecycles: state and generation
    intent,   \* what each key asks for; never changes
    session,  \* the parent session of each caller; never changes
    repo,     \* the repository: its head and its records
    command,  \* pds_commands, with pds_command_dispatches and tombstones
    wire,     \* write requests the PDS has not processed
    caller,   \* per caller, the request it serves
    landed,   \* history: how often a key's write took effect
    raced     \* history: whether two callers served a key at once

vars == <<due, life, intent, session, repo, command, wire, caller, landed, raced>>

Definite == {"invalid_swap", "rate_limited"}
Outcomes == {"dispatching", "accepted", "ambiguous", "rejected"} \cup Definite
Verdicts == {"accepted", "rejected"}

NoCommand == [state |-> "none", gen |-> 0, plan |-> 0, dispatches |-> <<>>]
Spent == [NoCommand EXCEPT !.state = "spent"]
Idle == [pc |-> "idle", key |-> Nobody, gen |-> 0, local |-> "none", plan |-> 0,
         try |-> 0, decision |-> "none", head |-> 0, steps |-> {}, dispatch |-> 0,
         reply |-> "none"]

----------------------------------------------------------------------------
(* The rows of a command.                                                  *)

CanTransition(from, to) ==
    \/ from = "prepared" /\ to \in {"dispatching"} \cup Verdicts
    \/ from = "dispatching" /\ to \in {"ambiguous"} \cup Verdicts
    \/ from = "ambiguous" /\ to \in {"dispatching"} \cup Verdicts

LastOutcome(row) == row.dispatches[Len(row.dispatches)].outcome
Swaps(row) ==
    Cardinality({i \in DOMAIN row.dispatches :
                    row.dispatches[i].outcome = "invalid_swap"})

\* BeginDispatch's guard.  A rate limit's waiting time is abstracted.
CanBegin(row, version) ==
    /\ version >= row.plan
    /\ \/ CanTransition(row.state, "dispatching")
       \/ /\ row.state = "dispatching"
          /\ version > row.plan
          /\ LastOutcome(row) \in Definite

\* A wrong version: the dispatch is not persisted before it is sent.
BegunUnrecorded(row, version) == [row EXCEPT !.state = "dispatching", !.plan = version]

Begun(row, version) ==
    [row EXCEPT !.state = "dispatching", !.plan = version,
                !.dispatches = Append(@, [plan |-> version,
                                          outcome |-> "dispatching"])]

\* completeDispatchTx's guard, and the row it leaves together with
\* completeCommandTx when the outcome is a verdict.
CanComplete(row, i, outcome) ==
    LET was == row.dispatches[i].outcome IN
    /\ IF outcome \in Definite THEN row.state = "dispatching"
                               ELSE CanTransition(row.state, outcome)
    /\ \/ was = "dispatching"
       \/ was = "ambiguous" /\ row.state = "ambiguous" /\ outcome = "accepted"

Completed(row, i, outcome) ==
    [row EXCEPT !.state = IF outcome \in Definite THEN @ ELSE outcome,
                !.dispatches[i].outcome = outcome]

Settle(row, i, outcome) ==
    IF CanComplete(row, i, outcome) THEN Completed(row, i, outcome) ELSE row

\* A wrong version: a verdict is given again.
ConcludedAgain(row, verdict) ==
    IF row.state = "prepared" THEN row ELSE [row EXCEPT !.state = verdict]

\* completeCommandTx on its own; an illegal transition leaves the row.
Concluded(row, verdict) ==
    IF CanTransition(row.state, verdict) THEN [row EXCEPT !.state = verdict]
                                         ELSE row

\* MarkOpenDispatchAmbiguous.
MarkedAmbiguous(row) ==
    LET open == {i \in DOMAIN row.dispatches :
                    row.dispatches[i].outcome = "dispatching"} IN
    IF open # {}
    THEN Settle(row, CHOOSE i \in open : \A j \in open : j <= i, "ambiguous")
    ELSE IF row.state = "dispatching" /\ LastOutcome(row) = "invalid_swap"
         THEN [row EXCEPT !.state = "ambiguous"]
         ELSE row

\* completeAddressedRecovery: the latest dispatch of the plan the caller knows.
Recovered(row, plan) ==
    LET known == {i \in DOMAIN row.dispatches : row.dispatches[i].plan = plan} IN
    IF known = {} THEN row
    ELSE Settle(row, CHOOSE i \in known : \A j \in known : j <= i, "accepted")

----------------------------------------------------------------------------
(* What a request makes of the records it reads, given what it asks for.   *)

Matching(rec) == {u \in Uris : rec[u] = "new"}

Satisfied(ask, rec) ==
    CASE ask.kind = "delete" -> rec[ask.uri] = "absent"
      [] ask.kind = "unlike" -> Matching(rec) = {}
      [] OTHER -> rec[ask.uri] = "new"

\* The state of the record that the write may replace.
Expected(ask, rec) ==
    CASE ask.kind \in {"append", "like"} -> rec[ask.uri] = "absent"
      [] ask.kind \in {"edit", "put", "delete"} -> rec[ask.uri] = "base"
      [] OTHER -> TRUE

Steps(ask, rec) ==
    IF ask.kind = "unlike"
    THEN {[uri |-> u, expect |-> "new", body |-> "absent"] : u \in Matching(rec)}
    ELSE {[uri |-> ask.uri, expect |-> rec[ask.uri],
           body |-> IF ask.kind = "delete" THEN "absent" ELSE "new"]}

\* A wrong version: a write that may have landed is planned again.
DecisionPlansAgain(ask, local, rec) ==
    IF Satisfied(ask, rec) THEN "accept"
    ELSE IF ~Expected(ask, rec) THEN "reject" ELSE "dispatch"

\* The services' reading of the record, given what the command was when the
\* request took it up: "prepared" stands for a request that may plan a write.
Decision(ask, local, rec) ==
    IF ask.kind # "edit" /\ Satisfied(ask, rec) THEN "accept"
    ELSE IF ask.kind = "unlike"
         THEN IF local = "dispatching" THEN "unresolved" ELSE "dispatch"
    ELSE IF local # "prepared"
         THEN IF Satisfied(ask, rec) THEN "recover" ELSE "unresolved"
    ELSE IF ~Expected(ask, rec) THEN "reject"
    ELSE IF ask.kind = "like" /\ Matching(rec) # {} THEN "accept" ELSE "dispatch"

\* A wrong version: the head of a like is read after its collection.
BracketedButLikes(ask) == ask.kind \in {"unlike", "compound"}

\* The collection of a set, and the records of a compound, are read between
\* two equal heads; the others read one record, and the head after it.
Bracketed(ask) == ask.kind \in {"like", "unlike", "compound"}

----------------------------------------------------------------------------
(* Callers.                                                                *)

\* A wrong version: the fence is let go while the PDS is asked.
FencedLocally(c) == caller[c].pc \notin {"idle", "prepared", "begin", "sent", "replied"}

Fenced(c) == caller[c].pc \notin {"idle", "prepared"}
Row(c) == command[caller[c].key]
Intent(c) == intent[caller[c].key]
Kind(c) == Intent(c).kind

Store(c, row) == command' = [command EXCEPT ![caller[c].key] = row]
Become(c, state) == caller' = [caller EXCEPT ![c] = state]
Decide(c, decision) ==
    Become(c, [caller[c] EXCEPT !.pc = "decided", !.decision = decision])

Init ==
    /\ life = [state |-> "active", gen |-> 1]
    /\ \E s \in Scenarios :
          /\ intent = s.intent
          /\ due = [requests |-> s.requests, others |-> s.others] /\ session = s.session
          /\ repo = [head |-> 0, rec |-> s.rec]
    /\ command = [k \in Keys |-> NoCommand]
    /\ wire = {}
    /\ caller = [c \in Callers |-> Idle]
    /\ landed = [k \in Keys |-> 0]
    /\ raced = [k \in Keys |-> FALSE]

\* PrepareOrReplay under the owner's shared fence.  A request whose owner is
\* not active, whose generation is not the command's, or whose command has its
\* verdict or is spent, is answered at once and changes nothing.
Prepare(c, k) ==
    /\ caller[c].pc = "idle"
    /\ due.requests[k] > 0
    /\ due' = [due EXCEPT !.requests[k] = @ - 1]
    /\ life.state = "active"
    /\ command[k].state \notin Verdicts \cup {"spent"}
    /\ command[k].gen \in {0, life.gen}
    /\ LET row == IF command[k] = NoCommand
                  THEN [NoCommand EXCEPT !.state = "prepared", !.gen = life.gen]
                  ELSE command[k] IN
       /\ command' = [command EXCEPT ![k] = row]
       /\ Become(c, [Idle EXCEPT !.pc = "prepared", !.key = k, !.gen = row.gen,
                                 !.local = row.state, !.plan = row.plan])
    /\ raced' = [raced EXCEPT ![k] = @ \/ \E d \in Callers : caller[d].key = k]
    /\ UNCHANGED <<life, intent, session, repo, wire, landed>>

\* The lifecycle is read again before the fences: an owner who left since then
\* rejects the command; an append fails without a verdict.
Refuse(c) ==
    /\ caller[c].pc = "prepared"
    /\ life # [state |-> "active", gen |-> caller[c].gen]
    /\ Store(c, IF Kind(c) = "append" THEN Row(c) ELSE Concluded(Row(c), "rejected"))
    /\ Become(c, Idle)
    /\ UNCHANGED <<due, life, intent, session, repo, wire, landed, raced>>

\* WithActiveEffectSessionAuth, then ResumeKnownInvalidSwap: after a definite
\* refusal the request may plan again, three times in all.
Enter(c) ==
    /\ caller[c].pc = "prepared"
    /\ life = [state |-> "active", gen |-> caller[c].gen]
    /\ \A d \in Callers : Fenced(d) => session[d] # session[c]
    /\ LET refused == /\ caller[c].local # "prepared"
                      /\ Row(c).dispatches # <<>>
                      /\ LastOutcome(Row(c)) \in Definite
           next == [caller[c] EXCEPT
                      !.pc = "read",
                      !.local = IF refused THEN "prepared" ELSE @,
                      !.try = IF refused THEN Swaps(Row(c)) + 1 ELSE 1] IN
       Become(c, IF next.try <= 3 THEN next
                 ELSE [next EXCEPT !.pc = "decided", !.decision = "reject"])
    /\ UNCHANGED <<due, life, intent, session, repo, command, wire, landed, raced>>

\* One look at the repository, and what it means.
Observe(c) ==
    /\ caller[c].pc = "read"
    /\ LET bracketed == Bracketed(Intent(c))
           decision == Decision(Intent(c), caller[c].local, repo.rec) IN
       IF decision # "dispatch" THEN Decide(c, decision)
       ELSE Become(c, [caller[c] EXCEPT
                         !.pc = IF bracketed THEN "begin" ELSE "head",
                         !.head = IF bracketed THEN repo.head ELSE 0,
                         !.steps = Steps(Intent(c), repo.rec)])
    /\ UNCHANGED <<due, life, intent, session, repo, command, wire, landed, raced>>

\* Another record was written between the two heads.  A compound looks again
\* and is rejected the third time; an edit's recovery stays unresolved.
Unstable(c) ==
    /\ caller[c].pc = "read"
    /\ due.others > 0
    /\ due' = [due EXCEPT !.others = @ - 1]
    /\ repo' = [repo EXCEPT !.head = @ + 1]
    /\ \/ /\ Kind(c) = "compound"
          /\ IF caller[c].try < 3 THEN Become(c, [caller[c] EXCEPT !.try = @ + 1])
                                  ELSE Decide(c, "reject")
       \/ /\ Kind(c) = "edit" /\ caller[c].local # "prepared"
          /\ Decide(c, "unresolved")
    /\ UNCHANGED <<life, intent, session, command, wire, landed, raced>>

\* The transaction of a decision without a dispatch.
Conclude(c) ==
    /\ caller[c].pc = "decided"
    /\ Store(c, CASE caller[c].decision = "accept" -> Concluded(Row(c), "accepted")
                  [] caller[c].decision = "reject" -> Concluded(Row(c), "rejected")
                  [] caller[c].decision = "recover" -> Recovered(Row(c), caller[c].plan)
                  [] OTHER -> IF caller[c].local = "dispatching"
                              THEN MarkedAmbiguous(Row(c)) ELSE Row(c))
    /\ Become(c, Idle)
    /\ UNCHANGED <<due, life, intent, session, repo, wire, landed, raced>>

\* LatestCommit, after the record was read.
ReadHead(c) ==
    /\ caller[c].pc = "head"
    /\ Become(c, [caller[c] EXCEPT !.pc = "begin", !.head = repo.head])
    /\ UNCHANGED <<due, life, intent, session, repo, command, wire, landed, raced>>

\* BeginDispatch, and the request that follows it.  A caller that may not
\* begin answers with the command as it is.
Begin(c) ==
    /\ caller[c].pc = "begin"
    /\ LET version == caller[c].plan + caller[c].try
           ordinal == Len(Row(c).dispatches) + 1 IN
       IF CanBegin(Row(c), version)
       THEN /\ ordinal <= MaxDispatches
            /\ Store(c, Begun(Row(c), version))
            /\ wire' = wire \cup {[key |-> caller[c].key, dispatch |-> ordinal,
                                   head |-> caller[c].head,
                                   steps |-> caller[c].steps, caller |-> c]}
            /\ Become(c, [caller[c] EXCEPT !.pc = "sent", !.dispatch = ordinal,
                                           !.head = 0, !.steps = {}])
       ELSE UNCHANGED <<command, wire>> /\ Become(c, Idle)
    /\ UNCHANGED <<due, life, intent, session, repo, landed, raced>>

\* What the PDS makes of a write: it is bound to the head, and every step to
\* the version of its record; a record that is there is not created again.
Answer(w) ==
    IF w.head # repo.head THEN "invalid_swap"
    ELSE IF \A s \in w.steps : repo.rec[s.uri] = s.expect THEN "ok"
    ELSE IF \E s \in w.steps : s.expect = "absent" THEN "rejected"
    ELSE "invalid_swap"

\* The PDS processes a request, or refuses it; a waiting caller is answered.
Serve(w, answer) ==
    /\ w \in wire
    /\ answer \in {Answer(w), "rejected", "rate_limited"}
    /\ wire' = wire \ {w}
    /\ IF answer # "ok" THEN UNCHANGED <<repo, landed>>
       ELSE /\ repo' = [head |-> repo.head + 1,
                        rec |-> [u \in Uris |->
                                   IF \E s \in w.steps : s.uri = u
                                   THEN (CHOOSE s \in w.steps : s.uri = u).body
                                   ELSE repo.rec[u]]]
            /\ landed' = [landed EXCEPT ![w.key] = @ + 1]
    /\ IF w.caller = Nobody THEN UNCHANGED caller
       ELSE Become(w.caller, [caller[w.caller] EXCEPT !.pc = "replied", !.reply = answer])
    /\ UNCHANGED <<due, life, intent, session, command, raced>>

\* A request that nobody waits for is lost on its way.
Lose(w) ==
    /\ w \in wire /\ w.caller = Nobody
    /\ wire' = wire \ {w}
    /\ UNCHANGED <<due, life, intent, session, repo, command, caller, landed, raced>>

\* What is recorded of a dispatch.  After a lost head swap the services look
\* again, except the third time; a write that the PDS took is read back by
\* those that have no receipt for it.
Outcome(c) ==
    CASE caller[c].reply = "ok" ->
           IF /\ Kind(c) \in {"append", "put", "compound"} =>
                   Satisfied(Intent(c), repo.rec)
              /\ Kind(c) = "like" => repo.rec[Intent(c).uri] # "absent"
           THEN "accepted" ELSE "ambiguous"
      [] caller[c].reply = "invalid_swap" /\ caller[c].try >= 3 -> "rejected"
      [] OTHER -> caller[c].reply

Finish(c, outcome) ==
    LET settled == Settle(Row(c), caller[c].dispatch, outcome) IN
    /\ Store(c, settled)
    /\ Become(c, IF outcome = "invalid_swap" /\ settled # Row(c)
                 THEN [caller[c] EXCEPT
                         !.pc = "read", !.try = @ + 1, !.dispatch = 0, !.reply = "none",
                         !.plan = IF Kind(c) \in {"like", "unlike"} THEN @ ELSE @ + 1]
                 ELSE Idle)
    /\ UNCHANGED <<due, life, intent, session, repo, landed, raced>>

Receive(c) ==
    /\ caller[c].pc = "replied"
    /\ Finish(c, Outcome(c))
    /\ UNCHANGED wire

\* The request of a caller that is gone may be processed all the same.
Abandoned(c) ==
    {IF w.caller = c THEN [w EXCEPT !.caller = Nobody] ELSE w : w \in wire}

\* A wrong version: no answer counts as a refusal.
TimeOutRefuses(c) ==
    /\ caller[c].pc \in {"sent", "replied"}
    /\ Finish(c, "rejected")
    /\ wire' = Abandoned(c)

\* No usable answer; or the PDS took the write, and a service that reads it
\* back could not.
TimeOut(c) ==
    /\ \/ caller[c].pc = "sent"
       \/ /\ caller[c].pc = "replied" /\ caller[c].reply = "ok"
          /\ Kind(c) \in {"append", "put", "compound", "like"}
    /\ Finish(c, "ambiguous")
    /\ wire' = Abandoned(c)

\* The process or its fence connection dies, or a read fails.
Crash(c) ==
    /\ caller[c].pc # "idle"
    /\ Become(c, Idle)
    /\ wire' = Abandoned(c)
    /\ UNCHANGED <<due, life, intent, session, repo, command, landed, raced>>

----------------------------------------------------------------------------
(* The rest of the world.                                                  *)

\* CompactExpired, a day after the verdict: longer than any request lives.
Compact(k) ==
    /\ command[k].state \in Verdicts
    /\ \A w \in wire : w.key # k
    /\ \A c \in Callers : caller[c].key # k
    /\ command' = [command EXCEPT ![k] = Spent]
    /\ UNCHANGED <<due, life, intent, session, repo, wire, caller, landed, raced>>

\* TransitionWith under the owner's exclusive fence.
Move(to) ==
    /\ <<life.state, to>> \in Moves
    /\ life.gen < MaxGen
    /\ \A c \in Callers : ~Fenced(c)
    /\ life' = [state |-> to, gen |-> life.gen + 1]
    /\ UNCHANGED <<due, intent, session, repo, command, wire, caller, landed, raced>>

\* Another client of the owner writes a record, of this model or not.
Elsewhere(u, content) ==
    /\ due.others > 0
    /\ due' = [due EXCEPT !.others = @ - 1]
    /\ repo' = [head |-> repo.head + 1, rec |-> [repo.rec EXCEPT ![u] = content]]
    /\ UNCHANGED <<life, intent, session, command, wire, caller, landed, raced>>

Next ==
    \/ \E c \in Callers :
          \/ \E k \in Keys : Prepare(c, k)
          \/ Refuse(c) \/ Enter(c) \/ Observe(c) \/ Unstable(c) \/ Conclude(c)
          \/ ReadHead(c) \/ Begin(c) \/ Receive(c) \/ TimeOut(c) \/ Crash(c)
    \/ \E w \in wire, answer \in {"ok", "invalid_swap", "rejected", "rate_limited"} :
          Serve(w, answer)
    \/ \E w \in wire : Lose(w)
    \/ \E k \in Keys : Compact(k)
    \/ \E to \in States : Move(to)
    \/ \E u \in Uris, content \in Contents : Elsewhere(u, content)

Spec == Init /\ [][Next]_vars

----------------------------------------------------------------------------
(* Properties.                                                             *)

\* Every variable has its shape: a dispatch on the wire is one its command
\* has persisted, and a caller waits for a dispatch of the command it serves.
TypeOK ==
    /\ life \in [state : States, gen : 1..MaxGen]
    /\ repo \in [head : Nat, rec : [Uris -> Contents]]
    /\ \A k \in Keys :
          /\ command[k].state \in {"none", "prepared", "dispatching", "ambiguous",
                                   "spent"} \cup Verdicts
          /\ \A i \in DOMAIN command[k].dispatches :
                command[k].dispatches[i].outcome \in Outcomes
    /\ \A w \in wire : w.dispatch \in DOMAIN command[w.key].dispatches
    /\ \A c \in Callers : caller[c].pc \in {"sent", "replied"} =>
          caller[c].dispatch \in DOMAIN Row(c).dispatches

Once(k) == intent[k].kind # "unlike"

\* Retries of a request that follow one another never apply its write twice,
\* however often it was sent, lost, answered late or refused: what is uncertain
\* is only looked at again.
RetriesApplyOnce == \A k \in Keys : Once(k) /\ ~raced[k] => landed[k] <= 1

\* A command that ends on the PDS's refusal of its last dispatch took no effect.
RefusedTookNoEffect ==
    \A k \in Keys :
        /\ Once(k) /\ ~raced[k]
        /\ command[k].state = "rejected"
        /\ command[k].dispatches # <<>>
        /\ LastOutcome(command[k]) = "rejected"
        => landed[k] = 0

\* A like that lands finds no record of the same subject, however many devices
\* and clients are at work: the head that its create is bound to is the one its
\* collection was read at.
OneMember ==
    [][\A k \in Keys : intent[k].kind = "like" /\ landed'[k] > landed[k]
                        => Matching(repo.rec) = {}]_vars

\* No dispatch begins for an owner who is not active in the generation that the
\* command was made in.
ClosedGenerationIsQuiet ==
    [][\A k \in Keys :
          Len(command'[k].dispatches) > Len(command[k].dispatches)
            => life = [state |-> "active", gen |-> command[k].gen]]_vars

\* What the promise sees of a row.
Verdict(row) == IF row.state \in {"none", "spent"} \cup Verdicts THEN row.state ELSE "open"

\* The command plane keeps its promise.
Promise == INSTANCE CommandPromise WITH
    verdict <- [k \in Keys |-> Verdict(command[k])],
    contested <- {k \in Keys : raced[k]},
    effects <- landed
KeepsPromise == Promise!Spec
=============================================================================
