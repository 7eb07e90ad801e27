------------------------- MODULE PdsCommandsProofs -------------------------
(***************************************************************************)
(* What the command plane keeps for every number of keys, callers, records *)
(* and dispatches.  The inductive invariant has four parts besides the     *)
(* types: PlanInv says what a plan and a request on the wire are bound to, *)
(* SoleInv that a key that was never contested has one caller, SettledInv  *)
(* that nothing on its way can still change an accepted key, and OnceInv   *)
(* that a write is only sent again when the one before it had no effect.   *)
(***************************************************************************)
EXTENDS PdsCommandsTypes

\* The write was not done when it was planned: whenever its steps still match
\* the records, what was asked for is not there.
Undone(ask, steps) ==
    \A rec \in [Uris -> Contents] :
        (\A s \in steps : rec[s.uri] = s.expect) => ~Satisfied(ask, rec)

\* A plan is bound to a head of the past; if it is the head of now, a like still
\* has no match.
Fresh(ask, head, now) ==
    /\ head <= now.head
    /\ ask.kind = "like" /\ head = now.head => Matching(now.rec) = {}

\* A request that the PDS would apply.
Live(w, now) == w.head = now.head /\ \A s \in w.steps : now.rec[s.uri] = s.expect

CallerPlan(c) ==
    /\ Fenced(c) => life = [state |-> "active", gen |-> caller[c].gen]
    /\ caller[c].pc \in {"head", "begin"} => Undone(Intent(c), caller[c].steps)
    /\ caller[c].pc = "head" => Kind(c) # "like"
    /\ caller[c].pc = "begin" => Fresh(Intent(c), caller[c].head, repo)
RequestPlan(w) ==
    /\ Undone(intent[w.key], w.steps) /\ Fresh(intent[w.key], w.head, repo)
    /\ w.caller # Nobody => /\ caller[w.caller].pc = "sent"
                            /\ caller[w.caller].key = w.key
                            /\ \A v \in wire : v.caller = w.caller => v = w
PlanInv == (\A c \in Callers : CallerPlan(c)) /\ (\A w \in wire : RequestPlan(w))

Sole(k) == \A c, d \in Callers : caller[c].key = k /\ caller[d].key = k => c = d
SoleInv == \A k \in Keys : ~raced[k] => Sole(k)

Quiet(k) == \A w \in wire : w.key = k => ~Live(w, repo)
Affirms(r) ==
    \/ r.pc = "decided" /\ r.decision \in {"accept", "recover"}
    \/ r.pc = "replied" /\ r.reply = "ok"
Settled(k) ==
    /\ command[k].state = "accepted" => Quiet(k) /\ \A c \in Callers : caller[c].key # k
    /\ \A c \in Callers : caller[c].key = k /\ Affirms(caller[c]) => Quiet(k)
SettledInv == \A k \in Keys : ~raced[k] => Settled(k)

\* A row that says that nothing of its command took effect or still may.
CleanRow(row) ==
    \/ row.state \in {"none", "prepared"}
    \/ row.dispatches # <<>> /\ LastOutcome(row) \in Definite \cup {"rejected"}
Clean(k) == landed[k] = 0 /\ \A w \in wire : w.key # k
CallerOnce(c, k) ==
    /\ caller[c].pc \in {"head", "begin", "sent", "replied"} => caller[c].local = "prepared"
    /\ /\ caller[c].pc \in {"prepared", "read", "head", "begin"}
       /\ caller[c].local = "prepared"
       => Clean(k)
    /\ caller[c].pc = "sent" =>
          landed[k] = 0 /\ \A w \in wire : w.key = k => w.caller = c
    /\ caller[c].pc = "replied" =>
          /\ \A w \in wire : w.key # k
          /\ caller[c].reply # "ok" => landed[k] = 0
KeyOnce(k) ==
    /\ landed[k] <= 1
    /\ \A w \in wire : w.key = k => landed[k] = 0
    /\ \A v, w \in wire : v.key = k /\ w.key = k => v = w
    /\ CleanRow(command[k]) => Clean(k)
    /\ \A c \in Callers : caller[c].key = k => CallerOnce(c, k)
OnceInv == \A k \in Keys : Once(k) /\ ~raced[k] => KeyOnce(k)

IInv == TypeInv /\ PlanInv /\ SoleInv /\ SettledInv /\ OnceInv

----------------------------------------------------------------------------
(* Plans.                                                                  *)

\* A dispatch is planned only for what is not done, by a request that took up a
\* command nothing was sent for, and for a like only when nothing matches.
LEMMA DispatchPlan ==
    ASSUME WorldOK, NEW k \in Keys, NEW local,
           Decision(intent[k], local, repo.rec) = "dispatch"
    PROVE  /\ Undone(intent[k], Steps(intent[k], repo.rec))
           /\ intent[k].kind = "like" => Matching(repo.rec) = {}
           /\ intent[k].kind # "unlike" => local = "prepared"
<1> DEFINE ask == intent[k]
           steps == Steps(ask, repo.rec)
<1>1. ask \in [kind : Kinds, uri : Uris] /\ repo.rec \in [Uris -> Contents]
  BY DEF WorldOK
<1>2. /\ ask.kind = "like" => Matching(repo.rec) = {}
      /\ ask.kind # "unlike" => local = "prepared" /\ Expected(ask, repo.rec)
      /\ ask.kind # "edit" => ~Satisfied(ask, repo.rec)
  BY DEF Decision
<1>3. ASSUME NEW rec \in [Uris -> Contents], \A s \in steps : rec[s.uri] = s.expect
      PROVE  ~Satisfied(ask, rec)
  <2>1. CASE ask.kind = "unlike"
    <3>1. PICK u \in Uris : repo.rec[u] = "new"
      BY <1>2, <2>1 DEF Satisfied, Matching
    <3>2. [uri |-> u, expect |-> "new", body |-> "absent"] \in steps
      BY <2>1, <3>1 DEF Steps, Matching
    <3>3. rec[u] = "new"
      BY <1>3, <3>2
    <3> QED
      BY <2>1, <3>3 DEF Satisfied, Matching
  <2>2. CASE ask.kind # "unlike"
    <3>1. rec[ask.uri] = repo.rec[ask.uri]
      BY <1>3, <2>2 DEF Steps
    <3>2. ask.kind = "edit" => repo.rec[ask.uri] = "base"
      BY <1>2 DEF Expected
    <3> HIDE DEF ask
    <3> QED
      BY <1>2, <2>2, <3>1, <3>2 DEF Satisfied
  <2> QED
    BY <2>1, <2>2
<1> QED
  BY <1>2, <1>3 DEF Undone

\* The requests of a caller that is gone are those of before, and nobody waits.
LEMMA AbandonedNobody ==
    ASSUME TypeInv, NEW c \in Callers, NEW w \in Abandoned(c), w.caller # Nobody
    PROVE  w \in wire /\ w.caller # c
<1>1. PICK v \in wire : w = IF v.caller = c THEN [v EXCEPT !.caller = Nobody] ELSE v
  BY DEF Abandoned
<1>2. v \in Requests
  BY DEF TypeInv, RequestOK
<1>3. v.caller # c
  BY <1>1, <1>2 DEF Requests
<1> QED
  BY <1>1, <1>3

\* A step of one caller that leaves the world as it is keeps the plans of all
\* the others.
LEMMA PlanStep ==
    ASSUME TypeInv, PlanInv, NEW c \in Callers, Unmoved, Own(c),
           \/ wire' = wire /\ caller[c].pc # "sent"
           \/ wire' = Abandoned(c),
           CallerPlan(c)'
    PROVE  PlanInv'
<1>1. ASSUME NEW d \in Callers, d # c PROVE caller'[d] = caller[d]
  BY <1>1 DEF Own, TypeInv
<1>2. ASSUME NEW d \in Callers PROVE CallerPlan(d)'
  <2>1. CASE d # c
    BY <1>1, <2>1 DEF PlanInv, CallerPlan, Fenced, Kind, Intent, Unmoved
  <2> QED
    BY <2>1
<1>3. ASSUME NEW w \in wire'
      PROVE  \E v \in wire : v.key = w.key /\ v.head = w.head /\ v.steps = w.steps
  BY AbandonedOK
<1>4. ASSUME NEW w \in wire', w.caller # Nobody
      PROVE  w \in wire /\ w.caller \in Callers /\ w.caller # c
  <2>1. w \in wire /\ (wire' = Abandoned(c) => w.caller # c)
    BY <1>4, AbandonedNobody
  <2>2. w.caller \in Callers
    BY <1>4, <2>1 DEF TypeInv, RequestOK, Requests
  <2>3. caller[w.caller].pc = "sent"
    BY <1>4, <2>1 DEF PlanInv, RequestPlan
  <2> QED
    BY <2>1, <2>2, <2>3
<1>5. ASSUME NEW w \in wire' PROVE RequestPlan(w)'
  <2>1. PICK v \in wire : v.key = w.key /\ v.head = w.head /\ v.steps = w.steps
    BY <1>3
  <2>2. Undone(intent[w.key], w.steps)' /\ Fresh(intent[w.key], w.head, repo)'
    BY <2>1 DEF PlanInv, RequestPlan, Unmoved
  <2>3. CASE w.caller # Nobody
    <3>1. w \in wire /\ w.caller \in Callers /\ w.caller # c
      BY <1>4, <2>3
    <3>2. caller'[w.caller] = caller[w.caller]
      BY <1>1, <3>1
    <3>3. \A x \in wire' : x.caller = w.caller => x \in wire
      BY <1>4, <2>3
    <3> QED
      BY <2>2, <3>1, <3>2, <3>3 DEF PlanInv, RequestPlan
  <2> QED
    BY <2>2, <2>3 DEF RequestPlan
<1> QED
  BY <1>2, <1>5 DEF PlanInv

\* An idle caller has no plan.
LEMMA IdlePlan == ASSUME NEW c \in Callers, caller'[c] = Idle PROVE CallerPlan(c)'
  BY DEF CallerPlan, Fenced, Idle

\* Refuse keeps PlanInv.
LEMMA RefusePlan ==
    ASSUME TypeInv, PlanInv, NEW c \in Callers, Refuse(c)
    PROVE  PlanInv'
  BY RefuseEffect, IdlePlan, PlanStep

\* Conclude keeps PlanInv.
LEMMA ConcludePlan ==
    ASSUME TypeInv, PlanInv, NEW c \in Callers, Conclude(c)
    PROVE  PlanInv'
  BY ConcludeEffect, IdlePlan, PlanStep

\* Crash keeps PlanInv.
LEMMA CrashPlan ==
    ASSUME TypeInv, PlanInv, NEW c \in Callers, Crash(c)
    PROVE  PlanInv'
  BY CrashEffect, IdlePlan, PlanStep

\* TimeOut keeps PlanInv.
LEMMA TimeOutPlan ==
    ASSUME TypeInv, PlanInv, NEW c \in Callers, TimeOut(c)
    PROVE  PlanInv'
  BY TimeOutEffect, IdlePlan, PlanStep

\* Enter keeps PlanInv.
LEMMA EnterPlan ==
    ASSUME TypeInv, PlanInv, NEW c \in Callers, Enter(c)
    PROVE  PlanInv'
<1>1. CallerPlan(c)'
  BY EnterEffect DEF CallerPlan, Unmoved
<1> QED
  BY <1>1, EnterEffect, PlanStep

\* Receive keeps PlanInv.
LEMMA ReceivePlan ==
    ASSUME TypeInv, PlanInv, NEW c \in Callers, Receive(c)
    PROVE  PlanInv'
<1>1. CallerPlan(c)'
  <2>1. CASE caller'[c] = Idle
    BY <2>1, IdlePlan
  <2>2. CASE caller'[c] # Idle
    BY <2>2, ReceiveEffect DEF CallerPlan, Fenced, PlanInv, Unmoved
  <2> QED
    BY <2>1, <2>2
<1> QED
  BY <1>1, ReceiveEffect, PlanStep

\* Observe keeps PlanInv.
LEMMA ObservePlan ==
    ASSUME TypeInv, PlanInv, NEW c \in Callers, Observe(c)
    PROVE  PlanInv'
<1>1. CallerPlan(c)'
  <2>1. caller[c].key \in Keys /\ WorldOK
    BY ObserveEffect, AtWork DEF TypeInv
  <2>2. life' = [state |-> "active", gen |-> caller'[c].gen]
    BY ObserveEffect DEF PlanInv, CallerPlan, Fenced, Unmoved
  <2>3. CASE caller'[c].pc = "decided"
    BY <2>2, <2>3 DEF CallerPlan
  <2>4. CASE caller'[c].pc # "decided"
    <3>1. /\ Decision(intent[caller[c].key], caller[c].local, repo.rec) = "dispatch"
          /\ caller'[c].steps = Steps(intent[caller[c].key], repo.rec)
          /\ caller'[c].key = caller[c].key /\ intent' = intent /\ repo' = repo
      BY <2>4, ObserveEffect DEF Intent, Unmoved
    <3>2. /\ Undone(Intent(c), caller[c].steps)'
          /\ Kind(c)' = "like" => Matching(repo.rec) = {}
      BY <2>1, <3>1, DispatchPlan DEF Intent, Kind
    <3>3. caller'[c].pc = "head" => Kind(c)' # "like"
      BY <2>4, <3>1, ObserveEffect DEF Kind, Intent, Bracketed
    <3>4. caller'[c].pc = "begin" => caller'[c].head = repo.head
      BY <2>4, ObserveEffect
    <3>5. repo.head \in Nat
      BY <2>1 DEF WorldOK
    <3> QED
      BY <2>2, <3>1, <3>2, <3>3, <3>4, <3>5 DEF CallerPlan, Fresh, Kind
  <2> QED
    BY <2>3, <2>4
<1> QED
  BY <1>1, ObserveEffect, PlanStep

\* ReadHead keeps PlanInv.
LEMMA ReadHeadPlan ==
    ASSUME TypeInv, PlanInv, NEW c \in Callers, ReadHead(c)
    PROVE  PlanInv'
<1>1. CallerPlan(c)'
  <2>1. /\ caller'[c].pc = "begin" /\ caller'[c].steps = caller[c].steps
        /\ caller'[c].head = repo.head /\ caller'[c].gen = caller[c].gen
        /\ Intent(c)' = Intent(c) /\ repo' = repo /\ life' = life
    BY ReadHeadEffect DEF Intent, Unmoved
  <2>2. Undone(Intent(c), caller[c].steps) /\ Kind(c) # "like"
        /\ life = [state |-> "active", gen |-> caller[c].gen]
    BY ReadHeadEffect DEF PlanInv, CallerPlan, Fenced
  <2>3. repo.head \in Nat
    BY DEF TypeInv, WorldOK
  <2> QED
    BY <2>1, <2>2, <2>3 DEF CallerPlan, Fresh, Kind
<1> QED
  BY <1>1, ReadHeadEffect, PlanStep

\* A step after which the head is greater keeps every plan, whatever it made of
\* the records: the plan is bound to a head of the past.
LEMMA HeadMovesPlan ==
    ASSUME TypeInv, PlanInv, intent' = intent, life' = life,
           repo'.head = repo.head + 1,
           wire' \subseteq wire,
           \A d \in Callers :
              \/ caller'[d] = caller[d]
              \/ /\ caller'[d].pc \notin {"head", "begin"} /\ Fenced(d)
                 /\ caller'[d].gen = caller[d].gen,
           \A w \in wire' : w.caller # Nobody => caller'[w.caller] = caller[w.caller]
    PROVE  PlanInv'
<1>1. repo.head \in Nat /\ \A c \in Callers : caller[c].head \in Nat
  BY DEF TypeInv, WorldOK, Requesters
<1>2. ASSUME NEW d \in Callers PROVE CallerPlan(d)'
  <2>1. CASE caller'[d] = caller[d]
    BY <1>1, <2>1 DEF PlanInv, CallerPlan, Fenced, Kind, Intent, Fresh
  <2>2. CASE caller'[d] # caller[d]
    BY <2>2 DEF PlanInv, CallerPlan
  <2> QED
    BY <2>1, <2>2
<1>3. ASSUME NEW w \in wire' PROVE RequestPlan(w)'
  <2>1. w.head \in Nat
    BY DEF TypeInv, RequestOK, Requests
  <2>2. Fresh(intent[w.key], w.head, repo)'
    BY <1>1, <2>1 DEF PlanInv, RequestPlan, Fresh
  <2> QED
    BY <2>2 DEF PlanInv, RequestPlan
<1> QED
  BY <1>2, <1>3 DEF PlanInv

\* Unstable keeps PlanInv.
LEMMA UnstablePlan ==
    ASSUME TypeInv, PlanInv, NEW c \in Callers, Unstable(c)
    PROVE  PlanInv'
<1>1. /\ caller[c].pc = "read" /\ intent' = intent /\ life' = life /\ wire' = wire
      /\ caller'[c].pc \in {"read", "decided"} /\ caller'[c].gen = caller[c].gen
      /\ Own(c)
  BY UnstableEffect
<1>2. repo'.head = repo.head + 1
  BY UnstableEffect DEF TypeInv, WorldOK
<1>3. \A d \in Callers : d # c => caller'[d] = caller[d]
  BY <1>1 DEF Own, TypeInv
<1>4. ASSUME NEW w \in wire', w.caller # Nobody PROVE caller'[w.caller] = caller[w.caller]
  <2>1. w.caller \in Callers /\ w.caller # c
    BY <1>1, <1>4 DEF TypeInv, RequestOK, Requests, PlanInv, RequestPlan
  <2> QED
    BY <1>3, <2>1
<1> QED
  BY <1>1, <1>2, <1>3, <1>4, HeadMovesPlan DEF Fenced

\* Elsewhere keeps PlanInv.
LEMMA ElsewherePlan ==
    ASSUME TypeInv, PlanInv, NEW u \in Uris, NEW content \in Contents,
           Elsewhere(u, content)
    PROVE  PlanInv'
  BY ElsewhereEffect, HeadMovesPlan

\* Begin keeps PlanInv.
LEMMA BeginPlan ==
    ASSUME TypeInv, PlanInv, NEW c \in Callers, Begin(c)
    PROVE  PlanInv'
<1>1. /\ caller[c].pc = "begin" /\ Unmoved /\ Own(c) /\ c # Nobody
      /\ \A d \in Callers : d # c => caller'[d] = caller[d]
  BY BeginEffect, CommandConstants DEF Own, TypeInv
<1>2. CASE wire' = wire /\ caller'[c] = Idle
  BY <1>1, <1>2, IdlePlan, PlanStep
<1>3. CASE ~(wire' = wire /\ caller'[c] = Idle)
  <2>1. PICK w \in Requests :
            /\ wire' = wire \cup {w} /\ w.key = caller[c].key
            /\ w.head = caller[c].head /\ w.steps = caller[c].steps /\ w.caller = c
    BY <1>3, BeginEffect
  <2>2. /\ caller'[c].pc = "sent" /\ caller'[c].key = caller[c].key
        /\ caller'[c].gen = caller[c].gen
    BY <1>3, BeginEffect
  <2>3. ASSUME NEW d \in Callers PROVE CallerPlan(d)'
    <3>1. CASE d # c
      BY <1>1, <3>1 DEF PlanInv, CallerPlan, Fenced, Kind, Intent, Unmoved
    <3>2. CASE d = c
      BY <1>1, <2>2, <3>2 DEF PlanInv, CallerPlan, Fenced, Unmoved
    <3> QED
      BY <3>1, <3>2
  <2>4. ASSUME NEW v \in wire, v.caller # Nobody
        PROVE  v.caller \in Callers /\ v.caller # c
    BY <1>1, <2>4 DEF TypeInv, RequestOK, Requests, PlanInv, RequestPlan
  <2>5. ASSUME NEW v \in wire PROVE RequestPlan(v)'
    <3>1. /\ Undone(intent[v.key], v.steps) /\ Fresh(intent[v.key], v.head, repo)
          /\ v.caller # Nobody =>
               /\ caller[v.caller].pc = "sent" /\ caller[v.caller].key = v.key
               /\ \A x \in wire : x.caller = v.caller => x = v
      BY DEF PlanInv, RequestPlan
    <3>2. CASE v.caller = Nobody
      BY <1>1, <3>1, <3>2 DEF RequestPlan, Unmoved
    <3>3. CASE v.caller # Nobody
      <4>1. caller'[v.caller] = caller[v.caller] /\ v.caller # w.caller
        BY <1>1, <2>1, <2>4, <3>3
      <4> QED
        BY <1>1, <2>1, <3>1, <4>1 DEF RequestPlan, Unmoved
    <3> QED
      BY <3>2, <3>3
  <2>6. RequestPlan(w)'
    <3>1. Undone(Intent(c), caller[c].steps) /\ Fresh(Intent(c), caller[c].head, repo)
      BY <1>1 DEF PlanInv, CallerPlan
    <3>2. Undone(intent'[w.key], w.steps) /\ Fresh(intent'[w.key], w.head, repo')
      BY <1>1, <2>1, <3>1 DEF Unmoved, Intent
    <3>3. \A x \in wire' : x.caller = c => x = w
      BY <2>1, <2>4, <1>1
    <3> QED
      BY <2>1, <2>2, <3>2, <3>3 DEF RequestPlan
  <2> QED
    BY <2>1, <2>3, <2>5, <2>6 DEF PlanInv
<1> QED
  BY <1>2, <1>3

\* The caller that a request waits for is "sent".
LEMMA Waits ==
    ASSUME PlanInv, NEW w \in wire, w.caller # Nobody
    PROVE  caller[w.caller].pc = "sent" /\ caller[w.caller].key = w.key
  BY DEF PlanInv, RequestPlan

\* Serve keeps PlanInv.
LEMMA ServePlan ==
    ASSUME TypeInv, PlanInv, NEW w \in wire,
           NEW answer \in {"ok", "invalid_swap", "rejected", "rate_limited"},
           Serve(w, answer)
    PROVE  PlanInv'
<1>1. /\ intent' = intent /\ life' = life /\ wire' = wire \ {w}
      /\ repo' = repo \/ repo'.head = repo.head + 1
  BY Waits, ServeEffect
<1>2. \/ w.caller = Nobody /\ caller' = caller
      \/ /\ w.caller \in Callers /\ caller[w.caller].pc = "sent"
         /\ caller' = [caller EXCEPT ![w.caller] = caller'[w.caller]]
         /\ caller'[w.caller].pc = "replied"
         /\ caller'[w.caller].gen = caller[w.caller].gen
  <2>1. w.caller # Nobody => caller[w.caller].pc = "sent"
    BY Waits
  <2>2. \/ w.caller = Nobody /\ caller' = caller
        \/ /\ w.caller \in Callers
           /\ caller' = [caller EXCEPT ![w.caller] = caller'[w.caller]]
           /\ caller'[w.caller].pc = "replied"
           /\ caller'[w.caller].gen = caller[w.caller].gen
    BY <2>1, ServeEffect
  <2> QED
    BY <2>1, <2>2, CommandConstants
<1>3. \A d \in Callers :
        \/ caller'[d] = caller[d]
        \/ /\ caller'[d].pc \notin {"head", "begin"} /\ Fenced(d)
           /\ caller'[d].gen = caller[d].gen
  BY <1>2 DEF Fenced, TypeInv
<1>4. ASSUME NEW v \in wire', v.caller # Nobody PROVE caller'[v.caller] = caller[v.caller]
  <2>1. v.caller \in Callers /\ v \in wire /\ v # w
    BY <1>1, <1>4 DEF TypeInv, RequestOK, Requests
  <2>2. v.caller # w.caller
    BY <1>4, <2>1 DEF PlanInv, RequestPlan
  <2> QED
    BY <1>2, <2>1, <2>2 DEF TypeInv
<1>5. CASE repo'.head = repo.head + 1
  BY <1>1, <1>3, <1>4, <1>5, HeadMovesPlan
<1>6. CASE repo' = repo
  <2>1. ASSUME NEW d \in Callers PROVE CallerPlan(d)'
    <3>1. CASE caller'[d] = caller[d]
      BY <1>1, <1>6, <3>1 DEF PlanInv, CallerPlan, Fenced, Kind, Intent
    <3>2. CASE caller'[d] # caller[d]
      BY <1>1, <1>3, <3>2 DEF PlanInv, CallerPlan
    <3> QED
      BY <3>1, <3>2
  <2>2. ASSUME NEW v \in wire' PROVE RequestPlan(v)'
    BY <1>1, <1>4, <1>6 DEF PlanInv, RequestPlan
  <2> QED
    BY <2>1, <2>2 DEF PlanInv
<1> QED
  BY <1>1, <1>5, <1>6

\* Prepare keeps PlanInv.
LEMMA PreparePlan ==
    ASSUME TypeInv, PlanInv, NEW c \in Callers, NEW k \in Keys, Prepare(c, k)
    PROVE  PlanInv'
<1>1. /\ caller[c].pc = "idle" /\ UNCHANGED <<life, intent, repo, wire>>
      /\ caller'[c].pc = "prepared"
      /\ \A d \in Callers : d # c => caller'[d] = caller[d]
  <2>1. caller' = [caller EXCEPT ![c] = caller'[c]]
    BY PrepareEffect
  <2> QED
    BY <2>1, PrepareEffect DEF TypeInv
<1>2. ASSUME NEW d \in Callers PROVE CallerPlan(d)'
  <2>1. CASE d # c
    BY <1>1, <2>1 DEF PlanInv, CallerPlan, Fenced, Kind, Intent
  <2>2. CASE d = c
    BY <1>1, <2>2 DEF CallerPlan, Fenced
  <2> QED
    BY <2>1, <2>2
<1>3. ASSUME NEW w \in wire' PROVE RequestPlan(w)'
  <2>1. w.caller # Nobody => caller'[w.caller] = caller[w.caller]
    BY <1>1 DEF TypeInv, RequestOK, Requests, PlanInv, RequestPlan
  <2> QED
    BY <1>1, <2>1 DEF PlanInv, RequestPlan
<1> QED
  BY <1>2, <1>3 DEF PlanInv

\* Lose keeps PlanInv.
LEMMA LosePlan ==
    ASSUME TypeInv, PlanInv, NEW w \in wire, Lose(w)
    PROVE  PlanInv'
<1>1. UNCHANGED <<life, intent, repo, caller>> /\ wire' \subseteq wire
  BY DEF Lose
<1>2. \A d \in Callers : CallerPlan(d)'
  BY <1>1 DEF PlanInv, CallerPlan, Fenced, Kind, Intent
<1>3. \A v \in wire' : RequestPlan(v)'
  BY <1>1 DEF PlanInv, RequestPlan
<1> QED
  BY <1>2, <1>3 DEF PlanInv

\* What leaves the callers, the wire and the world as they are.
LEMMA SamePlan ==
    ASSUME PlanInv, UNCHANGED <<intent, repo, wire, caller>>,
           life' = life \/ \A c \in Callers : ~Fenced(c)
    PROVE  PlanInv'
<1>1. \A d \in Callers : CallerPlan(d)'
  BY DEF PlanInv, CallerPlan, Fenced, Kind, Intent
<1>2. \A v \in wire' : RequestPlan(v)'
  BY DEF PlanInv, RequestPlan
<1> QED
  BY <1>1, <1>2 DEF PlanInv

----------------------------------------------------------------------------
(* One caller per key.                                                     *)

\* Only Prepare gives a caller a key.
LetsGo == raced' = raced /\ \A d \in Callers : caller'[d].key \in {caller[d].key, Nobody}

\* A caller that works on its own key takes up no other.
LEMMA OwnLetsGo ==
    ASSUME TypeInv, NEW c \in Callers, Own(c), raced' = raced,
           caller'[c].key \in {caller[c].key, Nobody}
    PROVE  LetsGo
<1>1. \A d \in Callers : d # c => caller'[d] = caller[d]
  BY DEF Own, TypeInv
<1> QED
  BY <1>1 DEF LetsGo

\* An idle caller holds no key.
LEMMA IdleKey == Idle.key = Nobody /\ Idle.pc = "idle"
  BY DEF Idle

\* Every step of a caller but Prepare only keeps or lets go of its key.
LEMMA CallerLetsGo ==
    ASSUME TypeInv, NEW c \in Callers,
           \/ Refuse(c) \/ Enter(c) \/ Observe(c) \/ Unstable(c) \/ Conclude(c)
           \/ ReadHead(c) \/ Begin(c) \/ Receive(c) \/ TimeOut(c) \/ Crash(c)
    PROVE  Own(c) /\ LetsGo
<1>1. Own(c) /\ raced' = raced /\ caller'[c].key \in {caller[c].key, Nobody}
  <2>1. CASE Refuse(c)
    BY <2>1, RefuseEffect, IdleKey DEF Unmoved
  <2>2. CASE Enter(c)
    BY <2>2, EnterEffect DEF Unmoved
  <2>3. CASE Observe(c)
    BY <2>3, ObserveEffect DEF Unmoved
  <2>4. CASE Unstable(c)
    BY <2>4, UnstableEffect
  <2>5. CASE Conclude(c)
    BY <2>5, ConcludeEffect, IdleKey DEF Unmoved
  <2>6. CASE ReadHead(c)
    BY <2>6, ReadHeadEffect DEF Unmoved
  <2>7. CASE Begin(c)
    BY <2>7, BeginEffect, IdleKey DEF Unmoved
  <2>8. CASE Receive(c)
    BY <2>8, ReceiveEffect, IdleKey DEF Unmoved
  <2>9. CASE TimeOut(c)
    BY <2>9, TimeOutEffect, IdleKey DEF Unmoved
  <2>10. CASE Crash(c)
    BY <2>10, CrashEffect, IdleKey DEF Unmoved
  <2> QED
    BY <2>1, <2>2, <2>3, <2>4, <2>5, <2>6, <2>7, <2>8, <2>9, <2>10
<1> QED
  BY <1>1, OwnLetsGo

\* The PDS takes up no key for a caller.
LEMMA ServeLetsGo ==
    ASSUME TypeInv, PlanInv, NEW w \in wire,
           NEW answer \in {"ok", "invalid_swap", "rejected", "rate_limited"},
           Serve(w, answer)
    PROVE  LetsGo
<1>1. raced' = raced
  BY DEF Serve
<1>2. w.caller # Nobody => caller[w.caller].pc = "sent"
  BY Waits
<1>3. \/ w.caller = Nobody /\ caller' = caller
      \/ /\ w.caller \in Callers
         /\ caller' = [caller EXCEPT ![w.caller] = caller'[w.caller]]
         /\ caller'[w.caller].key = caller[w.caller].key
  BY <1>2, ServeEffect
<1> QED
  BY <1>1, <1>3 DEF LetsGo, TypeInv

\* Sole callers stay sole where nobody takes up a key.
LEMMA SoleStays == ASSUME SoleInv, LetsGo PROVE SoleInv'
<1>1. \A k \in Keys : k # Nobody
  BY CommandConstants
<1> QED
  BY <1>1 DEF SoleInv, Sole, LetsGo

\* Prepare marks a key as raced when it has a caller already.
LEMMA PrepareSole ==
    ASSUME TypeInv, SoleInv, NEW c \in Callers, NEW k \in Keys, Prepare(c, k)
    PROVE  SoleInv'
<1>1. /\ raced' = [raced EXCEPT ![k] = raced[k] \/ \E d \in Callers : caller[d].key = k]
      /\ caller' = [caller EXCEPT ![c] = caller'[c]] /\ caller'[c].key = k
  BY PrepareEffect
<1>2. ASSUME NEW j \in Keys, ~raced'[j] PROVE Sole(j)'
  <2>1. raced \in [Keys -> BOOLEAN] /\ \A d \in Callers : d # c => caller'[d] = caller[d]
    BY <1>1 DEF TypeInv, WorldOK
  <2>2. ~raced[j] /\ (j = k => \A d \in Callers : caller[d].key # k)
    BY <1>1, <1>2, <2>1
  <2> QED
    BY <1>1, <2>1, <2>2 DEF SoleInv, Sole
<1> QED
  BY <1>2 DEF SoleInv

----------------------------------------------------------------------------
(* What is settled stays.                                                  *)

\* Nothing a key asked for is on its way to a repository that has it.
LEMMA DoneIsQuiet ==
    ASSUME TypeInv, PlanInv, NEW k \in Keys,
           \/ Satisfied(intent[k], repo.rec)
           \/ intent[k].kind = "like" /\ Matching(repo.rec) # {}
    PROVE  Quiet(k)
<1>1. ASSUME NEW w \in wire, w.key = k, Live(w, repo) PROVE FALSE
  <2>1. Undone(intent[k], w.steps) /\ Fresh(intent[k], w.head, repo)
    BY <1>1 DEF PlanInv, RequestPlan
  <2>2. repo.rec \in [Uris -> Contents]
    BY DEF TypeInv, WorldOK
  <2>3. ~Satisfied(intent[k], repo.rec)
    BY <1>1, <2>1, <2>2 DEF Undone, Live
  <2>4. intent[k].kind = "like" => Matching(repo.rec) = {}
    BY <1>1, <2>1 DEF Fresh, Live
  <2> QED
    BY <2>3, <2>4
<1> QED
  BY <1>1 DEF Quiet

\* When the head has moved on, nothing sent before it is live.
LEMMA HeadMovesQuiet ==
    ASSUME TypeInv, PlanInv, repo'.head = repo.head + 1, wire' \subseteq wire, NEW k
    PROVE  Quiet(k)'
<1>1. \A w \in wire : w.head \in Nat /\ w.head <= repo.head
  BY DEF PlanInv, RequestPlan, Fresh, TypeInv, RequestOK, Requests
<1>2. repo.head \in Nat
  BY DEF TypeInv, WorldOK
<1> QED
  BY <1>1, <1>2 DEF Quiet, Live

\* Requests that are lost, answered or abandoned do not come to life.
LEMMA QuietStays ==
    ASSUME TypeInv, repo' = repo, NEW k, Quiet(k),
           \/ wire' \subseteq wire
           \/ \E c \in Callers : wire' = Abandoned(c)
    PROVE  Quiet(k)'
<1>1. ASSUME NEW w \in wire'
      PROVE  \E v \in wire : v.key = w.key /\ v.head = w.head /\ v.steps = w.steps
  BY AbandonedOK
<1> QED
  BY <1>1 DEF Quiet, Live

\* The condition under which a step keeps a key settled.
LEMMA SettledStep ==
    ASSUME NEW k \in Keys, Sole(k), Settled(k), LetsGo,
           Quiet(k) => Quiet(k)',
           command'[k].state = "accepted" =>
              \/ command[k].state = "accepted"
              \/ \E c \in Callers : /\ caller[c].key = k /\ Affirms(caller[c])
                                    /\ caller'[c].key # k,
           \A d \in Callers : caller'[d].key = k /\ Affirms(caller'[d]) =>
              Affirms(caller[d]) \/ Quiet(k)'
    PROVE  Settled(k)'
<1>1. \A d \in Callers : caller'[d].key = k => caller[d].key = k
  BY CommandConstants DEF LetsGo
<1>2. ASSUME command'[k].state = "accepted"
      PROVE  Quiet(k)' /\ \A c \in Callers : caller'[c].key # k
  <2>1. CASE command[k].state = "accepted"
    BY <1>1, <2>1 DEF Settled
  <2>2. CASE command[k].state # "accepted"
    <3>1. PICK c \in Callers : /\ caller[c].key = k /\ Affirms(caller[c])
                               /\ caller'[c].key # k
      BY <1>2, <2>2
    <3>2. Quiet(k)'
      BY <3>1 DEF Settled
    <3> QED
      BY <1>1, <3>1, <3>2 DEF Sole
  <2> QED
    BY <2>1, <2>2
<1>3. ASSUME NEW c \in Callers, caller'[c].key = k, Affirms(caller'[c])
      PROVE  Quiet(k)'
  BY <1>1, <1>3 DEF Settled
<1> QED
  BY <1>2, <1>3 DEF Settled

\* The same for a step of one caller.
LEMMA CallerSettled ==
    ASSUME TypeInv, SoleInv, SettledInv, NEW c \in Callers, caller[c].pc # "idle",
           Own(c), LetsGo,
           \A k \in Keys : Quiet(k) => Quiet(k)',
           command'[caller[c].key].state = "accepted" =>
              \/ Row(c).state = "accepted"
              \/ Affirms(caller[c]) /\ caller'[c] = Idle,
           Affirms(caller'[c]) =>
              \/ Affirms(caller[c])
              \/ \A k \in Keys : caller'[c].key = k => Quiet(k)'
    PROVE  SettledInv'
<1> DEFINE key == caller[c].key
<1>1. key \in Keys /\ \A d \in Callers : d # c => caller'[d] = caller[d]
  BY AtWork DEF Own, TypeInv
<1>2. \A k \in Keys : k # key => command'[k] = command[k]
  BY <1>1 DEF Own, TypeInv
<1>3. ASSUME NEW k \in Keys, ~raced'[k] PROVE Settled(k)'
  <2>1. Sole(k) /\ Settled(k)
    BY <1>3 DEF LetsGo, SoleInv, SettledInv
  <2>2. command'[k].state = "accepted" =>
           \/ command[k].state = "accepted"
           \/ \E d \in Callers : /\ caller[d].key = k /\ Affirms(caller[d])
                                 /\ caller'[d].key # k
    <3>1. CASE k # key
      BY <1>2, <3>1
    <3>2. CASE k = key
      BY <3>2, IdleKey, CommandConstants DEF Row
    <3> QED
      BY <3>1, <3>2
  <2>3. ASSUME NEW d \in Callers, caller'[d].key = k, Affirms(caller'[d])
        PROVE  Affirms(caller[d]) \/ Quiet(k)'
    <3>1. CASE d # c
      BY <1>1, <2>3, <3>1
    <3>2. CASE d = c
      BY <2>3, <3>2
    <3> QED
      BY <3>1, <3>2
  <2> QED
    BY <2>1, <2>2, <2>3, SettledStep
<1> QED
  BY <1>3 DEF SettledInv

\* A quiet key stays quiet while the records stay and nothing is sent.
LEMMA AllQuietStays ==
    ASSUME TypeInv, NEW c \in Callers, Unmoved, wire' = wire \/ wire' = Abandoned(c)
    PROVE  \A k \in Keys : Quiet(k) => Quiet(k)'
<1>1. repo' = repo
  BY DEF Unmoved
<1> QED
  BY <1>1, QuietStays

\* A caller that is idle or reads affirms nothing.
LEMMA NotAffirmed == ~Affirms(Idle) /\ \A r : r.pc \notin {"decided", "replied"} => ~Affirms(r)
  BY DEF Affirms, Idle

\* Refuse keeps SettledInv.
LEMMA RefuseSettled ==
    ASSUME IInv, NEW c \in Callers, Refuse(c)
    PROVE  SettledInv'
<1>1. /\ caller[c].pc # "idle" /\ Unmoved /\ wire' = wire /\ Own(c) /\ caller'[c] = Idle
      /\ command'[caller[c].key].state = "accepted" => Row(c).state = "accepted"
  BY RefuseEffect DEF IInv
<1>2. LetsGo /\ TypeInv /\ SoleInv /\ SettledInv
  BY CallerLetsGo DEF IInv
<1> QED
  BY <1>1, <1>2, AllQuietStays, NotAffirmed, CallerSettled

\* Enter keeps SettledInv.
LEMMA EnterSettled ==
    ASSUME IInv, NEW c \in Callers, Enter(c)
    PROVE  SettledInv'
<1>1. /\ caller[c].pc # "idle" /\ Unmoved /\ wire' = wire /\ Own(c) /\ command' = command
      /\ caller'[c].pc = "read" \/ (caller'[c].pc = "decided" /\ caller'[c].decision = "reject")
  BY EnterEffect DEF IInv
<1>2. LetsGo /\ TypeInv /\ SoleInv /\ SettledInv
  BY CallerLetsGo DEF IInv
<1>3. ~Affirms(caller'[c]) /\ command'[caller[c].key].state = Row(c).state
  BY <1>1 DEF Affirms, Row
<1> QED
  BY <1>1, <1>2, <1>3, AllQuietStays, CallerSettled

\* Observe keeps SettledInv.
LEMMA ObserveSettled ==
    ASSUME IInv, NEW c \in Callers, Observe(c)
    PROVE  SettledInv'
<1>1. /\ caller[c].pc = "read" /\ Unmoved /\ wire' = wire /\ Own(c) /\ command' = command
      /\ \/ /\ caller'[c].pc = "decided"
            /\ caller'[c].decision = Decision(Intent(c), caller[c].local, repo.rec)
         \/ caller'[c].pc \in {"begin", "head"}
  BY ObserveEffect DEF IInv
<1>2. LetsGo /\ TypeInv /\ PlanInv /\ SoleInv /\ SettledInv
  BY CallerLetsGo DEF IInv
<1>3. caller[c].key \in Keys
  BY <1>1, <1>2, AtWork
<1>4. ASSUME Affirms(caller'[c]), NEW k \in Keys, caller'[c].key = k PROVE Quiet(k)'
  <2>1. Decision(Intent(c), caller[c].local, repo.rec) \in {"accept", "recover"}
    BY <1>1, <1>4 DEF Affirms
  <2>2. \/ Satisfied(intent[caller[c].key], repo.rec)
        \/ intent[caller[c].key].kind = "like" /\ Matching(repo.rec) # {}
    BY <2>1 DEF Decision, Intent
  <2>3. caller[c].key = k
    BY <1>2, <1>4, CommandConstants DEF LetsGo
  <2>4. Quiet(k)
    BY <1>2, <2>2, <2>3, DoneIsQuiet
  <2> QED
    BY <1>1, <1>2, <2>4, AllQuietStays
<1>5. command'[caller[c].key].state = Row(c).state
  BY <1>1 DEF Row
<1> QED
  BY <1>1, <1>2, <1>4, <1>5, AllQuietStays, CallerSettled

\* Unstable keeps SettledInv.
LEMMA UnstableSettled ==
    ASSUME IInv, NEW c \in Callers, Unstable(c)
    PROVE  SettledInv'
<1>1. /\ caller[c].pc # "idle" /\ wire' = wire /\ Own(c) /\ command' = command
      /\ \/ caller'[c].pc = "read"
         \/ caller'[c].pc = "decided" /\ caller'[c].decision \in {"reject", "unresolved"}
  BY UnstableEffect DEF IInv
<1>2. LetsGo /\ TypeInv /\ PlanInv /\ SoleInv /\ SettledInv
  BY CallerLetsGo DEF IInv
<1>3. repo'.head = repo.head + 1
  BY <1>2, UnstableEffect DEF TypeInv, WorldOK
<1>4. \A k \in Keys : Quiet(k)'
  BY <1>1, <1>2, <1>3, HeadMovesQuiet
<1>5. ~Affirms(caller'[c]) /\ command'[caller[c].key].state = Row(c).state
  BY <1>1 DEF Affirms, Row
<1> QED
  BY <1>1, <1>2, <1>4, <1>5, CallerSettled

\* Conclude keeps SettledInv.
LEMMA ConcludeSettled ==
    ASSUME IInv, NEW c \in Callers, Conclude(c)
    PROVE  SettledInv'
<1>1. /\ caller[c].pc = "decided" /\ Unmoved /\ wire' = wire /\ Own(c) /\ caller'[c] = Idle
      /\ command'[caller[c].key].state = "accepted" =>
            Row(c).state = "accepted" \/ caller[c].decision \in {"accept", "recover"}
  BY ConcludeEffect DEF IInv
<1>2. LetsGo /\ TypeInv /\ SoleInv /\ SettledInv
  BY CallerLetsGo DEF IInv
<1>3. command'[caller[c].key].state = "accepted" =>
         Row(c).state = "accepted" \/ Affirms(caller[c])
  BY <1>1 DEF Affirms
<1> QED
  BY <1>1, <1>2, <1>3, AllQuietStays, NotAffirmed, CallerSettled

\* ReadHead keeps SettledInv.
LEMMA ReadHeadSettled ==
    ASSUME IInv, NEW c \in Callers, ReadHead(c)
    PROVE  SettledInv'
<1>1. /\ caller[c].pc # "idle" /\ Unmoved /\ wire' = wire /\ Own(c) /\ command' = command
      /\ caller'[c].pc = "begin"
  BY ReadHeadEffect DEF IInv
<1>2. LetsGo /\ TypeInv /\ SoleInv /\ SettledInv
  BY CallerLetsGo DEF IInv
<1>3. ~Affirms(caller'[c]) /\ command'[caller[c].key].state = Row(c).state
  BY <1>1 DEF Affirms, Row
<1> QED
  BY <1>1, <1>2, <1>3, AllQuietStays, CallerSettled

\* Receive keeps SettledInv.
LEMMA ReceiveSettled ==
    ASSUME IInv, NEW c \in Callers, Receive(c)
    PROVE  SettledInv'
<1>1. /\ caller[c].pc = "replied" /\ Unmoved /\ wire' = wire /\ Own(c)
      /\ Gives(Row(c), command'[caller[c].key], Outcome(c))
      /\ Outcome(c) = "accepted" => caller[c].reply = "ok"
      /\ \/ caller'[c] = Idle
         \/ caller[c].reply # "ok" /\ caller'[c].pc = "read"
  BY ReceiveEffect DEF IInv
<1>2. LetsGo /\ TypeInv /\ SoleInv /\ SettledInv
  BY CallerLetsGo DEF IInv
<1>3. ~Affirms(caller'[c])
  BY <1>1, NotAffirmed
<1>4. command'[caller[c].key].state = "accepted" =>
         Row(c).state = "accepted" \/ (Affirms(caller[c]) /\ caller'[c] = Idle)
  BY <1>1 DEF Affirms, Gives
<1> QED
  BY <1>1, <1>2, <1>3, <1>4, AllQuietStays, CallerSettled

\* TimeOut keeps SettledInv.
LEMMA TimeOutSettled ==
    ASSUME IInv, NEW c \in Callers, TimeOut(c)
    PROVE  SettledInv'
<1>1. /\ caller[c].pc # "idle" /\ Unmoved /\ wire' = Abandoned(c) /\ Own(c)
      /\ Gives(Row(c), command'[caller[c].key], "ambiguous") /\ caller'[c] = Idle
  BY TimeOutEffect DEF IInv
<1>2. LetsGo /\ TypeInv /\ SoleInv /\ SettledInv
  BY CallerLetsGo DEF IInv
<1>3. command'[caller[c].key].state = "accepted" => Row(c).state = "accepted"
  BY <1>1 DEF Gives
<1> QED
  BY <1>1, <1>2, <1>3, AllQuietStays, NotAffirmed, CallerSettled

\* Crash keeps SettledInv.
LEMMA CrashSettled ==
    ASSUME IInv, NEW c \in Callers, Crash(c)
    PROVE  SettledInv'
<1>1. /\ caller[c].pc # "idle" /\ Unmoved /\ wire' = Abandoned(c) /\ Own(c)
      /\ command' = command /\ caller'[c] = Idle
  BY CrashEffect DEF IInv
<1>2. LetsGo /\ TypeInv /\ SoleInv /\ SettledInv
  BY CallerLetsGo DEF IInv
<1>3. command'[caller[c].key].state = Row(c).state
  BY <1>1 DEF Row
<1> QED
  BY <1>1, <1>2, <1>3, AllQuietStays, NotAffirmed, CallerSettled

\* A dispatch begins for a key that nobody else serves and that is still open.
LEMMA BeginSettled ==
    ASSUME IInv, NEW c \in Callers, Begin(c)
    PROVE  SettledInv'
<1> DEFINE key == caller[c].key
<1>1. /\ caller[c].pc = "begin" /\ Unmoved /\ Own(c)
      /\ \/ command' = command /\ wire' = wire /\ caller'[c] = Idle
         \/ /\ command'[key].state = "dispatching"
            /\ \E w \in Requests : wire' = wire \cup {w} /\ w.key = key
            /\ caller'[c].pc = "sent"
  BY BeginEffect DEF IInv
<1>2. LetsGo /\ TypeInv /\ SoleInv /\ SettledInv
  BY CallerLetsGo DEF IInv
<1>3. ~Affirms(caller'[c])
  BY <1>1, NotAffirmed
<1>4. CASE command' = command /\ wire' = wire /\ caller'[c] = Idle
  <2>1. command'[key].state = Row(c).state
    BY <1>4 DEF Row
  <2> QED
    BY <1>1, <1>2, <1>3, <1>4, <2>1, AllQuietStays, CallerSettled
<1>5. CASE command'[key].state = "dispatching"
  <2>1. key \in Keys /\ \A d \in Callers : d # c => caller'[d] = caller[d]
    BY <1>1, <1>2, AtWork DEF Own, TypeInv
  <2>2. ASSUME NEW k \in Keys, ~raced'[k] PROVE Settled(k)'
    <3>1. Sole(k) /\ Settled(k)
      BY <1>2, <2>2 DEF LetsGo, SoleInv, SettledInv
    <3>2. CASE k = key
      <4>1. \A d \in Callers : caller'[d].key = k => d = c
        BY <1>2, <3>1, <3>2, CommandConstants DEF LetsGo, Sole
      <4> QED
        BY <1>3, <1>5, <3>2, <4>1 DEF Settled
    <3>3. CASE k # key
      <4>1. command'[k] = command[k]
        BY <1>1, <1>2, <2>1, <3>3 DEF Own, TypeInv
      <4>2. Quiet(k) => Quiet(k)'
        BY <1>1, <3>3 DEF Quiet, Live, Unmoved
      <4>3. ASSUME NEW d \in Callers, caller'[d].key = k, Affirms(caller'[d])
            PROVE  Affirms(caller[d])
        BY <1>3, <2>1, <4>3
      <4> QED
        BY <1>2, <3>1, <4>1, <4>2, <4>3, SettledStep
    <3> QED
      BY <3>2, <3>3
  <2> QED
    BY <2>2 DEF SettledInv
<1> QED
  BY <1>1, <1>4, <1>5

\* Serve keeps SettledInv.
LEMMA ServeSettled ==
    ASSUME IInv, NEW w \in wire,
           NEW answer \in {"ok", "invalid_swap", "rejected", "rate_limited"},
           Serve(w, answer)
    PROVE  SettledInv'
<1>1. TypeInv /\ PlanInv /\ SoleInv /\ SettledInv /\ LetsGo
  BY ServeLetsGo DEF IInv
<1>2. w.caller # Nobody => caller[w.caller].pc = "sent"
  BY <1>1, Waits
<1>3. /\ command' = command /\ wire' \subseteq wire
      /\ \/ answer # "ok" /\ repo' = repo
         \/ repo'.head = repo.head + 1
      /\ \/ caller' = caller
         \/ /\ w.caller \in Callers
            /\ caller' = [caller EXCEPT ![w.caller] = caller'[w.caller]]
            /\ caller'[w.caller].pc = "replied" /\ caller'[w.caller].reply = answer
  BY <1>1, <1>2, ServeEffect
<1>4. ASSUME NEW k \in Keys, ~raced'[k] PROVE Settled(k)'
  <2>1. Sole(k) /\ Settled(k)
    BY <1>1, <1>4 DEF LetsGo, SoleInv, SettledInv
  <2>2. CASE repo' = repo /\ answer # "ok"
    <3>1. Quiet(k) => Quiet(k)'
      BY <1>1, <1>3, <2>2, QuietStays
    <3>2. ASSUME NEW d \in Callers, Affirms(caller'[d]) PROVE Affirms(caller[d])
      BY <1>1, <1>3, <2>2, <3>2 DEF TypeInv, Affirms
    <3> QED
      BY <1>1, <1>3, <2>1, <3>1, <3>2, SettledStep
  <2>3. CASE repo'.head = repo.head + 1
    <3>1. Quiet(k)'
      BY <1>1, <1>3, <2>3, HeadMovesQuiet
    <3> QED
      BY <1>1, <1>3, <2>1, <3>1, SettledStep
  <2> QED
    BY <1>3, <2>2, <2>3
<1> QED
  BY <1>4 DEF SettledInv

\* Prepare keeps SettledInv.
LEMMA PrepareSettled ==
    ASSUME IInv, NEW c \in Callers, NEW k \in Keys, Prepare(c, k)
    PROVE  SettledInv'
<1>1. TypeInv /\ SettledInv
  BY DEF IInv
<1>2. /\ repo' = repo /\ wire' = wire
      /\ raced' = [raced EXCEPT ![k] = raced[k] \/ \E d \in Callers : caller[d].key = k]
      /\ command' = [command EXCEPT ![k] = command'[k]]
      /\ caller' = [caller EXCEPT ![c] = caller'[c]]
      /\ caller'[c].pc = "prepared" /\ caller'[c].key = k
      /\ command'[k].state \in Pending
  BY <1>1, PrepareEffect DEF Pending
<1>3. \A d \in Callers : d # c => caller'[d] = caller[d]
  BY <1>1, <1>2 DEF TypeInv
<1>4. ASSUME NEW j \in Keys, ~raced'[j] PROVE Settled(j)'
  <2>1. ~raced[j]
    BY <1>1, <1>2, <1>4 DEF TypeInv, WorldOK
  <2>2. Settled(j) /\ (Quiet(j) => Quiet(j)')
    BY <1>1, <1>2, <2>1 DEF SettledInv, Quiet, Live
  <2>3. command'[j].state = "accepted" => j # k /\ command[j].state = "accepted"
    BY <1>1, <1>2 DEF TypeInv, Pending
  <2>4. ~Affirms(caller'[c])
    BY <1>2, NotAffirmed
  <2> QED
    BY <1>2, <1>3, <2>2, <2>3, <2>4 DEF Settled
<1> QED
  BY <1>4 DEF SettledInv

\* Lose keeps SettledInv.
LEMMA LoseSettled ==
    ASSUME IInv, NEW w \in wire, Lose(w)
    PROVE  SettledInv'
<1>1. UNCHANGED <<repo, command, caller, raced>> /\ wire' \subseteq wire
  BY DEF Lose
<1>2. \A k \in Keys : Quiet(k) => Quiet(k)'
  BY <1>1 DEF Quiet, Live
<1> QED
  BY <1>1, <1>2 DEF IInv, SettledInv, Settled

\* Compact keeps SettledInv.
LEMMA CompactSettled ==
    ASSUME IInv, NEW k \in Keys, Compact(k)
    PROVE  SettledInv'
<1>1. /\ UNCHANGED <<repo, wire, caller, raced>>
      /\ command' = [command EXCEPT ![k] = Spent] /\ Spent.state = "spent"
  BY CompactEffect DEF IInv, Unmoved
<1>2. \A j \in Keys : command'[j].state = "accepted" => command[j].state = "accepted"
  BY <1>1 DEF IInv, TypeInv
<1>3. \A j \in Keys : Quiet(j) => Quiet(j)'
  BY <1>1 DEF Quiet, Live
<1> QED
  BY <1>1, <1>2, <1>3 DEF IInv, SettledInv, Settled

\* Elsewhere keeps SettledInv.
LEMMA ElsewhereSettled ==
    ASSUME IInv, NEW u \in Uris, NEW content \in Contents, Elsewhere(u, content)
    PROVE  SettledInv'
<1>1. /\ UNCHANGED <<command, wire, caller, raced>> /\ repo'.head = repo.head + 1
      /\ TypeInv /\ PlanInv
  BY ElsewhereEffect DEF IInv
<1>2. \A k \in Keys : Quiet(k)'
  BY <1>1, HeadMovesQuiet
<1> QED
  BY <1>1, <1>2 DEF IInv, SettledInv, Settled

\* SettledInv where rows, callers, requests and records are as before.
LEMMA SameSettled ==
    ASSUME SettledInv, UNCHANGED <<repo, command, wire, caller, raced>>
    PROVE  SettledInv'
  BY DEF SettledInv, Settled, Quiet

----------------------------------------------------------------------------
(* At most one effect.                                                     *)

\* A step that does not touch a key, or only loses its requests.
LEMMA OnceElsewhere ==
    ASSUME NEW k \in Keys, KeyOnce(k), landed'[k] = landed[k],
           \A w \in wire' : w.key = k => w \in wire,
           CleanRow(command'[k]) => CleanRow(command[k]),
           \A d \in Callers : caller'[d].key = k => caller'[d] = caller[d]
    PROVE  KeyOnce(k)'
<1>1. Clean(k) => Clean(k)'
  BY DEF Clean
<1>2. ASSUME NEW d \in Callers, caller'[d].key = k PROVE CallerOnce(d, k)'
  BY <1>1, <1>2 DEF KeyOnce, CallerOnce
<1> QED
  BY <1>1, <1>2 DEF KeyOnce

\* An abandoned request is still the only one.
LEMMA AbandonedOne ==
    ASSUME TypeInv, NEW c \in Callers, NEW k,
           \A v, w \in wire : v.key = k /\ w.key = k => v = w
    PROVE  \A v, w \in Abandoned(c) : v.key = k /\ w.key = k => v = w
<1> DEFINE Gone(v) == IF v.caller = c THEN [v EXCEPT !.caller = Nobody] ELSE v
<1>1. ASSUME NEW v \in wire PROVE Gone(v).key = v.key
  <2>1. v \in Requests
    BY DEF TypeInv, RequestOK
  <2> QED
    BY <2>1 DEF Requests
<1>2. \A w \in Abandoned(c) : \E v \in wire : w = Gone(v)
  BY DEF Abandoned
<1> HIDE DEF Gone
<1> QED
  BY <1>1, <1>2

\* A step of the sole caller of a key that sends nothing.
LEMMA OnceOwn ==
    ASSUME TypeInv, NEW c \in Callers, NEW k \in Keys, caller[c].key = k,
           LetsGo, landed' = landed, Sole(k), KeyOnce(k),
           wire' = wire \/ wire' = Abandoned(c),
           CleanRow(command'[k]) => Clean(k),
           caller'[c].key = k => CallerOnce(c, k)'
    PROVE  KeyOnce(k)'
<1>1. \A w \in wire' : \E v \in wire : v.key = w.key
  BY AbandonedOK
<1>2. Clean(k) => Clean(k)'
  BY <1>1 DEF Clean
<1>3. \A v, w \in wire' : v.key = k /\ w.key = k => v = w
  BY AbandonedOne DEF KeyOnce
<1>4. ASSUME NEW d \in Callers, caller'[d].key = k PROVE CallerOnce(d, k)'
  <2>1. d = c
    BY <1>4, CommandConstants DEF LetsGo, Sole
  <2> QED
    BY <1>4, <2>1
<1>5. landed'[k] <= 1 /\ \A w \in wire' : w.key = k => landed'[k] = 0
  BY <1>1 DEF KeyOnce
<1> QED
  BY <1>2, <1>3, <1>4, <1>5 DEF KeyOnce

\* The same, and what it means for the other keys.
LEMMA CallerKeepsOnce ==
    ASSUME IInv, NEW c \in Callers, caller[c].pc # "idle", Own(c), LetsGo,
           UNCHANGED <<intent, landed>>,
           wire' = wire \/ wire' = Abandoned(c),
           ASSUME NEW k \in Keys, caller[c].key = k, Once(k), KeyOnce(k), Sole(k)
           PROVE  /\ CleanRow(command'[k]) => Clean(k)
                  /\ caller'[c].key = k => CallerOnce(c, k)'
    PROVE  OnceInv'
<1>1. TypeInv /\ PlanInv /\ SoleInv /\ OnceInv
  BY DEF IInv
<1>2. ASSUME NEW j \in Keys, Once(j)', ~raced'[j] PROVE KeyOnce(j)'
  <2>1. Once(j) /\ KeyOnce(j) /\ Sole(j)
    BY <1>1, <1>2 DEF Once, LetsGo, OnceInv, SoleInv
  <2>2. CASE caller[c].key = j
    <3>1. /\ CleanRow(command'[j]) => Clean(j)
          /\ caller'[c].key = j => CallerOnce(c, j)'
      BY <2>1, <2>2
    <3> QED
      BY <1>1, <2>1, <2>2, <3>1, OnceOwn
  <2>3. CASE caller[c].key # j
    <3>1. command'[j] = command[j] /\ landed'[j] = landed[j]
      BY <1>1, <2>3 DEF Own, TypeInv
    <3>2. ASSUME NEW d \in Callers, caller'[d].key = j PROVE caller'[d] = caller[d]
      BY <1>1, <2>3, <3>2, CommandConstants DEF Own, TypeInv, LetsGo
    <3>3. ASSUME NEW w \in wire', w.key = j PROVE w \in wire
      <4>1. CASE wire' = Abandoned(c)
        <5>1. PICK v \in wire : w = IF v.caller = c THEN [v EXCEPT !.caller = Nobody] ELSE v
          BY <4>1 DEF Abandoned
        <5>2. v \in Requests
          BY <1>1 DEF TypeInv, RequestOK
        <5>3. v.key = j
          BY <3>3, <5>1, <5>2 DEF Requests
        <5>4. v.caller # c
          BY <1>1, <2>3, <5>3, CommandConstants DEF PlanInv, RequestPlan
        <5> QED
          BY <5>1, <5>4
      <4> QED
        BY <4>1
    <3> QED
      BY <2>1, <3>1, <3>2, <3>3, OnceElsewhere
  <2> QED
    BY <2>2, <2>3
<1> QED
  BY <1>2 DEF OnceInv

\* A row that a step without a dispatch makes clean was clean before.
LEMMA MovedClean ==
    ASSUME NEW row, RowOK(row), NEW new, Moved(row, new), Unrefused(row, new),
           CleanRow(new)
    PROVE  CleanRow(row)
<1>1. CASE new.state \in {"none", "prepared"}
  BY <1>1 DEF Moved, CleanRow, Verdicts
<1>2. CASE new.dispatches # <<>> /\ LastOutcome(new) \in Definite \cup {"rejected"}
  <2>1. row.dispatches # <<>>
    <3>1. Len(new.dispatches) # 0 /\ Len(new.dispatches) = Len(row.dispatches)
      BY <1>2, EmptySeq DEF Moved, RowOK, Rows
    <3> QED
      BY <3>1
  <2>2. LastOutcome(row) = LastOutcome(new)
    BY <1>2, <2>1 DEF Unrefused, Definite
  <2> QED
    BY <1>2, <2>1, <2>2 DEF CleanRow
<1> QED
  BY <1>1, <1>2 DEF CleanRow

\* A caller that leaves without a refusal of the PDS.
LEMMA LeaveOnce ==
    ASSUME IInv, NEW c \in Callers, caller[c].pc # "idle", Own(c), LetsGo, Unmoved,
           wire' = wire \/ wire' = Abandoned(c), caller'[c] = Idle,
           Moved(Row(c), command'[caller[c].key]),
           Unrefused(Row(c), command'[caller[c].key])
    PROVE  OnceInv'
<1>1. TypeInv
  BY DEF IInv
<1>2. ASSUME NEW k \in Keys, caller[c].key = k, KeyOnce(k)
      PROVE  /\ CleanRow(command'[k]) => Clean(k)
             /\ caller'[c].key = k => CallerOnce(c, k)'
  <2>1. RowOK(command[k]) /\ Row(c) = command[k]
    BY <1>1, <1>2 DEF TypeInv, Row
  <2>2. CleanRow(command'[k]) => CleanRow(command[k])
    BY <1>2, <2>1, MovedClean
  <2> QED
    BY <1>2, <2>2, IdleKey, CommandConstants DEF KeyOnce
<1> QED
  BY <1>2, CallerKeepsOnce DEF Unmoved

\* An abandoned dispatch that becomes uncertain refuses nothing.
LEMMA AmbiguousUnrefused ==
    ASSUME NEW row, NEW new, Gives(row, new, "ambiguous")
    PROVE  Unrefused(row, new)
  BY DEF Gives, Unrefused

\* Refuse keeps OnceInv.
LEMMA RefuseOnce ==
    ASSUME IInv, NEW c \in Callers, Refuse(c)
    PROVE  OnceInv'
<1>1. TypeInv /\ LetsGo
  BY CallerLetsGo DEF IInv
<1> QED
  BY <1>1, RefuseEffect, LeaveOnce

\* Conclude keeps OnceInv.
LEMMA ConcludeOnce ==
    ASSUME IInv, NEW c \in Callers, Conclude(c)
    PROVE  OnceInv'
<1>1. TypeInv /\ LetsGo
  BY CallerLetsGo DEF IInv
<1> QED
  BY <1>1, ConcludeEffect, LeaveOnce

\* TimeOut keeps OnceInv.
LEMMA TimeOutOnce ==
    ASSUME IInv, NEW c \in Callers, TimeOut(c)
    PROVE  OnceInv'
<1>1. TypeInv /\ LetsGo
  BY CallerLetsGo DEF IInv
<1>2. /\ caller[c].pc # "idle" /\ Own(c) /\ Unmoved /\ wire' = Abandoned(c)
      /\ caller'[c] = Idle /\ Moved(Row(c), command'[caller[c].key])
      /\ Gives(Row(c), command'[caller[c].key], "ambiguous")
  BY <1>1, TimeOutEffect
<1>3. Unrefused(Row(c), command'[caller[c].key])
  BY <1>2, AmbiguousUnrefused
<1> QED
  BY <1>1, <1>2, <1>3, LeaveOnce

\* Crash keeps OnceInv.
LEMMA CrashOnce ==
    ASSUME IInv, NEW c \in Callers, Crash(c)
    PROVE  OnceInv'
<1>1. TypeInv /\ LetsGo
  BY CallerLetsGo DEF IInv
<1>2. /\ caller[c].pc # "idle" /\ Own(c) /\ Unmoved /\ wire' = Abandoned(c)
      /\ caller'[c] = Idle /\ command'[caller[c].key] = Row(c)
  BY <1>1, CrashEffect DEF Row
<1>3. Moved(Row(c), Row(c)) /\ Unrefused(Row(c), Row(c))
  BY <1>1, <1>2, AtWork, SameRow
<1> QED
  BY <1>1, <1>2, <1>3, LeaveOnce

\* What a caller knows when it enters holds of the key.
LEMMA EnterOnce ==
    ASSUME IInv, NEW c \in Callers, Enter(c)
    PROVE  OnceInv'
<1>1. /\ caller[c].pc = "prepared" /\ Own(c) /\ Unmoved /\ wire' = wire /\ command' = command
      /\ caller'[c].pc \in {"read", "decided"}
      /\ caller'[c].local = caller[c].local \/
           (Row(c).dispatches # <<>> /\ LastOutcome(Row(c)) \in Definite)
  BY EnterEffect DEF IInv
<1>2. ASSUME NEW k \in Keys, caller[c].key = k, KeyOnce(k)
      PROVE  /\ CleanRow(command'[k]) => Clean(k)
             /\ caller'[c].key = k => CallerOnce(c, k)'
  <2>1. CallerOnce(c, k) /\ (CleanRow(command[k]) => Clean(k)) /\ Row(c) = command[k]
    BY <1>2 DEF KeyOnce, Row
  <2>2. caller'[c].local = "prepared" => Clean(k)
    BY <1>1, <2>1 DEF CallerOnce, CleanRow
  <2>3. Clean(k) => Clean(k)'
    BY <1>1 DEF Clean, Unmoved
  <2> QED
    BY <1>1, <2>1, <2>2, <2>3 DEF CallerOnce
<1>3. LetsGo
  BY CallerLetsGo DEF IInv
<1> QED
  BY <1>1, <1>2, <1>3, CallerKeepsOnce DEF Unmoved

\* Observe keeps OnceInv.
LEMMA ObserveOnce ==
    ASSUME IInv, NEW c \in Callers, Observe(c)
    PROVE  OnceInv'
<1>1. /\ caller[c].pc = "read" /\ Own(c) /\ Unmoved /\ wire' = wire /\ command' = command
      /\ caller'[c].local = caller[c].local
      /\ \/ caller'[c].pc = "decided"
         \/ /\ caller'[c].pc \in {"head", "begin"}
            /\ Decision(Intent(c), caller[c].local, repo.rec) = "dispatch"
  BY ObserveEffect DEF IInv
<1>2. ASSUME NEW k \in Keys, caller[c].key = k, Once(k), KeyOnce(k)
      PROVE  /\ CleanRow(command'[k]) => Clean(k)
             /\ caller'[c].key = k => CallerOnce(c, k)'
  <2>1. CallerOnce(c, k) /\ (CleanRow(command'[k]) => Clean(k))
    BY <1>1, <1>2 DEF KeyOnce
  <2>2. caller'[c].pc # "decided" => caller[c].local = "prepared"
    BY <1>1, <1>2, DispatchPlan DEF IInv, TypeInv, Once, Intent
  <2>3. Clean(k) => Clean(k)'
    BY <1>1 DEF Clean, Unmoved
  <2> QED
    BY <1>1, <2>1, <2>2, <2>3 DEF CallerOnce
<1>3. LetsGo
  BY CallerLetsGo DEF IInv
<1> QED
  BY <1>1, <1>2, <1>3, CallerKeepsOnce DEF Unmoved

\* Unstable keeps OnceInv.
LEMMA UnstableOnce ==
    ASSUME IInv, NEW c \in Callers, Unstable(c)
    PROVE  OnceInv'
<1>1. /\ caller[c].pc = "read" /\ Own(c) /\ UNCHANGED <<intent, landed>> /\ wire' = wire
      /\ command' = command /\ caller'[c].local = caller[c].local
      /\ caller'[c].pc \in {"read", "decided"}
  BY UnstableEffect DEF IInv
<1>2. ASSUME NEW k \in Keys, caller[c].key = k, KeyOnce(k)
      PROVE  /\ CleanRow(command'[k]) => Clean(k)
             /\ caller'[c].key = k => CallerOnce(c, k)'
  <2>1. CallerOnce(c, k) /\ (CleanRow(command'[k]) => Clean(k))
    BY <1>1, <1>2 DEF KeyOnce
  <2>2. Clean(k) => Clean(k)'
    BY <1>1 DEF Clean
  <2> QED
    BY <1>1, <2>1, <2>2 DEF CallerOnce
<1>3. LetsGo
  BY CallerLetsGo DEF IInv
<1> QED
  BY <1>1, <1>2, <1>3, CallerKeepsOnce

\* ReadHead keeps OnceInv.
LEMMA ReadHeadOnce ==
    ASSUME IInv, NEW c \in Callers, ReadHead(c)
    PROVE  OnceInv'
<1>1. /\ caller[c].pc = "head" /\ Own(c) /\ Unmoved /\ wire' = wire /\ command' = command
      /\ caller'[c].local = caller[c].local /\ caller'[c].pc = "begin"
  BY ReadHeadEffect DEF IInv
<1>2. ASSUME NEW k \in Keys, caller[c].key = k, KeyOnce(k)
      PROVE  /\ CleanRow(command'[k]) => Clean(k)
             /\ caller'[c].key = k => CallerOnce(c, k)'
  <2>1. CallerOnce(c, k) /\ (CleanRow(command'[k]) => Clean(k))
    BY <1>1, <1>2 DEF KeyOnce
  <2>2. Clean(k) => Clean(k)'
    BY <1>1 DEF Clean, Unmoved
  <2> QED
    BY <1>1, <2>1, <2>2 DEF CallerOnce
<1>3. LetsGo
  BY CallerLetsGo DEF IInv
<1> QED
  BY <1>1, <1>2, <1>3, CallerKeepsOnce DEF Unmoved

\* A caller that was refused for certain knows that nothing took effect.
LEMMA ReceiveOnce ==
    ASSUME IInv, NEW c \in Callers, Receive(c)
    PROVE  OnceInv'
<1>1. /\ caller[c].pc = "replied" /\ Own(c) /\ Unmoved /\ wire' = wire
      /\ Moved(Row(c), command'[caller[c].key])
      /\ Gives(Row(c), command'[caller[c].key], Outcome(c))
      /\ Outcome(c) \in Definite \cup {"rejected"} => caller[c].reply # "ok"
      /\ \/ caller'[c] = Idle
         \/ caller[c].reply # "ok" /\ caller'[c].pc = "read"
  BY ReceiveEffect DEF IInv
<1>2. ASSUME NEW k \in Keys, caller[c].key = k, KeyOnce(k)
      PROVE  /\ CleanRow(command'[k]) => Clean(k)
             /\ caller'[c].key = k => CallerOnce(c, k)'
  <2>1. CallerOnce(c, k) /\ (CleanRow(command[k]) => Clean(k)) /\ Row(c) = command[k]
    BY <1>2 DEF KeyOnce, Row
  <2>2. caller[c].reply # "ok" => Clean(k) /\ Clean(k)'
    BY <1>1, <2>1 DEF CallerOnce, Clean, Unmoved
  <2>3. CleanRow(command'[k]) => Clean(k)
    <3>1. CASE caller[c].reply # "ok"
      BY <2>2, <3>1
    <3>2. CASE caller[c].reply = "ok"
      <4>1. Unrefused(command[k], command'[k])
        <5>1. Outcome(c) \notin Definite \cup {"rejected"}
          BY <1>1, <3>2
        <5>2. Outcome(c) \in {"accepted", "ambiguous"}
          BY <3>2 DEF Outcome
        <5> QED
          BY <1>1, <1>2, <2>1, <5>2 DEF Gives, Unrefused
      <4>2. RowOK(command[k])
        BY DEF IInv, TypeInv
      <4> QED
        BY <1>1, <1>2, <2>1, <4>1, <4>2, MovedClean
    <3> QED
      BY <3>1, <3>2
  <2>4. caller'[c].key = k => CallerOnce(c, k)'
    BY <1>1, <2>2, IdleKey, CommandConstants DEF CallerOnce
  <2> QED
    BY <2>3, <2>4
<1>3. LetsGo
  BY CallerLetsGo DEF IInv
<1> QED
  BY <1>1, <1>2, <1>3, CallerKeepsOnce DEF Unmoved

\* A dispatch is sent only when nothing of its command took effect or may.
LEMMA BeginOnce ==
    ASSUME IInv, NEW c \in Callers, Begin(c)
    PROVE  OnceInv'
<1>1. TypeInv /\ SoleInv /\ OnceInv /\ LetsGo
  BY CallerLetsGo DEF IInv
<1>2. caller[c].pc = "begin" /\ Own(c) /\ Unmoved
  BY <1>1, BeginEffect
<1>3. CASE command' = command /\ wire' = wire /\ caller'[c] = Idle
  <2>1. Moved(Row(c), Row(c)) /\ Unrefused(Row(c), Row(c))
    BY <1>1, <1>2, AtWork, SameRow
  <2> QED
    BY <1>1, <1>2, <1>3, <2>1, LeaveOnce DEF Row
<1>4. CASE ~(command' = command /\ wire' = wire /\ caller'[c] = Idle)
  <2> DEFINE key == caller[c].key
  <2>1. /\ command'[key].state = "dispatching"
        /\ LastOutcome(command'[key]) = "dispatching"
        /\ caller'[c].pc = "sent" /\ caller'[c].key = key
        /\ caller'[c].local = caller[c].local
    BY <1>1, <1>4, BeginEffect
  <2>2. PICK w \in Requests : wire' = wire \cup {w} /\ w.key = key /\ w.caller = c
    BY <1>1, <1>4, BeginEffect
  <2>3. ASSUME NEW j \in Keys, Once(j)', ~raced'[j] PROVE KeyOnce(j)'
    <3>1. KeyOnce(j) /\ Sole(j) /\ landed' = landed
      BY <1>1, <1>2, <2>3 DEF Once, LetsGo, OnceInv, SoleInv, Unmoved
    <3>2. CASE j = key
      <4>1. Clean(j)
        BY <1>2, <3>1, <3>2 DEF KeyOnce, CallerOnce
      <4>2. ~CleanRow(command'[j])
        BY <2>1, <3>2 DEF CleanRow, Definite
      <4>3. ASSUME NEW d \in Callers, caller'[d].key = j PROVE CallerOnce(d, j)'
        <5>1. d = c
          BY <1>1, <3>1, <3>2, <4>3, CommandConstants DEF LetsGo, Sole
        <5>2. caller[c].local = "prepared"
          BY <1>2, <3>1, <3>2 DEF KeyOnce, CallerOnce
        <5> QED
          BY <2>1, <2>2, <3>1, <3>2, <4>1, <5>1, <5>2 DEF CallerOnce, Clean
      <4> QED
        BY <2>2, <3>1, <4>1, <4>2, <4>3 DEF KeyOnce, Clean
    <3>3. CASE j # key
      <4>1. command'[j] = command[j]
        BY <1>1, <1>2, <3>3 DEF Own, TypeInv
      <4>2. ASSUME NEW d \in Callers, caller'[d].key = j PROVE caller'[d] = caller[d]
        BY <1>1, <1>2, <2>1, <3>3, <4>2 DEF Own, TypeInv
      <4> QED
        BY <2>2, <3>1, <3>3, <4>1, <4>2, OnceElsewhere
    <3> QED
      BY <3>2, <3>3
  <2> QED
    BY <2>3 DEF OnceInv
<1> QED
  BY <1>3, <1>4

\* The PDS takes the one request of a key, or refuses it.
LEMMA ServeOnce ==
    ASSUME IInv, NEW w \in wire,
           NEW answer \in {"ok", "invalid_swap", "rejected", "rate_limited"},
           Serve(w, answer)
    PROVE  OnceInv'
<1>1. TypeInv /\ PlanInv /\ SoleInv /\ OnceInv /\ LetsGo
  BY ServeLetsGo DEF IInv
<1>2. w.caller # Nobody => caller[w.caller].pc = "sent" /\ caller[w.caller].key = w.key
  BY <1>1, Waits
<1>3. /\ intent' = intent /\ command' = command /\ wire' = wire \ {w} /\ w.key \in Keys
      /\ \/ answer # "ok" /\ landed' = landed
         \/ answer = "ok" /\ landed' = [landed EXCEPT ![w.key] = @ + 1]
      /\ \/ w.caller = Nobody /\ caller' = caller
         \/ /\ w.caller \in Callers
            /\ caller' = [caller EXCEPT ![w.caller] = caller'[w.caller]]
            /\ caller'[w.caller].pc = "replied" /\ caller'[w.caller].reply = answer
            /\ caller'[w.caller].key = caller[w.caller].key
            /\ caller'[w.caller].local = caller[w.caller].local
  BY <1>1, <1>2, ServeEffect
<1>4. landed \in [Keys -> Nat] /\ \A d \in Callers : d # w.caller => caller'[d] = caller[d]
  BY <1>1, <1>3 DEF TypeInv, WorldOK
<1>5. ASSUME NEW k \in Keys, Once(k)', ~raced'[k] PROVE KeyOnce(k)'
  <2>1. KeyOnce(k) /\ Sole(k)
    BY <1>1, <1>3, <1>5 DEF Once, LetsGo, OnceInv, SoleInv
  <2>2. CASE k # w.key
    <3>1. landed'[k] = landed[k]
      BY <1>3, <1>4, <2>2
    <3>2. ASSUME NEW d \in Callers, caller'[d].key = k PROVE caller'[d] = caller[d]
      <4>1. CASE d = w.caller
        <5>1. w.caller # Nobody
          BY <4>1, CommandConstants
        <5>2. caller'[d].key = w.key
          BY <1>2, <1>3, <4>1, <5>1
        <5> QED
          BY <2>2, <3>2, <5>2
      <4> QED
        BY <1>4, <4>1
    <3> QED
      BY <1>3, <2>1, <3>1, <3>2, OnceElsewhere
  <2>3. CASE k = w.key
    <3>1. landed[k] = 0 /\ ~Clean(k) /\ ~CleanRow(command[k])
      BY <2>1, <2>3 DEF KeyOnce, Clean
    <3>2. \A v \in wire' : v.key # k
      BY <1>3, <2>1, <2>3 DEF KeyOnce
    <3>3. landed'[k] <= 1 /\ (answer # "ok" => landed'[k] = 0)
      BY <1>3, <1>4, <2>3, <3>1
    <3>4. ASSUME NEW d \in Callers, caller'[d].key = k PROVE CallerOnce(d, k)'
      <4>1. caller[d].key = k
        BY <1>1, <3>4, CommandConstants DEF LetsGo
      <4>2. CallerOnce(d, k)
        BY <2>1, <4>1 DEF KeyOnce
      <4>3. caller[d].pc # "replied" /\ (caller[d].pc = "sent" => w.caller = d)
        BY <2>3, <4>2 DEF CallerOnce
      <4>4. CASE d = w.caller
        <5>1. /\ caller'[d].pc = "replied" /\ caller'[d].reply = answer
              /\ caller'[d].local = "prepared"
          BY <1>2, <1>3, <4>2, <4>4, CommandConstants DEF CallerOnce
        <5> QED
          BY <3>2, <3>3, <5>1 DEF CallerOnce
      <4>5. CASE d # w.caller
        BY <1>4, <3>1, <4>2, <4>3, <4>5 DEF CallerOnce
      <4> QED
        BY <4>4, <4>5
    <3> QED
      BY <1>3, <3>1, <3>2, <3>3, <3>4 DEF KeyOnce
  <2> QED
    BY <2>2, <2>3
<1> QED
  BY <1>5 DEF OnceInv

\* Prepare keeps OnceInv.
LEMMA PrepareOnce ==
    ASSUME IInv, NEW c \in Callers, NEW k \in Keys, Prepare(c, k)
    PROVE  OnceInv'
<1>1. TypeInv /\ OnceInv
  BY DEF IInv
<1>2. /\ UNCHANGED <<intent, landed>> /\ wire' = wire
      /\ raced' = [raced EXCEPT ![k] = raced[k] \/ \E d \in Callers : caller[d].key = k]
      /\ command' = [command EXCEPT ![k] = command'[k]]
      /\ caller' = [caller EXCEPT ![c] = caller'[c]]
      /\ caller'[c].pc = "prepared" /\ caller'[c].key = k
      /\ caller'[c].local = command'[k].state
      /\ CleanRow(command'[k]) => CleanRow(command[k])
  <2>1. NoCommand.state = "none"
    BY DEF NoCommand
  <2> QED
    BY <1>1, <2>1, PrepareEffect DEF CleanRow
<1>3. /\ \A d \in Callers : d # c => caller'[d] = caller[d]
      /\ \A j \in Keys : j # k => command'[j] = command[j]
  BY <1>1, <1>2 DEF TypeInv
<1>4. ASSUME NEW j \in Keys, Once(j)', ~raced'[j] PROVE KeyOnce(j)'
  <2>1. ~raced[j] /\ Once(j)
    BY <1>1, <1>2, <1>4 DEF TypeInv, WorldOK, Once
  <2>2. KeyOnce(j)
    BY <1>1, <2>1 DEF OnceInv
  <2>3. CASE j # k
    <3>1. \A d \in Callers : caller'[d].key = j => caller'[d] = caller[d]
      BY <1>2, <1>3, <2>3
    <3> QED
      BY <1>2, <1>3, <2>2, <2>3, <3>1, OnceElsewhere
  <2>4. CASE j = k
    <3>1. \A d \in Callers : caller'[d].key = j => d = c
      <4>1. raced'[k] = (raced[k] \/ \E d \in Callers : caller[d].key = k)
        BY <1>1, <1>2 DEF TypeInv, WorldOK
      <4>2. \A d \in Callers : caller[d].key # k
        BY <1>4, <2>4, <4>1
      <4> QED
        BY <1>3, <2>4, <4>2
    <3>2. command'[k].state = "prepared" => Clean(k)
      BY <1>2, <2>2, <2>4 DEF CleanRow, KeyOnce
    <3>3. Clean(k) => Clean(k)'
      BY <1>2 DEF Clean
    <3>4. CallerOnce(c, k)'
      BY <1>2, <3>2, <3>3 DEF CallerOnce
    <3> QED
      BY <1>2, <2>2, <2>4, <3>1, <3>3, <3>4 DEF KeyOnce
  <2> QED
    BY <2>3, <2>4
<1> QED
  BY <1>4 DEF OnceInv

\* Lose keeps OnceInv.
LEMMA LoseOnce ==
    ASSUME IInv, NEW w \in wire, Lose(w)
    PROVE  OnceInv'
<1>1. UNCHANGED <<intent, command, caller, landed, raced>> /\ wire' \subseteq wire
  BY DEF Lose
<1>2. ASSUME NEW k \in Keys, Once(k)', ~raced'[k] PROVE KeyOnce(k)'
  <2>1. KeyOnce(k)
    BY <1>1, <1>2 DEF IInv, OnceInv, Once
  <2> QED
    BY <1>1, <2>1, OnceElsewhere
<1> QED
  BY <1>2 DEF OnceInv

\* Compact keeps OnceInv.
LEMMA CompactOnce ==
    ASSUME IInv, NEW k \in Keys, Compact(k)
    PROVE  OnceInv'
<1>1. /\ UNCHANGED <<intent, caller, landed, raced>> /\ wire' = wire
      /\ command' = [command EXCEPT ![k] = Spent] /\ ~CleanRow(Spent)
  BY CompactEffect DEF IInv, Unmoved, CleanRow
<1>2. ASSUME NEW j \in Keys, Once(j)', ~raced'[j] PROVE KeyOnce(j)'
  <2>1. KeyOnce(j)
    BY <1>1, <1>2 DEF IInv, OnceInv, Once
  <2>2. CleanRow(command'[j]) => CleanRow(command[j])
    BY <1>1 DEF IInv, TypeInv
  <2> QED
    BY <1>1, <2>1, <2>2, OnceElsewhere
<1> QED
  BY <1>2 DEF OnceInv

\* OnceInv where rows, callers, requests and effects are as before.
LEMMA SameOnce ==
    ASSUME OnceInv, UNCHANGED <<intent, command, wire, caller, landed, raced>>
    PROVE  OnceInv'
<1>1. ASSUME NEW k \in Keys, Once(k)', ~raced'[k] PROVE KeyOnce(k)'
  <2>1. KeyOnce(k)
    BY <1>1 DEF OnceInv, Once
  <2> QED
    BY <2>1, OnceElsewhere
<1> QED
  BY <1>1 DEF OnceInv

----------------------------------------------------------------------------
(* The invariant.                                                          *)

\* The invariant holds at the start.
LEMMA InitInv == ASSUME Init PROVE IInv
<1>1. /\ wire = {} /\ caller = [c \in Callers |-> Idle]
      /\ command = [k \in Keys |-> NoCommand] /\ landed = [k \in Keys |-> 0]
  BY DEF Init
<1>2. \A c \in Callers : caller[c].pc = "idle" /\ \A k \in Keys : caller[c].key # k
  BY <1>1, IdleKey, CommandConstants
<1>3. PlanInv
  BY <1>1, <1>2 DEF PlanInv, CallerPlan, Fenced
<1>4. SoleInv
  BY <1>2 DEF SoleInv, Sole
<1>5. SettledInv
  BY <1>1, <1>2 DEF SettledInv, Settled, Quiet, NoCommand
<1>6. OnceInv
  BY <1>1, <1>2 DEF OnceInv, KeyOnce, Clean
<1> QED
  BY <1>3, <1>4, <1>5, <1>6, InitTypes DEF IInv

\* Every step of a caller with its command keeps the invariant.
LEMMA CallerInv ==
    ASSUME IInv, NEW c \in Callers,
           \/ Refuse(c) \/ Enter(c) \/ Observe(c) \/ Unstable(c) \/ Conclude(c)
           \/ ReadHead(c) \/ Begin(c) \/ Receive(c) \/ TimeOut(c) \/ Crash(c)
    PROVE  IInv'
<1>1. TypeInv /\ PlanInv
  BY DEF IInv
<1>2. SoleInv'
  BY CallerLetsGo, SoleStays DEF IInv
<1>3. CASE Refuse(c)
  BY <1>1, <1>2, <1>3, RefuseEffect, RefusePlan, RefuseSettled, RefuseOnce DEF IInv
<1>4. CASE Enter(c)
  BY <1>1, <1>2, <1>4, EnterEffect, EnterPlan, EnterSettled, EnterOnce DEF IInv
<1>5. CASE Observe(c)
  BY <1>1, <1>2, <1>5, ObserveEffect, ObservePlan, ObserveSettled, ObserveOnce DEF IInv
<1>6. CASE Unstable(c)
  BY <1>1, <1>2, <1>6, UnstableEffect, UnstablePlan, UnstableSettled, UnstableOnce DEF IInv
<1>7. CASE Conclude(c)
  BY <1>1, <1>2, <1>7, ConcludeEffect, ConcludePlan, ConcludeSettled, ConcludeOnce DEF IInv
<1>8. CASE ReadHead(c)
  BY <1>1, <1>2, <1>8, ReadHeadEffect, ReadHeadPlan, ReadHeadSettled, ReadHeadOnce DEF IInv
<1>9. CASE Begin(c)
  BY <1>1, <1>2, <1>9, BeginEffect, BeginPlan, BeginSettled, BeginOnce DEF IInv
<1>10. CASE Receive(c)
  BY <1>1, <1>2, <1>10, ReceiveEffect, ReceivePlan, ReceiveSettled, ReceiveOnce DEF IInv
<1>11. CASE TimeOut(c)
  BY <1>1, <1>2, <1>11, TimeOutEffect, TimeOutPlan, TimeOutSettled, TimeOutOnce DEF IInv
<1>12. CASE Crash(c)
  BY <1>1, <1>2, <1>12, CrashEffect, CrashPlan, CrashSettled, CrashOnce DEF IInv
<1> QED
  BY <1>3, <1>4, <1>5, <1>6, <1>7, <1>8, <1>9, <1>10, <1>11, <1>12

\* Prepare keeps the invariant.
LEMMA PrepareInv ==
    ASSUME IInv, NEW c \in Callers, NEW k \in Keys, Prepare(c, k)
    PROVE  IInv'
<1>1. TypeInv /\ PlanInv /\ SoleInv
  BY DEF IInv
<1>2. TypeInv'
  BY <1>1, PrepareEffect
<1> QED
  BY <1>1, <1>2, PreparePlan, PrepareSole, PrepareSettled, PrepareOnce DEF IInv

\* Serve keeps the invariant.
LEMMA ServeInv ==
    ASSUME IInv, NEW w \in wire,
           NEW answer \in {"ok", "invalid_swap", "rejected", "rate_limited"},
           Serve(w, answer)
    PROVE  IInv'
<1>1. TypeInv /\ PlanInv /\ SoleInv
  BY DEF IInv
<1>2. w.caller # Nobody => caller[w.caller].pc = "sent"
  BY <1>1, Waits
<1>3. TypeInv'
  BY <1>1, <1>2, ServeEffect
<1>4. SoleInv'
  BY <1>1, ServeLetsGo, SoleStays
<1> QED
  BY <1>1, <1>3, <1>4, ServePlan, ServeSettled, ServeOnce DEF IInv

\* Lose keeps the invariant.
LEMMA LoseInv == ASSUME IInv, NEW w \in wire, Lose(w) PROVE IInv'
<1>1. TypeInv /\ PlanInv /\ SoleInv
  BY DEF IInv
<1>2. SoleInv'
  BY <1>1 DEF Lose, SoleInv, Sole
<1> QED
  BY <1>1, <1>2, LoseTypes, LosePlan, LoseSettled, LoseOnce DEF IInv

\* Compact keeps the invariant.
LEMMA CompactInv == ASSUME IInv, NEW k \in Keys, Compact(k) PROVE IInv'
<1>1. TypeInv /\ PlanInv /\ SoleInv
  BY DEF IInv
<1>2. TypeInv' /\ Unmoved /\ wire' = wire /\ caller' = caller
  BY <1>1, CompactEffect
<1>3. PlanInv' /\ SoleInv'
  BY <1>1, <1>2, SamePlan DEF Unmoved, SoleInv, Sole
<1> QED
  BY <1>2, <1>3, CompactSettled, CompactOnce DEF IInv

\* Move keeps the invariant.
LEMMA MoveInv == ASSUME IInv, NEW to \in States, Move(to) PROVE IInv'
<1>1. /\ UNCHANGED <<intent, repo, command, wire, caller, landed, raced>>
      /\ \A c \in Callers : ~Fenced(c)
  BY DEF Move
<1>2. TypeInv /\ PlanInv /\ SoleInv /\ SettledInv /\ OnceInv
  BY DEF IInv
<1>3. SoleInv'
  BY <1>1, <1>2 DEF SoleInv, Sole
<1> QED
  BY <1>1, <1>2, <1>3, MoveTypes, SamePlan, SameSettled, SameOnce DEF IInv

\* Elsewhere keeps the invariant.
LEMMA ElsewhereInv ==
    ASSUME IInv, NEW u \in Uris, NEW content \in Contents, Elsewhere(u, content)
    PROVE  IInv'
<1>1. TypeInv /\ PlanInv /\ SoleInv /\ OnceInv
  BY DEF IInv
<1>2. TypeInv' /\ UNCHANGED <<intent, command, wire, caller, landed, raced>>
  BY <1>1, ElsewhereEffect
<1>3. SoleInv'
  BY <1>1, <1>2 DEF SoleInv, Sole
<1> QED
  BY <1>1, <1>2, <1>3, ElsewherePlan, ElsewhereSettled, SameOnce DEF IInv

\* The invariant survives stuttering.
LEMMA StutterInv == ASSUME IInv, UNCHANGED vars PROVE IInv'
<1>1. UNCHANGED <<life, intent, repo, command, wire, caller, landed, raced>>
  BY DEF vars
<1>2. TypeInv /\ PlanInv /\ SoleInv /\ SettledInv /\ OnceInv
  BY DEF IInv
<1>3. TypeInv' /\ SoleInv'
  BY <1>1, <1>2 DEF TypeInv, WorldOK, SoleInv, Sole
<1> QED
  BY <1>1, <1>2, <1>3, SamePlan, SameSettled, SameOnce DEF IInv

\* Every step of the command plane keeps the invariant.
LEMMA NextInv == ASSUME IInv, [Next]_vars PROVE IInv'
<1>1. CASE UNCHANGED vars
  BY <1>1, StutterInv
<1>2. CASE Next
  <2>1. CASE \E c \in Callers, k \in Keys : Prepare(c, k)
    BY <2>1, PrepareInv
  <2>2. CASE \E c \in Callers :
                \/ Refuse(c) \/ Enter(c) \/ Observe(c) \/ Unstable(c) \/ Conclude(c)
                \/ ReadHead(c) \/ Begin(c) \/ Receive(c) \/ TimeOut(c) \/ Crash(c)
    BY <2>2, CallerInv
  <2>3. CASE \E w \in wire, answer \in {"ok", "invalid_swap", "rejected", "rate_limited"} :
                Serve(w, answer)
    BY <2>3, ServeInv
  <2>4. CASE \E w \in wire : Lose(w)
    BY <2>4, LoseInv
  <2>5. CASE \E k \in Keys : Compact(k)
    BY <2>5, CompactInv
  <2>6. CASE \E to \in States : Move(to)
    BY <2>6, MoveInv
  <2>7. CASE \E u \in Uris, content \in Contents : Elsewhere(u, content)
    BY <2>7, ElsewhereInv
  <2> QED
    BY <1>2, <2>1, <2>2, <2>3, <2>4, <2>5, <2>6, <2>7 DEF Next
<1> QED
  BY <1>1, <1>2

\* The invariant holds in every reachable state.
THEOREM Invariance == Spec => []IInv
<1>1. Init => IInv
  BY InitInv
<1>2. IInv /\ [Next]_vars => IInv'
  BY NextInv
<1> QED
  BY <1>1, <1>2, PTL DEF Spec

----------------------------------------------------------------------------
(* The theorems.                                                           *)

\* Every variable has its shape, and what callers and requests refer to in the
\* tables of commands and dispatches is there.
THEOREM TypesHold == Spec => []TypeOK
<1>1. IInv => TypeOK
  <2>1. ASSUME TypeInv PROVE TypeOK
    <3>1. ASSUME NEW k \in Keys
          PROVE  /\ command[k].state \in {"none", "prepared", "dispatching", "ambiguous",
                                          "spent"} \cup Verdicts
                 /\ \A i \in DOMAIN command[k].dispatches :
                       command[k].dispatches[i].outcome \in Outcomes
      <4>1. command[k] \in Rows
        BY <2>1 DEF TypeInv
      <4>2. command[k].dispatches \in Seq([plan : Nat, outcome : Outcomes])
        BY <4>1 DEF Rows
      <4>3. \A i \in DOMAIN command[k].dispatches :
               command[k].dispatches[i] \in [plan : Nat, outcome : Outcomes]
        BY <4>2, LenProperties, ElementOfSeq
      <4> QED
        BY <4>1, <4>3 DEF Rows, Pending
    <3>2. \A w \in wire : w.dispatch \in DOMAIN command[w.key].dispatches
      BY <2>1 DEF TypeInv, RequestOK
    <3>3. \A c \in Callers : caller[c].pc \in {"sent", "replied"} =>
             caller[c].dispatch \in DOMAIN Row(c).dispatches
      BY <2>1 DEF TypeInv, RequesterOK, Row
    <3> QED
      BY <2>1, <3>1, <3>2, <3>3 DEF TypeInv, WorldOK, TypeOK
  <2> QED
    BY <2>1 DEF IInv
<1> QED
  BY <1>1, Invariance, PTL

\* Retries that follow one another never apply a write twice, however often it
\* was sent, lost, answered late or refused.
THEOREM RetriesHold == Spec => []RetriesApplyOnce
<1>1. IInv => RetriesApplyOnce
  BY DEF IInv, OnceInv, KeyOnce, RetriesApplyOnce
<1> QED
  BY <1>1, Invariance, PTL

\* A command that ends on the refusal of its last dispatch took no effect.
THEOREM RefusalsHold == Spec => []RefusedTookNoEffect
<1>1. IInv => RefusedTookNoEffect
  BY DEF IInv, OnceInv, KeyOnce, CleanRow, Clean, RefusedTookNoEffect
<1> QED
  BY <1>1, Invariance, PTL

\* What a step can make land: the request that the PDS applies.
LEMMA LandedServed ==
    ASSUME IInv, [Next]_vars, NEW k \in Keys, landed'[k] > landed[k]
    PROVE  \E w \in wire : w.key = k /\ Live(w, repo)
<1>1. ~UNCHANGED landed /\ landed[k] \in Nat
  BY DEF IInv, TypeInv, WorldOK
<1>2. PICK w \in wire, answer \in {"ok", "invalid_swap", "rejected", "rate_limited"} :
          Serve(w, answer)
  BY <1>1, ZenonT(60) DEF Next, vars, Prepare, Refuse, Enter, Observe, Unstable, Conclude, ReadHead,
              Begin, Receive, Finish, TimeOut, Crash, Lose, Compact, Move, Elsewhere
<1>3. TypeInv /\ (w.caller # Nobody => caller[w.caller].pc = "sent")
  BY Waits DEF IInv
<1>4. /\ w.head = repo.head /\ \A s \in w.steps : repo.rec[s.uri] = s.expect
      /\ landed' = [landed EXCEPT ![w.key] = @ + 1]
  BY <1>1, <1>2, <1>3, ServeEffect
<1>5. w.key = k
  BY <1>1, <1>3, <1>4 DEF TypeInv, WorldOK
<1> QED
  BY <1>4, <1>5 DEF Live

\* A like that lands finds no record of the same subject.
THEOREM LikesHold == Spec => OneMember
<1>1. IInv /\ [Next]_vars =>
        [\A k \in Keys : intent[k].kind = "like" /\ landed'[k] > landed[k]
                          => Matching(repo.rec) = {}]_vars
  <2>1. ASSUME IInv, [Next]_vars, NEW k \in Keys, intent[k].kind = "like",
               landed'[k] > landed[k]
        PROVE  Matching(repo.rec) = {}
    <3>1. PICK w \in wire : w.key = k /\ Live(w, repo)
      BY <2>1, LandedServed
    <3>2. Fresh(intent[w.key], w.head, repo)
      BY <2>1 DEF IInv, PlanInv, RequestPlan
    <3> QED
      BY <2>1, <3>1, <3>2 DEF Fresh, Live
  <2> QED
    BY <2>1
<1> QED
  BY <1>1, Invariance, PTL DEF OneMember, Spec

\* The steps of a caller on the row of its command: it moves, or a dispatch
\* begins in the generation of the command.
LEMMA CallerRow ==
    ASSUME IInv, NEW c \in Callers,
           \/ Refuse(c) \/ Enter(c) \/ Observe(c) \/ Unstable(c) \/ Conclude(c)
           \/ ReadHead(c) \/ Begin(c) \/ Receive(c) \/ TimeOut(c) \/ Crash(c)
    PROVE  LET new == command'[caller[c].key] IN
           /\ caller[c].pc # "idle" /\ landed' = landed
           /\ \/ Moved(Row(c), new)
              \/ /\ Row(c).state \in Pending /\ new.state = "dispatching"
                 /\ caller[c].pc = "begin"
<1>1. TypeInv
  BY DEF IInv
<1>2. caller[c].pc # "idle" => Moved(Row(c), Row(c))
  BY <1>1, AtWork, SameRow
<1>3. CASE Refuse(c)
  BY <1>1, <1>3, RefuseEffect DEF Unmoved
<1>4. CASE Enter(c)
  BY <1>1, <1>2, <1>4, EnterEffect DEF Unmoved, Row
<1>5. CASE Observe(c)
  BY <1>1, <1>2, <1>5, ObserveEffect DEF Unmoved, Row
<1>6. CASE Unstable(c)
  BY <1>1, <1>2, <1>6, UnstableEffect DEF Row
<1>7. CASE Conclude(c)
  BY <1>1, <1>7, ConcludeEffect DEF Unmoved
<1>8. CASE ReadHead(c)
  BY <1>1, <1>2, <1>8, ReadHeadEffect DEF Unmoved, Row
<1>9. CASE Begin(c)
  BY <1>1, <1>2, <1>9, BeginEffect DEF Unmoved, Row
<1>10. CASE Receive(c)
  BY <1>1, <1>10, ReceiveEffect DEF Unmoved
<1>11. CASE TimeOut(c)
  BY <1>1, <1>11, TimeOutEffect DEF Unmoved
<1>12. CASE Crash(c)
  BY <1>1, <1>2, <1>12, CrashEffect DEF Unmoved, Row
<1> QED
  BY <1>3, <1>4, <1>5, <1>6, <1>7, <1>8, <1>9, <1>10, <1>11, <1>12

\* No dispatch begins for an owner who is not active in the generation that the
\* command was made in.
LEMMA ClosedStep ==
    ASSUME IInv, [Next]_vars, NEW k \in Keys,
           Len(command'[k].dispatches) > Len(command[k].dispatches)
    PROVE  life = [state |-> "active", gen |-> command[k].gen]
<1>1. TypeInv
  BY DEF IInv
<1>2. Len(command[k].dispatches) \in Nat /\ command'[k] # command[k]
  <2>1. command[k].dispatches \in Seq([plan : Nat, outcome : Outcomes])
    BY <1>1 DEF TypeInv, RowOK, Rows
  <2> QED
    BY <2>1
<1>3. command' # command
  BY <1>2
<1>4. ASSUME NEW c \in Callers,
             \/ Refuse(c) \/ Enter(c) \/ Observe(c) \/ Unstable(c) \/ Conclude(c)
             \/ ReadHead(c) \/ Begin(c) \/ Receive(c) \/ TimeOut(c) \/ Crash(c)
      PROVE  life = [state |-> "active", gen |-> command[k].gen]
  <2>1. Own(c) /\ caller[c].pc # "idle"
    BY <1>1, <1>4, CallerLetsGo, CallerRow
  <2>2. caller[c].key = k
    BY <1>1, <1>2, <2>1 DEF Own, TypeInv
  <2>3. caller[c].pc = "begin"
    BY <1>2, <1>4, <2>2, CallerRow DEF Moved, Row
  <2>4. life = [state |-> "active", gen |-> caller[c].gen]
    BY <2>3 DEF IInv, PlanInv, CallerPlan, Fenced
  <2>5. command[k].gen = caller[c].gen
    BY <1>1, <2>1, <2>2, AtWork DEF RequesterOK
  <2> QED
    BY <2>4, <2>5
<1>5. ASSUME NEW c \in Callers, NEW j \in Keys, Prepare(c, j) PROVE FALSE
  <2>1. /\ command' = [command EXCEPT ![j] = command'[j]]
        /\ \/ command'[j].dispatches = <<>>
           \/ command'[j] = command[j]
    BY <1>1, <1>5, PrepareEffect
  <2>2. k = j /\ command'[k].dispatches = <<>>
    BY <1>1, <1>2, <2>1 DEF TypeInv
  <2> QED
    BY <1>2, <2>2
<1>6. ASSUME NEW j \in Keys, Compact(j) PROVE FALSE
  <2>1. command' = [command EXCEPT ![j] = Spent] /\ Spent.dispatches = <<>>
    BY <1>1, <1>6, CompactEffect
  <2>2. k = j /\ command'[k].dispatches = <<>>
    BY <1>1, <1>2, <2>1 DEF TypeInv
  <2> QED
    BY <1>2, <2>2
<1> QED
  BY <1>3, <1>4, <1>5, <1>6 DEF Next, vars, Serve, Lose, Move, Elsewhere

\* A dispatch is begun only while the owner is active in the generation of the
\* command.
THEOREM ClosedGenerationHolds == Spec => ClosedGenerationIsQuiet
<1>1. IInv /\ [Next]_vars =>
        [\A k \in Keys :
            Len(command'[k].dispatches) > Len(command[k].dispatches)
              => life = [state |-> "active", gen |-> command[k].gen]]_vars
  BY ClosedStep
<1> QED
  BY <1>1, Invariance, PTL DEF ClosedGenerationIsQuiet, Spec

----------------------------------------------------------------------------
(* The command plane implements its promise.                               *)

\* A row that moves keeps its verdict or gets one.
LEMMA MovedVerdict ==
    ASSUME NEW row, Known(row), NEW new, Moved(row, new)
    PROVE  \/ Verdict(new) = Verdict(row)
           \/ Verdict(row) = "open" /\ Verdict(new) \in {"accepted", "rejected"}
  BY DEF Moved, Known, Verdict, Pending, Verdicts

\* Nothing the promise speaks of changes.
LEMMA PromiseStutters ==
    ASSUME \A k \in Keys : Verdict(command'[k]) = Verdict(command[k]),
           raced' = raced, landed' = landed
    PROVE  UNCHANGED Promise!vars
  BY DEF Promise!vars, Verdict

\* The verdict of one key changes.
LEMMA PromiseVerdict ==
    ASSUME TypeInv, NEW k \in Keys, NEW row, command' = [command EXCEPT ![k] = row]
    PROVE  [j \in Keys |-> Verdict(command[j])]' =
           [[j \in Keys |-> Verdict(command[j])] EXCEPT ![k] = Verdict(row)]
<1>1. \A j \in Keys : command'[j] = IF j = k THEN row ELSE command[j]
  BY DEF TypeInv
<1> DEFINE old == [j \in Keys |-> Verdict(command[j])]
           now == [j \in Keys |-> Verdict(command'[j])]
<1>2. \A j \in Keys : now[j] = [old EXCEPT ![k] = Verdict(row)][j]
  <2>1. TAKE j \in Keys
  <2>2. CASE j = k
    BY <1>1, <2>2
  <2>3. CASE j # k
    <3>1. command'[j] = command[j]
      BY <1>1, <2>3
    <3>2. now[j] = old[j]
      BY <3>1
    <3> QED
      BY <2>3, <3>2
  <2> QED
    BY <2>2, <2>3
<1>3. now = [old EXCEPT ![k] = Verdict(row)]
  <2> HIDE DEF now
  <2>1. now = [j \in Keys |-> now[j]]
    BY DEF now
  <2>2. [old EXCEPT ![k] = Verdict(row)] = [j \in Keys |-> [old EXCEPT ![k] = Verdict(row)][j]]
    OBVIOUS
  <2> QED
    BY <1>2, <2>1, <2>2
<1> QED
  BY <1>3 DEF Verdict

\* A step of a caller decides its key at most once, or nothing, for the promise.
LEMMA CallerPromise ==
    ASSUME IInv, NEW c \in Callers,
           \/ Refuse(c) \/ Enter(c) \/ Observe(c) \/ Unstable(c) \/ Conclude(c)
           \/ ReadHead(c) \/ Begin(c) \/ Receive(c) \/ TimeOut(c) \/ Crash(c)
    PROVE  Promise!Next \/ UNCHANGED Promise!vars
<1> DEFINE k == caller[c].key
           new == command'[k]
<1>1. TypeInv /\ Own(c) /\ raced' = raced /\ landed' = landed /\ caller[c].pc # "idle"
  BY CallerLetsGo, CallerRow DEF IInv, LetsGo
<1>2. k \in Keys /\ RowOK(command[k]) /\ Known(command[k])
  BY <1>1, AtWork DEF Row
<1>3. command' = [command EXCEPT ![k] = new]
  BY <1>1 DEF Own
<1>4. \/ Verdict(new) = Verdict(command[k])
      \/ Verdict(command[k]) = "open" /\ Verdict(new) \in {"accepted", "rejected"}
  <2>1. CASE Moved(Row(c), new)
    BY <1>2, <2>1, MovedVerdict DEF Row
  <2>2. CASE Row(c).state \in Pending /\ new.state = "dispatching"
    BY <2>2 DEF Verdict, Pending, Verdicts, Row
  <2> QED
    BY <2>1, <2>2, CallerRow
<1> HIDE DEF k, new
<1>5. CASE Verdict(new) = Verdict(command[k])
  <2>1. \A j \in Keys : Verdict(command'[j]) = Verdict(command[j])
    BY <1>1, <1>2, <1>3, <1>5 DEF TypeInv
  <2> QED
    BY <1>1, <2>1, PromiseStutters
<1>6. CASE Verdict(command[k]) = "open" /\ Verdict(new) \in {"accepted", "rejected"}
  <2>1. [j \in Keys |-> Verdict(command[j])]' =
           [[j \in Keys |-> Verdict(command[j])] EXCEPT ![k] = Verdict(new)]
    BY <1>1, <1>2, <1>3, PromiseVerdict
  <2>2. Promise!Decide(k, Verdict(new))
    BY <1>1, <1>2, <1>6, <2>1 DEF Promise!Decide
  <2> QED
    BY <1>2, <1>6, <2>2 DEF Promise!Next
<1> QED
  BY <1>4, <1>5, <1>6

\* The first request opens the key, a second one at the same time contests it.
LEMMA PreparePromise ==
    ASSUME IInv, NEW c \in Callers, NEW k \in Keys, Prepare(c, k)
    PROVE  Promise!Next \/ UNCHANGED Promise!vars
<1> DEFINE new == command'[k]
           race == \E d \in Callers : caller[d].key = k
<1>1. /\ TypeInv /\ landed' = landed
      /\ raced' = [raced EXCEPT ![k] = raced[k] \/ race]
      /\ command' = [command EXCEPT ![k] = new]
      /\ \/ command[k] = NoCommand /\ new.state = "prepared"
         \/ new = command[k] /\ command[k].state \in Pending
  BY PrepareEffect DEF IInv
<1>2. raced \in [Keys -> BOOLEAN]
  BY <1>1 DEF TypeInv, WorldOK
<1> HIDE DEF new
<1>3. CASE command[k] = NoCommand /\ new.state = "prepared"
  <2>1. ~race
    <3>1. ~Known(command[k])
      BY <1>3 DEF Known, NoCommand
    <3>2. ASSUME NEW d \in Callers, caller[d].key = k PROVE FALSE
      BY <1>1, <3>1, <3>2, AtWork, CommandConstants DEF TypeInv, RequesterOK, Row
    <3> QED
      BY <3>2
  <2>2. raced' = raced
    BY <1>1, <1>2, <2>1
  <2>3. Verdict(new) = "open" /\ Verdict(command[k]) = "none"
    BY <1>3 DEF Verdict, NoCommand, Verdicts
  <2>4. [j \in Keys |-> Verdict(command[j])]' =
           [[j \in Keys |-> Verdict(command[j])] EXCEPT ![k] = "open"]
    BY <1>1, <2>3, PromiseVerdict, ZenonT(60)
  <2>5. Promise!Open(k)
    BY <1>1, <2>2, <2>3, <2>4 DEF Promise!Open
  <2> QED
    BY <2>5 DEF Promise!Next
<1>4. CASE new = command[k] /\ command[k].state \in Pending
  <2>1. command' = command
    BY <1>1, <1>4 DEF TypeInv
  <2>2. CASE ~race \/ raced[k]
    <3>1. raced' = raced
      BY <1>1, <1>2, <2>2
    <3> QED
      BY <1>1, <2>1, <3>1, PromiseStutters
  <2>3. CASE race /\ ~raced[k]
    <3>1. raced' = [raced EXCEPT ![k] = TRUE]
      BY <1>1, <1>2, <2>3
    <3>2. {j \in Keys : raced'[j]} = {j \in Keys : raced[j]} \cup {k}
      BY <1>2, <3>1
    <3>3. Verdict(command[k]) = "open"
      BY <1>4 DEF Verdict, Pending, Verdicts
    <3>4. Promise!Contest(k)
      BY <1>1, <2>1, <3>2, <3>3 DEF Promise!Contest, Verdict
    <3> QED
      BY <3>4 DEF Promise!Next
  <2> QED
    BY <2>2, <2>3
<1> QED
  BY <1>1, <1>3, <1>4

\* A write lands only for a key that is not accepted, or was contested.
LEMMA ServePromise ==
    ASSUME IInv, NEW w \in wire,
           NEW answer \in {"ok", "invalid_swap", "rejected", "rate_limited"},
           Serve(w, answer)
    PROVE  Promise!Next \/ UNCHANGED Promise!vars
<1>1. TypeInv /\ (w.caller # Nobody => caller[w.caller].pc = "sent")
  BY Waits DEF IInv
<1>2. /\ w.key \in Keys /\ Known(command[w.key]) /\ command' = command /\ raced' = raced
      /\ \/ landed' = landed
         \/ /\ Live(w, repo) /\ landed' = [landed EXCEPT ![w.key] = @ + 1]
  BY <1>1, ServeEffect DEF Live
<1>3. CASE landed' = landed
  BY <1>2, <1>3, PromiseStutters
<1>4. CASE Live(w, repo) /\ landed' = [landed EXCEPT ![w.key] = @ + 1]
  <2>1. command[w.key].state = "accepted" => raced[w.key]
    BY <1>2, <1>4 DEF IInv, SettledInv, Settled, Quiet
  <2>2. \/ Verdict(command[w.key]) \in {"open", "rejected"}
        \/ Verdict(command[w.key]) = "accepted" /\ w.key \in {j \in Keys : raced[j]}
    BY <1>2, <2>1 DEF Verdict, Known, Verdicts
  <2>3. Promise!Effect(w.key)
    BY <1>2, <1>4, <2>2 DEF Promise!Effect
  <2> QED
    BY <1>2, <2>3 DEF Promise!Next
<1> QED
  BY <1>2, <1>3, <1>4

\* Compaction spends a verdict, for the promise.
LEMMA CompactPromise ==
    ASSUME IInv, NEW k \in Keys, Compact(k)
    PROVE  Promise!Next \/ UNCHANGED Promise!vars
<1>1. /\ TypeInv /\ raced' = raced /\ landed' = landed
      /\ command' = [command EXCEPT ![k] = Spent]
      /\ command[k].state \in Verdicts /\ Spent.state = "spent"
  BY CompactEffect DEF IInv, Unmoved
<1>2. Verdict(Spent) = "spent" /\ Verdict(command[k]) \in {"accepted", "rejected"}
  BY <1>1 DEF Verdict, Verdicts
<1>3. [j \in Keys |-> Verdict(command[j])]' =
         [[j \in Keys |-> Verdict(command[j])] EXCEPT ![k] = "spent"]
  BY <1>1, <1>2, PromiseVerdict
<1>4. Promise!Spend(k)
  BY <1>1, <1>2, <1>3 DEF Promise!Spend
<1> QED
  BY <1>4 DEF Promise!Next

\* Every behaviour of the command plane is one that its promise allows.
THEOREM PromiseHolds == Spec => KeepsPromise
<1>1. Init => Promise!Init
  BY DEF Init, Promise!Init, Verdict, NoCommand
<1>2. ASSUME IInv, [Next]_vars PROVE Promise!Next \/ UNCHANGED Promise!vars
  <2>1. CASE \E c \in Callers, k \in Keys : Prepare(c, k)
    BY <1>2, <2>1, PreparePromise
  <2>2. CASE \E c \in Callers :
                \/ Refuse(c) \/ Enter(c) \/ Observe(c) \/ Unstable(c) \/ Conclude(c)
                \/ ReadHead(c) \/ Begin(c) \/ Receive(c) \/ TimeOut(c) \/ Crash(c)
    BY <1>2, <2>2, CallerPromise
  <2>3. CASE \E w \in wire, answer \in {"ok", "invalid_swap", "rejected", "rate_limited"} :
                Serve(w, answer)
    BY <1>2, <2>3, ServePromise
  <2>4. CASE \E k \in Keys : Compact(k)
    BY <1>2, <2>4, CompactPromise
  <2>5. CASE UNCHANGED <<command, landed, raced>>
    BY <2>5, PromiseStutters
  <2>6. CASE \E w \in wire : Lose(w)
    BY <2>5, <2>6 DEF Lose
  <2>7. CASE \E to \in States : Move(to)
    BY <2>5, <2>7 DEF Move
  <2>8. CASE \E u \in Uris, content \in Contents : Elsewhere(u, content)
    BY <2>5, <2>8 DEF Elsewhere
  <2> QED
    BY <1>2, <2>1, <2>2, <2>3, <2>4, <2>5, <2>6, <2>7, <2>8 DEF Next, vars
<1>3. IInv /\ [Next]_vars => [Promise!Next]_Promise!vars
  BY <1>2
<1> QED
  BY <1>1, <1>3, Invariance, PTL DEF Spec, KeepsPromise, Promise!Spec
=============================================================================
