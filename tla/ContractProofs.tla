---------------------------- MODULE ContractProofs ---------------------------
(***************************************************************************)
(* The contracts of floodguard/contracts: what holds of the idempotency     *)
(* store for any number of threads, events, deliveries, failures, exits and *)
(* interrupts, and of a job record under any transition.                    *)
(***************************************************************************)
EXTENDS Idempotency, Jobs, TLAPS

AtWork(t) == pc[t] # "idle"

(* An event is in the store as long as a thread is at work on it, or the    *)
(* thread holds the lock while it is in neither set.                        *)
HeldInv ==
    \A t \in Threads :
        /\ AtWork(t) => event[t] \in Events /\ event[t] \notin completed
        /\ pc[t] \in {"handling", "complete", "abandon"} => event[t] \in inProgress
        /\ pc[t] = "add" => lock = t /\ event[t] \notin inProgress

(* What the handlers have done is what the store will say. *)
EffectsInv ==
    /\ \A e \in Events : effects[e] > 0 =>
           \/ e \in interrupted \/ e \in completed
           \/ \E t \in Threads : pc[t] \in {"complete", "add"} /\ event[t] = e
    /\ \A e \in completed : effects[e] > 0
    /\ \A t \in Threads : pc[t] \in {"complete", "add"} => effects[event[t]] > 0

IInv ==
    /\ TypeOK /\ OneAtWork /\ HeldInv /\ EffectsInv /\ HandledOnce
    /\ exited \subseteq raised /\ InProgressIsHeld /\ DuplicatesAreAccounted

LEMMA InitIInv == Init => IInv
  BY IdempotencyAssumption
  DEF Init, IInv, TypeOK, OneAtWork, HeldInv, EffectsInv, HandledOnce, InProgressIsHeld,
      DuplicatesAreAccounted, Working, AtWork

LEMMA BeginStep ==
    ASSUME IInv, NEW t \in Threads, NEW e \in Events, Begin(t, e) PROVE IInv'
<1> USE IdempotencyAssumption DEF Begin, Known, GoTo, IInv, store, answers
<1>1. TypeOK'
  BY DEF TypeOK, Working, HeldInv, AtWork
<1>2. OneAtWork'
  BY DEF OneAtWork, HeldInv, TypeOK, AtWork, Working
<1>3. HeldInv'
  BY DEF OneAtWork, HeldInv, TypeOK, AtWork, Working
<1>4. EffectsInv'
  BY DEF OneAtWork, HeldInv, EffectsInv, TypeOK, AtWork, Working
<1>5. HandledOnce'
  BY DEF OneAtWork, HeldInv, EffectsInv, HandledOnce, TypeOK, AtWork, Working
<1>6. (exited \subseteq raised)'
  BY DEF TypeOK
<1>7. InProgressIsHeld'
  BY DEF InProgressIsHeld, HeldInv, TypeOK, AtWork, Working
<1>8. DuplicatesAreAccounted'
  BY DEF DuplicatesAreAccounted, InProgressIsHeld, HeldInv, EffectsInv, TypeOK, AtWork, Working
<1> QED
  BY <1>1, <1>2, <1>3, <1>4, <1>5, <1>6, <1>7, <1>8


LEMMA DuplicateStep ==
    ASSUME IInv, NEW t \in Threads, NEW e \in Events, Duplicate(t, e) PROVE IInv'
<1> USE IdempotencyAssumption DEF Duplicate, Known, GoTo, IInv, store, answers
<1>1. TypeOK'
  BY DEF TypeOK, Working, HeldInv, AtWork
<1>2. OneAtWork'
  BY DEF OneAtWork, HeldInv, TypeOK, AtWork, Working
<1>3. HeldInv'
  BY DEF OneAtWork, HeldInv, TypeOK, AtWork, Working
<1>4. EffectsInv'
  BY DEF OneAtWork, HeldInv, EffectsInv, TypeOK, AtWork, Working
<1>5. HandledOnce'
  BY DEF OneAtWork, HeldInv, EffectsInv, HandledOnce, TypeOK, AtWork, Working
<1>6. (exited \subseteq raised)'
  BY DEF TypeOK
<1>7. InProgressIsHeld'
  BY DEF InProgressIsHeld, HeldInv, TypeOK, AtWork, Working
<1>8. DuplicatesAreAccounted'
  BY DEF DuplicatesAreAccounted, InProgressIsHeld, HeldInv, EffectsInv, TypeOK, AtWork, Working
<1> QED
  BY <1>1, <1>2, <1>3, <1>4, <1>5, <1>6, <1>7, <1>8


LEMMA HandlerReturnsStep ==
    ASSUME IInv, NEW t \in Threads, HandlerReturns(t) PROVE IInv'
<1> USE IdempotencyAssumption DEF HandlerReturns, GoTo, IInv, store, answers
<1>1. TypeOK'
  BY DEF TypeOK, Working, HeldInv, AtWork
<1>2. OneAtWork'
  BY DEF OneAtWork, HeldInv, TypeOK, AtWork, Working
<1>3. HeldInv'
  BY DEF OneAtWork, HeldInv, TypeOK, AtWork, Working
<1>4. EffectsInv'
  BY DEF OneAtWork, HeldInv, EffectsInv, TypeOK, AtWork, Working
<1>5. HandledOnce'
  BY DEF OneAtWork, HeldInv, EffectsInv, HandledOnce, TypeOK, AtWork, Working
<1>6. (exited \subseteq raised)'
  BY DEF TypeOK
<1>7. InProgressIsHeld'
  BY DEF InProgressIsHeld, HeldInv, TypeOK, AtWork, Working
<1>8. DuplicatesAreAccounted'
  BY DEF DuplicatesAreAccounted, InProgressIsHeld, HeldInv, EffectsInv, TypeOK, AtWork, Working
<1> QED
  BY <1>1, <1>2, <1>3, <1>4, <1>5, <1>6, <1>7, <1>8


LEMMA HandlerRaisesStep ==
    ASSUME IInv, NEW t \in Threads, HandlerRaises(t) PROVE IInv'
<1> USE IdempotencyAssumption DEF HandlerRaises, GoTo, IInv, store, answers
<1>1. TypeOK'
  BY DEF TypeOK, Working, HeldInv, AtWork
<1>2. OneAtWork'
  BY DEF OneAtWork, HeldInv, TypeOK, AtWork, Working
<1>3. HeldInv'
  BY DEF OneAtWork, HeldInv, TypeOK, AtWork, Working
<1>4. EffectsInv'
  BY DEF OneAtWork, HeldInv, EffectsInv, TypeOK, AtWork, Working
<1>5. HandledOnce'
  BY DEF OneAtWork, HeldInv, EffectsInv, HandledOnce, TypeOK, AtWork, Working
<1>6. (exited \subseteq raised)'
  BY DEF TypeOK
<1>7. InProgressIsHeld'
  BY DEF InProgressIsHeld, HeldInv, TypeOK, AtWork, Working
<1>8. DuplicatesAreAccounted'
  BY DEF DuplicatesAreAccounted, InProgressIsHeld, HeldInv, EffectsInv, TypeOK, AtWork, Working
<1> QED
  BY <1>1, <1>2, <1>3, <1>4, <1>5, <1>6, <1>7, <1>8


LEMMA HandlerExitsStep ==
    ASSUME IInv, NEW t \in Threads, HandlerExits(t) PROVE IInv'
<1> USE IdempotencyAssumption DEF HandlerExits, Leave, GoTo, IInv, store, answers
<1>1. TypeOK'
  BY DEF TypeOK, Working, HeldInv, AtWork
<1>2. OneAtWork'
  BY DEF OneAtWork, HeldInv, TypeOK, AtWork, Working
<1>3. HeldInv'
  BY DEF OneAtWork, HeldInv, TypeOK, AtWork, Working
<1>4. EffectsInv'
  BY DEF OneAtWork, HeldInv, EffectsInv, TypeOK, AtWork, Working
<1>5. HandledOnce'
  BY DEF OneAtWork, HeldInv, EffectsInv, HandledOnce, TypeOK, AtWork, Working
<1>6. (exited \subseteq raised)'
  BY DEF TypeOK
<1>7. InProgressIsHeld'
  BY DEF InProgressIsHeld, HeldInv, TypeOK, AtWork, Working
<1>8. DuplicatesAreAccounted'
  BY DEF DuplicatesAreAccounted, InProgressIsHeld, HeldInv, EffectsInv, TypeOK, AtWork, Working
<1> QED
  BY <1>1, <1>2, <1>3, <1>4, <1>5, <1>6, <1>7, <1>8


LEMMA DiscardStep ==
    ASSUME IInv, NEW t \in Threads, Discard(t) PROVE IInv'
<1> USE IdempotencyAssumption DEF Discard, GoTo, IInv, store, answers
<1>1. TypeOK'
  BY DEF TypeOK, Working, HeldInv, AtWork
<1>2. OneAtWork'
  BY DEF OneAtWork, HeldInv, TypeOK, AtWork, Working
<1>3. HeldInv'
  BY DEF OneAtWork, HeldInv, TypeOK, AtWork, Working
<1>4. EffectsInv'
  BY DEF OneAtWork, HeldInv, EffectsInv, TypeOK, AtWork, Working
<1>5. HandledOnce'
  BY DEF OneAtWork, HeldInv, EffectsInv, HandledOnce, TypeOK, AtWork, Working
<1>6. (exited \subseteq raised)'
  BY DEF TypeOK
<1>7. InProgressIsHeld'
  BY DEF InProgressIsHeld, HeldInv, TypeOK, AtWork, Working
<1>8. DuplicatesAreAccounted'
  BY DEF DuplicatesAreAccounted, InProgressIsHeld, HeldInv, EffectsInv, TypeOK, AtWork, Working
<1> QED
  BY <1>1, <1>2, <1>3, <1>4, <1>5, <1>6, <1>7, <1>8


LEMMA AddCompletedStep ==
    ASSUME IInv, NEW t \in Threads, AddCompleted(t) PROVE IInv'
<1> USE IdempotencyAssumption DEF AddCompleted, Leave, GoTo, IInv, store, answers
<1>1. TypeOK'
  BY DEF TypeOK, Working, HeldInv, AtWork
<1>2. OneAtWork'
  BY DEF OneAtWork, HeldInv, TypeOK, AtWork, Working
<1>3. HeldInv'
  BY DEF OneAtWork, HeldInv, TypeOK, AtWork, Working
<1>4. EffectsInv'
  BY DEF OneAtWork, HeldInv, EffectsInv, TypeOK, AtWork, Working
<1>5. HandledOnce'
  BY DEF OneAtWork, HeldInv, EffectsInv, HandledOnce, TypeOK, AtWork, Working
<1>6. (exited \subseteq raised)'
  BY DEF TypeOK
<1>7. InProgressIsHeld'
  BY DEF InProgressIsHeld, HeldInv, TypeOK, AtWork, Working
<1>8. DuplicatesAreAccounted'
  BY DEF DuplicatesAreAccounted, InProgressIsHeld, HeldInv, EffectsInv, TypeOK, AtWork, Working
<1> QED
  BY <1>1, <1>2, <1>3, <1>4, <1>5, <1>6, <1>7, <1>8


LEMMA AbandonStep ==
    ASSUME IInv, NEW t \in Threads, Abandon(t) PROVE IInv'
<1> USE IdempotencyAssumption DEF Abandon, Leave, GoTo, IInv, store, answers
<1>1. TypeOK'
  BY DEF TypeOK, Working, HeldInv, AtWork
<1>2. OneAtWork'
  BY DEF OneAtWork, HeldInv, TypeOK, AtWork, Working
<1>3. HeldInv'
  BY DEF OneAtWork, HeldInv, TypeOK, AtWork, Working
<1>4. EffectsInv'
  BY DEF OneAtWork, HeldInv, EffectsInv, TypeOK, AtWork, Working
<1>5. HandledOnce'
  BY DEF OneAtWork, HeldInv, EffectsInv, HandledOnce, TypeOK, AtWork, Working
<1>6. (exited \subseteq raised)'
  BY DEF TypeOK
<1>7. InProgressIsHeld'
  BY DEF InProgressIsHeld, HeldInv, TypeOK, AtWork, Working
<1>8. DuplicatesAreAccounted'
  BY DEF DuplicatesAreAccounted, InProgressIsHeld, HeldInv, EffectsInv, TypeOK, AtWork, Working
<1> QED
  BY <1>1, <1>2, <1>3, <1>4, <1>5, <1>6, <1>7, <1>8


LEMMA InterruptStep ==
    ASSUME IInv, NEW t \in Threads, Interrupt(t) PROVE IInv'
<1> USE IdempotencyAssumption DEF Interrupt, Leave, GoTo, IInv, store, answers
<1>1. TypeOK'
  BY DEF TypeOK, Working, HeldInv, AtWork
<1>2. OneAtWork'
  BY DEF OneAtWork, HeldInv, TypeOK, AtWork, Working
<1>3. HeldInv'
  BY DEF OneAtWork, HeldInv, TypeOK, AtWork, Working
<1>4. EffectsInv'
  BY DEF OneAtWork, HeldInv, EffectsInv, TypeOK, AtWork, Working
<1>5. HandledOnce'
  BY DEF OneAtWork, HeldInv, EffectsInv, HandledOnce, TypeOK, AtWork, Working
<1>6. (exited \subseteq raised)'
  BY DEF TypeOK
<1>7. InProgressIsHeld'
  BY DEF InProgressIsHeld, HeldInv, TypeOK, AtWork, Working
<1>8. DuplicatesAreAccounted'
  BY DEF DuplicatesAreAccounted, InProgressIsHeld, HeldInv, EffectsInv, TypeOK, AtWork, Working
<1> QED
  BY <1>1, <1>2, <1>3, <1>4, <1>5, <1>6, <1>7, <1>8

LEMMA StutterStep == ASSUME IInv, UNCHANGED vars PROVE IInv'
  BY DEF IInv, TypeOK, OneAtWork, HeldInv, EffectsInv, HandledOnce, InProgressIsHeld,
         DuplicatesAreAccounted, AtWork, vars, store, answers

LEMMA Inductive == ASSUME IInv, [Next]_vars PROVE IInv'
<1>1. CASE UNCHANGED vars
  BY <1>1, StutterStep
<1>2. CASE Rest
  BY <1>2, StutterStep DEF Rest
<1>3. ASSUME NEW t \in Threads, Deliver(t) PROVE IInv'
  BY <1>3, BeginStep, DuplicateStep, HandlerReturnsStep, HandlerRaisesStep, HandlerExitsStep,
     DiscardStep, AddCompletedStep, AbandonStep, InterruptStep DEF Deliver
<1> QED
  BY <1>1, <1>2, <1>3 DEF Next

LEMMA Invariance == Spec => []IInv
  BY InitIInv, Inductive, PTL DEF Spec

-----------------------------------------------------------------------------
(* Every reachable state of the store and of its users is well typed.       *)
THEOREM StoreTypeCorrect == Spec => []TypeOK
<1>1. IInv => TypeOK
  BY DEF IInv
<1> QED
  BY <1>1, Invariance, PTL

(* For any number of threads: two are never at work on one event            *)
(* (events.py:40-55).                                                       *)
THEOREM OneAtATime == Spec => []OneAtWork
<1>1. IInv => OneAtWork
  BY DEF IInv
<1> QED
  BY <1>1, Invariance, PTL

(* For any number of deliveries and retries: a handler that has returned    *)
(* returns again only after an interrupt (events.py:57-71).                 *)
THEOREM AtMostOnce == Spec => []HandledOnce
<1>1. IInv => HandledOnce
  BY DEF IInv
<1> QED
  BY <1>1, Invariance, PTL

(* A DUPLICATE never hides an event nobody has heard of again               *)
(* (events.py:57-71).                                                       *)
THEOREM NothingIsLost == Spec => []DuplicatesAreAccounted
<1>1. IInv => DuplicatesAreAccounted
  BY DEF IInv
<1> QED
  BY <1>1, Invariance, PTL

(* What is in progress is in somebody's hands, unless a BaseException left  *)
(* it there (events.py:67-69).                                              *)
THEOREM FailuresCanBeRetried == Spec => []InProgressIsHeld
<1>1. IInv => InProgressIsHeld
  BY DEF IInv
<1> QED
  BY <1>1, Invariance, PTL

-----------------------------------------------------------------------------
(* The validation at the end of transition_job never rejects what the       *)
(* transition made, whatever valid record it began with (jobs.py:82-83).    *)
THEOREM TransitionsAreValid ==
    ASSUME NEW r \in JobRecord, Valid(r), NEW state \in States,
           NEW now \in Nat \ {NoTime}, NEW code \in STRING, Accepts(r, state, code)
    PROVE  LET n == Transition(r, state, now, code) IN n \in JobRecord /\ Valid(n)
<1>1. state \in {"RUNNING"} \cup Terminal
  BY DEF Accepts, Allowed, Terminal, States, JobRecord
<1>2. Transition(r, state, now, code) \in JobRecord
  <2>1. now \in Nat /\ Whole \in 0..Whole
    BY DEF Whole
  <2> QED
    BY <2>1 DEF Transition, JobRecord
<1>3. Valid(Transition(r, state, now, code))
  BY <1>1 DEF Valid, Accepts, Transition, JobRecord, Terminal, Whole
<1> QED
  BY <1>2, <1>3

(* A job is done once: a record that succeeded, failed or was cancelled has *)
(* no successor, and one that succeeded or failed had been started, unless  *)
(* it was made so (jobs.py:60-67).                                          *)
THEOREM DoneOnce ==
    ASSUME NEW r \in JobRecord, Valid(r), NEW state \in States,
           NEW now \in Nat \ {NoTime}, NEW code \in STRING, Accepts(r, state, code)
    PROVE  /\ r.state \notin Terminal
           /\ state \in {"SUCCEEDED", "FAILED"} =>
                  Transition(r, state, now, code).startedAt # NoTime
<1>1. r.state \notin Terminal
  BY DEF Accepts, Allowed, Terminal, JobRecord, States
<1>2. CASE state \in {"SUCCEEDED", "FAILED"}
  <2>1. r.state = "RUNNING"
    BY <1>2 DEF Accepts, Allowed, Terminal, JobRecord, States
  <2>2. Transition(r, state, now, code).startedAt = r.startedAt
    BY <1>2 DEF Transition, JobRecord
  <2> QED
    BY <1>1, <2>1, <2>2 DEF Valid
<1> QED
  BY <1>1, <1>2
=============================================================================
