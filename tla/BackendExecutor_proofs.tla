------------------------ MODULE BackendExecutor_proofs ------------------------
(***************************************************************************)
(* The types of the variables of BackendExecutor, for every capacity of    *)
(* the log channel: the lemmas that the proofs about its backends share.   *)
(***************************************************************************)
EXTENDS BackendExecutor, SequenceTheorems, FiniteSetTheorems, TLAPS

\* What Run makes of a command.
ResultType == [exit : Int, timedOut : BOOLEAN, err : {"none", "deadline", "error"}]

\* A result keeps its type when one of its fields gets a new value.
LEMMA ResultFields ==
  /\ Nothing \in ResultType
  /\ \A r \in ResultType :
       /\ \A x \in Int : [r EXCEPT !.exit = x] \in ResultType
       /\ \A x \in BOOLEAN : [r EXCEPT !.timedOut = x] \in ResultType
       /\ \A x \in {"none", "deadline", "error"} : [r EXCEPT !.err = x] \in ResultType
<1>1. Nothing \in ResultType
  BY DEF Nothing, ResultType
<1>2. ASSUME NEW r \in ResultType, NEW x \in Int
      PROVE  [r EXCEPT !.exit = x] \in ResultType
  BY DEF ResultType
<1>3. ASSUME NEW r \in ResultType, NEW x \in BOOLEAN
      PROVE  [r EXCEPT !.timedOut = x] \in ResultType
  BY DEF ResultType
<1>4. ASSUME NEW r \in ResultType, NEW x \in {"none", "deadline", "error"}
      PROVE  [r EXCEPT !.err = x] \in ResultType
  BY DEF ResultType
<1>5. QED
  BY <1>1, <1>2, <1>3, <1>4


\* What a backend's status holds: one exit code, or none.
Codes == {c \in SUBSET Int : Cardinality(c) <= 1}

\* It may be made of any exit code, and Run makes an exit code of it.
LEMMA CodesHold ==
  /\ {} \in Codes
  /\ \A c \in Int : {c} \in Codes
  /\ \A codes \in Codes : ExitOf(codes) \in Int
<1>1. {} \in Codes
  BY FS_EmptySet DEF Codes
<1>2. ASSUME NEW c \in Int
      PROVE  {c} \in Codes
  <2>1. Cardinality({c}) = 1
    BY FS_Singleton
  <2>2. QED
    BY <2>1 DEF Codes
<1>3. ASSUME NEW codes \in Codes
      PROVE  ExitOf(codes) \in Int
  <2>1. CASE codes = {}
    BY <2>1 DEF ExitOf
  <2>2. CASE codes # {}
    <3>1. ExitOf(codes) \in codes
      BY <2>2 DEF ExitOf
    <3>2. codes \subseteq Int
      BY DEF Codes
    <3>3. QED
      BY <3>1, <3>2
  <2>3. QED
    BY <2>1, <2>2
<1>4. QED
  BY <1>1, <1>2, <1>3

\* A chunk in the log channel.
ChunkType == [stream : Streams, line : Nat]

\* The steps of Run that concern no backend keep the types.
LEMMA ExecutorTypes ==
  ASSUME ExecutorTypeOK,
         \/ UNCHANGED executorVars \/ EndContext \/ Started \/ Receive \/ SeeClosed \/ StopWaiting
         \/ \E err \in {"deadline", "error"} : StartFailed(err)
         \/ \E codes \in Codes : Return(codes)
  PROVE  ExecutorTypeOK'
<1>0. result \in ResultType
  BY DEF ExecutorTypeOK, ResultType
<1>1. CASE UNCHANGED executorVars \/ EndContext \/ Started \/ SeeClosed \/ StopWaiting
  BY <1>1 DEF executorVars, EndContext, Started, SeeClosed, StopWaiting, ExecutorTypeOK
<1>2. CASE Receive
  <2>1. PICK q \in Seq(ChunkType) : q = logs /\ q # <<>> /\ Len(q) <= LogCap
    BY <1>2 DEF Receive, ExecutorTypeOK, ChunkType
  <2>2. /\ Head(q) \in ChunkType /\ Tail(q) \in Seq(ChunkType) /\ Len(Tail(q)) <= LogCap
    <3>1. /\ Head(q) \in ChunkType /\ Tail(q) \in Seq(ChunkType) /\ Len(Tail(q)) = Len(q) - 1
      BY <2>1, HeadTailProperties
    <3>2. Len(q) \in Nat /\ LogCap \in Nat
      BY ExecutorAssumption
    <3>3. QED
      BY <2>1, <3>1, <3>2
  <2>3. PICK t \in Streams, n \in Nat : t = Head(q).stream /\ n = Head(q).line
    BY <2>2 DEF ChunkType
  <2>4. [handled EXCEPT ![t] = Append(@, n)] \in [Streams -> Seq(Nat)]
    BY DEF ExecutorTypeOK
  <2>5. /\ handled' = [handled EXCEPT ![t] = Append(@, n)] /\ logs' = Tail(q)
        /\ UNCHANGED <<ctx, closed, run, result>>
    BY <1>2, <2>1, <2>3 DEF Receive
  <2>6. QED
    BY <2>2, <2>4, <2>5 DEF ExecutorTypeOK, ChunkType
<1>3. ASSUME NEW err \in {"deadline", "error"}, StartFailed(err)
      PROVE  ExecutorTypeOK'
  <2>1. result' \in ResultType
    BY <1>3, ResultFields DEF StartFailed
  <2>2. QED
    BY <1>3, <2>1 DEF StartFailed, ExecutorTypeOK, ResultType
<1>4. ASSUME NEW codes \in Codes, Return(codes)
      PROVE  ExecutorTypeOK'
  <2>1. PICK t \in BOOLEAN, e \in Int : t = (ctx = "deadline") /\ e = ExitOf(codes)
    BY CodesHold
  <2>2. result' = [exit |-> e, timedOut |-> t, err |-> IF t THEN "deadline" ELSE "none"]
    BY <1>4, <2>1 DEF Return
  <2>3. result' \in ResultType
    BY <2>2 DEF ResultType
  <2>4. QED
    BY <1>4, <2>3 DEF Return, ExecutorTypeOK, ResultType
<1>5. QED
  BY <1>1, <1>2, <1>3, <1>4

\* They hold when Run is called.
LEMMA ExecutorStart == ExecutorInit => ExecutorTypeOK
<1> SUFFICES ASSUME ExecutorInit PROVE ExecutorTypeOK
  OBVIOUS
<1>1. result \in ResultType
  BY ResultFields DEF ExecutorInit
<1>2. handled \in [Streams -> Seq(Nat)]
  BY DEF ExecutorInit
<1>3. logs \in Seq([stream : Streams, line : Nat]) /\ Len(logs) <= LogCap
  BY ExecutorAssumption DEF ExecutorInit
<1>4. QED
  BY <1>1, <1>2, <1>3 DEF ExecutorInit, ExecutorTypeOK, ResultType

\* A chunk is put into the log channel only if there is room.
LEMMA ChunkSent ==
  ASSUME ExecutorTypeOK, NEW e \in ChunkType, Len(logs) < LogCap, logs' = Append(logs, e),
         UNCHANGED <<ctx, closed, run, handled, result>>
  PROVE  ExecutorTypeOK'
<1>1. PICK q \in Seq(ChunkType) : q = logs
  BY DEF ExecutorTypeOK, ChunkType
<1>2. Append(q, e) \in Seq(ChunkType) /\ Len(Append(q, e)) = Len(q) + 1 /\ Len(q) \in Nat
  BY AppendProperties
<1>3. Len(logs') <= LogCap
  BY <1>1, <1>2, ExecutorAssumption
<1>4. QED
  BY <1>1, <1>2, <1>3 DEF ExecutorTypeOK, ChunkType
=============================================================================
