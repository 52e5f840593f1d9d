--------------------------- MODULE UploadProofs ---------------------------
(***************************************************************************)
(* Theorems about uploads. First UploadBuffer, for any limit on the size,   *)
(* any lengths of parts and any number of ids; SizeBounded speaks of a sum, *)
(* which is defined by recursion: its lemmas argue by the least             *)
(* counterexample. Then UploadFile, for any set of file names. Last the     *)
(* parser of Multipart, for any number of parts and any data.               *)
(***************************************************************************)
EXTENDS UploadBuffer, UploadFile, Multipart, SequenceTheorems,
        FiniteSetTheorems, WellFoundedInduction, NaturalsInduction, TLAPS

\* upload() is in a request in which no hook has failed.
Parsing == pc \notin {"idle", "crashed"} /\ upload_error = 0

\* The reply array lists what the request has stored so far, all of which is on
\* the list of buffers, and something once a part was stored.
RequestListed ==
    Parsing => /\ begun <= current_id
               /\ infoIds = begun .. current_id - 1
               /\ infoIds \subseteq buffers
               /\ pc \in {"stored", "done"} => begun < current_id

\* There is a buffer to be filled only between the first header line of a part
\* and its data.
NoBufferBetween ==
    pc \in {"check", "boundary", "stored", "done"} /\ upload_error = 0 =>
        current_buf = "NULL"

IInv ==
    /\ TypeOK
    /\ DriverInv
    /\ PathsMatchBuffers
    /\ FreedMemoryConfined
    /\ NoBufferBetween
    /\ RequestListed

\* The invariant holds when buffer_init() returns.
LEMMA IInvInit == Init => IInv
BY LengthsAssumption, MaxSizeAssumption, MaxIdsAssumption
DEF Init, DriverInit, IInv, TypeOK, DriverTypeOK, DriverInv, PathsMatchBuffers,
    FreedMemoryConfined, NoBufferBetween, RequestListed, Parsing, Ids, MaxReplies

---------------------------------------------------------------------------
(* One lemma for each group of steps.                                      *)

\* The hook of a new request, whatever the request before has left behind.
LEMMA HookStep == IInv /\ (Hook \/ HookFails) => IInv'
<1> SUFFICES ASSUME IInv PROVE Hook \/ HookFails => IInv'
  OBVIOUS
<1> USE DEF IInv, TypeOK, DriverTypeOK, DriverInv, PathsMatchBuffers,
            FreedMemoryConfined, NoBufferBetween, RequestListed, Parsing, ReleaseStale, MayCrash,
            storeVars, Ids, MaxReplies
<1>1. CASE Hook
  BY <1>1, MaxIdsAssumption DEF Hook, BeginUpload
<1>2. CASE HookFails
  BY <1>2, MaxIdsAssumption DEF HookFails
<1> QED BY <1>1, <1>2

\* An error is sent: the buffer being filled goes, upload() goes on at a place
\* at which it looks for the error, or returns.
LEMMA ErrorStep ==
    ASSUME IInv, pc \notin {"idle", "crashed"}, NEW buf \in {"NULL", "allocated", "freed"},
           NEW to \in {"idle", "parsed", "stored"},
           SendError(buf, to), upload_error' = 1,
           to = "idle" \/ upload_error = 0,
           current_id' \in 0 .. MaxIds,
           UNCHANGED <<current_info, infoIds, current_size, buffers, size, paths,
                       begun>>
    PROVE  IInv'
BY DEF IInv, TypeOK, DriverTypeOK, DriverInv, PathsMatchBuffers,
       FreedMemoryConfined, NoBufferBetween, RequestListed, Parsing, SendError, MayCrash, MaxReplies

\* The steps that end in an error.
LEMMA RefusalStep ==
    ASSUME IInv,
           \/ NotMultipart \/ HeaderNoMemory \/ Fail
           \/ \E len \in Lengths : DataTooLarge(len) \/ DataNoMemory(len)
    PROVE  IInv'
<1>1. /\ current_buf \in {"NULL", "allocated", "freed"}
      /\ current_id \in 0 .. MaxIds
      /\ pc \in {"check", "headers", "data"} => upload_error = 0
  BY DEF IInv, TypeOK, DriverInv
<1>2. CASE NotMultipart
  BY <1>1, <1>2, ErrorStep DEF NotMultipart, HeadersRefused, storeVars
<1>3. CASE HeaderNoMemory
  BY <1>1, <1>3, ErrorStep DEF HeaderNoMemory, HeaderRefused, storeVars
<1>4. ASSUME NEW len \in Lengths, DataTooLarge(len) PROVE IInv'
  BY <1>1, <1>4, ErrorStep DEF DataTooLarge, DataRefused, storeVars
<1>5. ASSUME NEW len \in Lengths, DataNoMemory(len) PROVE IInv'
  BY <1>1, <1>5, ErrorStep, MaxIdsAssumption DEF DataNoMemory, DataRefused
<1>6. CASE Fail
  BY <1>1, <1>6, ErrorStep DEF Fail, UploadFailed, storeVars
<1> QED BY <1>2, <1>3, <1>4, <1>5, <1>6

\* A part becomes a buffer.
LEMMA StoredStep ==
    ASSUME IInv, NEW len \in Lengths, DataStored(len)
    PROVE  IInv'
<1> USE DEF IInv, TypeOK, DataStored, Store, DataTaken, Goto
<1>1. /\ current_id \in Ids
      /\ current_id' \in 0 .. MaxIds
      /\ current_size' \in 0 .. MaxSize
  BY LengthsAssumption, MaxSizeAssumption, MaxIdsAssumption DEF Ids
<1>2. TypeOK'
  BY <1>1 DEF DriverTypeOK
<1>3. RequestListed'
  BY MaxIdsAssumption DEF RequestListed, Parsing, DriverInv
<1>4. /\ DriverInv' /\ PathsMatchBuffers' /\ FreedMemoryConfined'
      /\ NoBufferBetween'
  BY DEF DriverInv, PathsMatchBuffers, FreedMemoryConfined, NoBufferBetween
<1> QED BY <1>2, <1>3, <1>4

\* The steps of upload() in which the hooks do nothing, or only allocate.
LEMMA ParseStep == IInv /\ (Parse \/ Header) => IInv'
<1> SUFFICES ASSUME IInv, Parse \/ Header PROVE IInv'
  OBVIOUS
<1>1. /\ UNCHANGED <<upload_error, replies, current_info, infoIds, storeVars, begun>>
      /\ current_buf' = current_buf
         \/ (pc = "headers" /\ pc' = "headers" /\ current_buf' \in {current_buf, "allocated"})
  BY DEF Parse, Header, HeadersAccepted, PartBegins, PartMissing, HeadersEnd,
         DataFound, DataMissing, BailOut, LastPart, MoreParts, BadBody,
         HeaderTaken, Goto, ptrVars
<1>2. /\ pc \notin {"idle", "crashed"}
      /\ pc' \in {"boundary", "headers", "parsed", "data", "done", "failed", "crashed"}
      /\ pc' \in {"boundary", "headers", "data", "done"} =>
            upload_error = 0
      /\ pc' = "done" => pc = "stored"
      /\ pc' = "boundary" => pc \in {"check", "stored"}
  BY DEF IInv, DriverInv, Parse, Header, HeadersAccepted, PartBegins,
         PartMissing, HeadersEnd, DataFound, DataMissing, BailOut, LastPart,
         MoreParts, BadBody, HeaderTaken, Goto
<1> QED
  BY <1>1, <1>2
  DEF IInv, TypeOK, DriverTypeOK, DriverInv, PathsMatchBuffers,
      FreedMemoryConfined, NoBufferBetween, RequestListed, Parsing, storeVars

\* Every step keeps the invariant.
LEMMA IInvStep == IInv /\ [Next]_vars => IInv'
<1> SUFFICES ASSUME IInv, [Next]_vars PROVE IInv'
  OBVIOUS
<1> USE DEF IInv, TypeOK, DriverTypeOK, DriverInv, PathsMatchBuffers,
            FreedMemoryConfined, NoBufferBetween, RequestListed, Parsing
<1>1. CASE UNCHANGED vars
  BY <1>1 DEF vars, driverVars, ptrVars, storeVars
<1>2. ASSUME NEW len \in Lengths, DataWithoutBuffer(len) PROVE IInv'
  BY <1>2 DEF DataWithoutBuffer, ptrVars, storeVars
<1>3. CASE Succeed
  BY <1>3 DEF Succeed, UploadDone, Goto, storeVars, MaxReplies
<1>4. ASSUME NEW id \in Ids, Drop(id) PROVE IInv'
  BY <1>4 DEF Drop, driverVars, ptrVars
<1> QED
  BY <1>1, <1>2, <1>3, <1>4, HookStep, RefusalStep, StoredStep, ParseStep
  DEF Next

\* The invariant is inductive.
LEMMA Inductive == Spec => []IInv
BY IInvInit, IInvStep, PTL DEF Spec

---------------------------------------------------------------------------
(* Sums.                                                                   *)

\* A set of naturals has a least one.
LEMMA LeastNat ==
    ASSUME NEW T, T \subseteq Nat, T # {}
    PROVE  \E x \in T : \A y \in T : x <= y
<1>1. PICK x \in T : \A y \in T : ~ (<<y, x>> \in OpToRel(<, Nat))
  BY WFMin, NatLessThanWellFounded
<1>2. \A y \in T : ~ (y < x)
  BY <1>1 DEF OpToRel
<1> QED BY <1>2

\* Induction up to n: a set with 0 in it and with every number its predecessor
\* is in holds all of them.
LEMMA InductionUpTo ==
    ASSUME NEW n \in Nat, NEW S, 0 \in S,
           \A k \in 1 .. n : k - 1 \in S => k \in S
    PROVE  \A k \in 0 .. n : k \in S
<1> DEFINE T == (0 .. n) \ S
<1>1. SUFFICES ASSUME T # {} PROVE FALSE
  OBVIOUS
<1>2. PICK k \in T : \A y \in T : k <= y
  <2>1. T \subseteq Nat
    OBVIOUS
  <2> QED BY <1>1, <2>1, LeastNat
<1>3. k \in 1 .. n /\ k - 1 \in 0 .. n
  OBVIOUS
<1>4. k - 1 \notin T
  BY <1>2, <1>3
<1> QED BY <1>3, <1>4

\* There is a function on 0 .. n that begins with a and follows step.
Solvable(n, V, a, step) ==
    \E s \in [0 .. n -> V] :
        s[0] = a /\ \A k \in 1 .. n : s[k] = step[<<k, s[k - 1]>>]

\* A function defined by recursion on 0 .. n exists.
LEMMA Recursion ==
    ASSUME NEW n \in Nat, NEW V, NEW a \in V, NEW step \in [(1 .. n) \X V -> V]
    PROVE  Solvable(n, V, a, step)
<1> DEFINE Follows(s, m) == \A k \in 1 .. m : s[k] = step[<<k, s[k - 1]>>]
           S == {m \in 0 .. n : \E s \in [0 .. n -> V] : s[0] = a /\ Follows(s, m)}
<1>1. 0 \in S
  <2> DEFINE s == [k \in 0 .. n |-> a]
  <2>1. s \in [0 .. n -> V] /\ s[0] = a /\ 0 \in 0 .. n
    OBVIOUS
  <2>2. Follows(s, 0)
    OBVIOUS
  <2> HIDE DEF Follows, s
  <2> QED BY <2>1, <2>2
<1>2. ASSUME NEW m \in 1 .. n, m - 1 \in S PROVE m \in S
  <2>1. PICK s \in [0 .. n -> V] : s[0] = a /\ Follows(s, m - 1)
    BY <1>2
  <2>2. s[m - 1] \in V /\ step[<<m, s[m - 1]>>] \in V
    OBVIOUS
  <2> DEFINE t == [s EXCEPT ![m] = step[<<m, s[m - 1]>>]]
  <2>3. t \in [0 .. n -> V] /\ t[0] = a
    BY <2>1, <2>2
  <2>4. ASSUME NEW k \in 1 .. m PROVE t[k] = step[<<k, t[k - 1]>>]
    <3>1. t[k - 1] = s[k - 1] /\ k \in 0 .. n /\ k - 1 \in 0 .. n
      OBVIOUS
    <3>2. CASE k = m
      BY <3>1, <3>2
    <3>3. CASE k # m
      <4>1. k \in 1 .. m - 1
        BY <3>3
      <4>2. t[k] = s[k]
        BY <3>1, <3>3
      <4> QED BY <2>1, <3>1, <4>1, <4>2
    <3> QED BY <3>2, <3>3
  <2>5. Follows(t, m)
    BY <2>4
  <2>6. m \in 0 .. n
    OBVIOUS
  <2> HIDE DEF Follows, t
  <2> QED BY <2>3, <2>5, <2>6
<1>3. n \in S
  <2> HIDE DEF S
  <2>1. \A k \in 0 .. n : k \in S
    BY <1>1, <1>2, InductionUpTo
  <2> QED BY <2>1
<1> QED BY <1>3 DEF Solvable

\* The recursive definition of Total has a solution, and what it is.
LEMMA SumDef ==
    ASSUME NEW w \in [Ids -> Nat]
    PROVE  \E s \in [0 .. MaxIds -> Nat] :
              /\ s[0] = 0
              /\ \A k \in 1 .. MaxIds : s[k] = s[k - 1] + w[k - 1]
              /\ Total(w) = s[MaxIds]
<1> DEFINE step == [p \in (1 .. MaxIds) \X Nat |-> p[2] + w[p[1] - 1]]
           body(s) == [k \in 0 .. MaxIds |-> IF k = 0 THEN 0 ELSE s[k - 1] + w[k - 1]]
           sum == CHOOSE s : s = body(s)
<1>1. \A k \in 1 .. MaxIds : w[k - 1] \in Nat
  BY MaxIdsAssumption DEF Ids
<1>2. step \in [(1 .. MaxIds) \X Nat -> Nat]
  BY <1>1
<1>3. PICK f \in [0 .. MaxIds -> Nat] :
        f[0] = 0 /\ \A k \in 1 .. MaxIds : f[k] = step[<<k, f[k - 1]>>]
  <2>1. 0 \in Nat
    OBVIOUS
  <2> HIDE DEF step
  <2>2. Solvable(MaxIds, Nat, 0, step)
    BY <1>2, <2>1, Recursion, MaxIdsAssumption
  <2> QED BY <2>2 DEF Solvable
<1>4. ASSUME NEW k \in 1 .. MaxIds PROVE f[k] = f[k - 1] + w[k - 1]
  <2>1. k - 1 \in 0 .. MaxIds
    BY MaxIdsAssumption
  <2>2. <<k, f[k - 1]>> \in (1 .. MaxIds) \X Nat
    BY <2>1
  <2>3. step[<<k, f[k - 1]>>] = f[k - 1] + w[k - 1]
    BY <2>2
  <2> QED BY <1>3, <2>3
<1>5. f = body(f)
  BY <1>3, <1>4
<1>6. sum = body(sum)
  <2> HIDE DEF body
  <2> QED BY <1>5
<1>7. Total(w) = sum[MaxIds]
  BY DEF Total
<1> HIDE DEF sum
<1>8. sum[0] = 0 /\ \A k \in 1 .. MaxIds : sum[k] = sum[k - 1] + w[k - 1]
  BY <1>6, MaxIdsAssumption
<1>9. sum \in [0 .. MaxIds -> Nat]
  <2> DEFINE S == {k \in 0 .. MaxIds : sum[k] \in Nat}
  <2>1. 0 \in S
    BY <1>8, MaxIdsAssumption
  <2>2. ASSUME NEW k \in 1 .. MaxIds, k - 1 \in S PROVE k \in S
    BY <1>1, <1>8, <2>2
  <2>3. \A k \in 0 .. MaxIds : k \in S
    <3> HIDE DEF S
    <3> QED BY <2>1, <2>2, InductionUpTo, MaxIdsAssumption
  <2> QED BY <2>3, <1>6
<1> QED BY <1>7, <1>8, <1>9

\* The sum is a natural.
LEMMA SumNat ==
    ASSUME NEW w \in [Ids -> Nat]
    PROVE  Total(w) \in Nat
BY SumDef, MaxIdsAssumption

\* v exceeds w by at most len, at i: so does its sum.
LEMMA SumGrows ==
    ASSUME NEW v \in [Ids -> Nat], NEW w \in [Ids -> Nat], NEW i, NEW len \in Nat,
           i \in Ids => v[i] <= w[i] + len,
           \A j \in Ids : j # i => v[j] <= w[j]
    PROVE  Total(v) <= Total(w) + len
<1>1. PICK s \in [0 .. MaxIds -> Nat] :
        /\ s[0] = 0
        /\ \A k \in 1 .. MaxIds : s[k] = s[k - 1] + v[k - 1]
        /\ Total(v) = s[MaxIds]
  BY SumDef
<1>2. PICK t \in [0 .. MaxIds -> Nat] :
        /\ t[0] = 0
        /\ \A k \in 1 .. MaxIds : t[k] = t[k - 1] + w[k - 1]
        /\ Total(w) = t[MaxIds]
  BY SumDef
<1> DEFINE Below(k) == \E j \in Ids : j = i /\ j < k
           Extra(k) == IF Below(k) THEN len ELSE 0
           S == {k \in 0 .. MaxIds : s[k] <= t[k] + Extra(k)}
<1>3. 0 \in S
  BY <1>1, <1>2, MaxIdsAssumption
<1>4. ASSUME NEW k \in 1 .. MaxIds, k - 1 \in S PROVE k \in S
  <2>1. k - 1 \in Ids /\ k - 1 \in 0 .. MaxIds
    BY MaxIdsAssumption DEF Ids
  <2>2. v[k - 1] + Extra(k - 1) <= w[k - 1] + Extra(k)
    <3>1. CASE k - 1 = i
      BY <2>1, <3>1 DEF Ids
    <3>2. CASE k - 1 # i
      BY <2>1, <3>2 DEF Ids
    <3> QED BY <3>1, <3>2
  <2>3. s[k] = s[k - 1] + v[k - 1] /\ t[k] = t[k - 1] + w[k - 1]
    BY <1>1, <1>2
  <2>4. s[k - 1] <= t[k - 1] + Extra(k - 1)
    BY <1>4
  <2>5. s[k - 1] \in Nat /\ t[k - 1] \in Nat /\ v[k - 1] \in Nat /\ w[k - 1] \in Nat
        /\ Extra(k) \in Nat /\ Extra(k - 1) \in Nat
    BY <2>1
  <2> HIDE DEF Extra
  <2>6. s[k] <= t[k] + Extra(k)
    BY <2>2, <2>3, <2>4, <2>5
  <2> QED BY <2>6
<1>5. MaxIds \in S
  <2> HIDE DEF S
  <2>1. \A k \in 0 .. MaxIds : k \in S
    BY <1>3, <1>4, InductionUpTo, MaxIdsAssumption
  <2> QED BY <2>1, MaxIdsAssumption
<1> QED BY <1>1, <1>2, <1>5, MaxIdsAssumption
---------------------------------------------------------------------------
(* The limit on the size.                                                  *)

\* Lengths are naturals.
LEMMA LengthNat == \A len \in Lengths \cup {0} : len \in Nat
BY LengthsAssumption

\* What the listed buffers hold has a sum.
LEMMA HeldNat == TypeOK => Held \in [Ids -> Nat]
<1> SUFFICES ASSUME TypeOK PROVE Held \in [Ids -> Nat]
  OBVIOUS
<1>1. buffers \subseteq Ids /\ size \in [Ids -> Lengths \cup {0}]
  BY DEF TypeOK
<1>2. ASSUME NEW id \in Ids PROVE size[id] \in Nat
  <2>1. size[id] \in Lengths \cup {0}
    BY <1>1
  <2> QED BY <2>1, LengthNat
<1> QED BY <1>2 DEF Held

\* Where the listed buffers hold at most len more than before, in one of them,
\* and len was counted, the limit still holds.
LEMMA CountedStep ==
    ASSUME TypeOK, TypeOK', SizeBounded, NEW id \in Ids, NEW len \in Nat,
           Held'[id] <= Held[id] + len,
           \A j \in Ids : j # id => Held'[j] <= Held[j],
           current_size' = current_size + len
    PROVE  SizeBounded'
<1>1. Held \in [Ids -> Nat]
  BY HeldNat
<1>2. Held' \in [Ids -> Nat]
  <2>1. buffers' \subseteq Ids /\ size' \in [Ids -> Lengths \cup {0}]
    BY DEF TypeOK
  <2>2. ASSUME NEW j \in Ids PROVE size'[j] \in Nat
    <3>1. size'[j] \in Lengths \cup {0}
      BY <2>1
    <3> QED BY <3>1, LengthNat
  <2> QED BY <2>2 DEF Held
<1>3. Total(Held') <= Total(Held) + len
  BY <1>1, <1>2, SumGrows
<1>4. Total(Held) \in Nat /\ Total(Held') \in Nat
  BY <1>1, <1>2, SumNat
<1>5. current_size \in Nat /\ current_size' <= MaxSize
  BY MaxSizeAssumption DEF TypeOK
<1> QED BY <1>3, <1>4, <1>5 DEF SizeBounded

\* Every step keeps to the limit: DataStored counts what it adds, Drop takes a
\* buffer away, and the others leave the buffers alone.
LEMMA SizeStep ==
    ASSUME TypeOK, TypeOK', SizeBounded, [Next]_vars
    PROVE  SizeBounded'
<1>1. ASSUME NEW len \in Lengths, DataStored(len) PROVE SizeBounded'
  <2>1. len \in Nat /\ current_id \in Ids
    BY <1>1, LengthsAssumption, MaxIdsAssumption DEF DataStored, Store, TypeOK, Ids
  <2>2. Held'[current_id] = len /\ Held[current_id] \in Nat
    BY <1>1, <2>1, HeldNat DEF DataStored, Store, TypeOK, Held, Ids
  <2>3. \A j \in Ids : j # current_id => Held'[j] = Held[j]
    BY <1>1 DEF DataStored, Store, TypeOK, Held
  <2>4. \A j \in Ids : Held[j] \in Nat
    BY HeldNat
  <2>5. current_size' = current_size + len 
    BY <1>1 DEF DataStored
  <2> QED BY <2>1, <2>2, <2>3, <2>4, <2>5, CountedStep
<1>2. ASSUME NEW id \in Ids, Drop(id) PROVE SizeBounded'
  <2>1. \A j \in Ids : Held[j] \in Nat
    BY HeldNat
  <2>2. \A j \in Ids : Held'[j] <= Held[j]
    BY <1>2, <2>1 DEF Drop, Held
  <2>3. current_size' = current_size + 0
    BY <1>2 DEF Drop, TypeOK
  <2> QED BY <2>1, <2>2, <2>3, CountedStep
<1>3. CASE UNCHANGED <<current_size, buffers, size>>
  BY <1>3 DEF SizeBounded, Held
<1>4. \/ UNCHANGED <<current_size, buffers, size>>
      \/ \E len \in Lengths : DataStored(len)
      \/ \E id \in Ids : Drop(id)
  BY DEF Next, vars, storeVars, Hook, HookFails, NotMultipart, Parse, Header,
         HeaderNoMemory, DataWithoutBuffer, DataTooLarge, DataNoMemory, Fail,
         Succeed
<1> QED BY <1>1, <1>2, <1>3, <1>4

---------------------------------------------------------------------------
\* bdata->current_size never exceeds bdata->max_size, and all other variables
\* keep their types.
THEOREM TypeCorrect == Spec => []TypeOK
BY Inductive, PTL DEF IInv

\* The bytes in the buffers on the list never exceed what was counted as
\* accepted, and that never exceeds bdata->max_size, whatever is stored and
\* dropped in between.
THEOREM SizeAlwaysBounded == Spec => []SizeBounded
<1>1. Init => SizeBounded
  <2> SUFFICES ASSUME Init PROVE SizeBounded
    OBVIOUS
  <2>1. Held = [id \in Ids |-> 0]
    BY DEF Init, Held
  <2>2. Held \in [Ids -> Nat]
    BY <2>1
  <2>3. PICK s \in [0 .. MaxIds -> Nat] :
          /\ s[0] = 0
          /\ \A k \in 1 .. MaxIds : s[k] = s[k - 1] + Held[k - 1]
          /\ Total(Held) = s[MaxIds]
    BY <2>2, SumDef
  <2> DEFINE S == {k \in 0 .. MaxIds : s[k] = 0}
  <2>4. 0 \in S
    BY <2>3, MaxIdsAssumption
  <2>5. ASSUME NEW k \in 1 .. MaxIds, k - 1 \in S PROVE k \in S
    <3>1. k - 1 \in Ids
      BY MaxIdsAssumption DEF Ids
    <3>2. s[k] = s[k - 1] + 0
      BY <2>1, <2>3, <3>1
    <3> QED BY <2>5, <3>2
  <2>6. MaxIds \in S
    <3> HIDE DEF S
    <3>1. \A k \in 0 .. MaxIds : k \in S
      BY <2>4, <2>5, InductionUpTo, MaxIdsAssumption
    <3> QED BY <3>1, MaxIdsAssumption
  <2> QED BY <2>3, <2>6, MaxSizeAssumption DEF Init, SizeBounded
<1>2. TypeOK /\ TypeOK' /\ SizeBounded /\ [Next]_vars => SizeBounded'
  BY SizeStep
<1> QED BY <1>1, <1>2, TypeCorrect, PTL DEF Spec

\* The handlers of /download/<id> and /drop/<id> are registered for exactly the
\* buffers on the list.
THEOREM PathsAlwaysMatch == Spec => []PathsMatchBuffers
BY Inductive, PTL DEF IInv

\* Whatever happened before, between requests current_info points to a released
\* array exactly after a success and current_buf to a released buffer only after
\* a failure. buffer_handle_rq_headers() meets these and no others, and the
\* hooks behind it, until one fails, meet none.
THEOREM FreedMemoryAlwaysConfined == Spec => []FreedMemoryConfined
BY Inductive, PTL DEF IInv

\* The reply of buffer_send_result() lists what the request has stored and
\* nothing else.
THEOREM ReplyAlwaysListsUpload == Spec => []ReplyListsUpload
<1>1. IInv => ReplyListsUpload
  <2> SUFFICES ASSUME IInv, pc = "done" PROVE ReplyListsUpload
    BY DEF ReplyListsUpload
  <2>1. /\ infoIds = begun .. current_id - 1 /\ infoIds \subseteq buffers
        /\ begun < current_id
    BY DEF IInv, DriverInv, RequestListed, Parsing
  <2>2. begun \in Nat /\ current_id \in Nat
    BY MaxIdsAssumption DEF IInv, TypeOK
  <2>3. begun \in infoIds
    BY <2>1, <2>2
  <2> QED BY <2>1, <2>3 DEF ReplyListsUpload
<1> QED BY <1>1, Inductive, PTL

\* upload() answers every request before it returns: once, or twice if a hook
\* had failed before.
THEOREM UploadsAnswered == Spec => EveryUploadAnswered
<1> DEFINE Answered ==
        pc # "idle" /\ pc' = "idle" => replies' = 1 + upload_error
<1>1. IInv /\ [Next]_vars => [Answered]_driverVars
  <2> SUFFICES ASSUME IInv, [Next]_vars, pc # "idle", pc' = "idle" PROVE Answered
    OBVIOUS
  <2>1. NotMultipart \/ Fail \/ Succeed
    <3>1. CASE UNCHANGED vars
      BY <3>1 DEF vars, driverVars
    <3>2. CASE Parse \/ Header \/ HeaderNoMemory
      BY <3>2 DEF Parse, Header, HeadersAccepted, PartBegins, PartMissing,
                  HeadersEnd, DataFound, DataMissing, BailOut, LastPart,
                  MoreParts, BadBody, HeaderTaken, Goto, HeaderNoMemory,
                  SendError, MayCrash
    <3>3. ASSUME NEW len \in Lengths,
                 \/ DataWithoutBuffer(len) \/ DataStored(len)
                 \/ DataTooLarge(len) \/ DataNoMemory(len)
          PROVE  FALSE
      BY <3>3 DEF DataWithoutBuffer, DataStored, Store, DataTaken, Goto,
                  DataTooLarge, DataNoMemory, SendError, MayCrash
    <3> QED
      BY <3>1, <3>2, <3>3 DEF Next, Hook, BeginUpload, HookFails, Drop
  <2>2. replies \in Nat /\ upload_error \in {0, 1}
    BY DEF IInv, TypeOK, DriverTypeOK, MaxReplies
  <2>3. CASE NotMultipart \/ Fail
    BY <2>2, <2>3 DEF NotMultipart, HeadersRefused, Fail, UploadFailed, SendError,
                      IInv, DriverInv
  <2>4. CASE Succeed
    BY <2>2, <2>4 DEF Succeed, UploadDone, Goto, IInv, DriverInv
  <2> QED BY <2>1, <2>3, <2>4
<1> QED BY <1>1, Inductive, PTL DEF Spec, EveryUploadAnswered

---------------------------------------------------------------------------
(* Upload mode "file": the same driver with the hooks of UploadFile.       *)
\* What is listed so far is what this request has opened, and something is
\* listed once a part was stored.
ListedSoFar ==
    Parsing => /\ listed = {n \in Names : disk[n] \in {"new", "short"}}
               /\ pc \in {"stored", "done"} => listed # {}

FileIInv ==
    /\ FileTypeOK
    /\ DriverInv
    /\ ReplyOwned
    /\ ListedSoFar

\* The invariant holds when file_init() returns.
LEMMA FileIInvInit == FileInit => FileIInv
<1> SUFFICES ASSUME FileInit PROVE FileIInv
  OBVIOUS
<1>1. original_filename \in BOOLEAN
  BY DEF FileInit
<1> QED
  BY <1>1 DEF FileInit, DriverInit, FileIInv, FileTypeOK,
              DriverTypeOK, DriverInv, ReplyOwned, ListedSoFar,
              Parsing, MaxReplies

---------------------------------------------------------------------------
(* One lemma for each group of steps.                                      *)

\* The hook of a new request.
LEMMA FileHookStep ==
    FileIInv /\ (FileHook \/ FileHookFails) /\ UNCHANGED original_filename =>
        FileIInv'
<1> SUFFICES ASSUME FileIInv, UNCHANGED original_filename,
                    FileHook \/ FileHookFails
             PROVE  FileIInv'
  OBVIOUS
<1>1. /\ disk' \in [Names -> {"absent", "old", "new", "short"}]
      /\ \A n \in Names : disk'[n] \notin {"new", "short"}
  BY DEF FileHook, FileHookFails, Aged, FileIInv, FileTypeOK
<1> QED
  BY <1>1
  DEF FileHook, FileHookFails, BeginUpload, FileIInv, FileTypeOK,
      DriverTypeOK, DriverInv, ReplyOwned, ListedSoFar,
      Parsing, MaxReplies

\* An error is sent, by a hook or by upload(), and the reply array goes.
LEMMA FileErrorStep ==
    ASSUME FileIInv, UNCHANGED original_filename,
           \/ FileNotMultipart \/ HeaderUnnamed \/ FileFail
           \/ \E n \in Names : DataUnwritten(n)
    PROVE  FileIInv'
<1> USE DEF FileIInv, FileTypeOK, DriverTypeOK, DriverInv,
            ReplyOwned, ListedSoFar, Parsing, FileSendError,
            Finalize, MaxReplies
<1>1. CASE FileNotMultipart
  BY <1>1 DEF FileNotMultipart, HeadersRefused
<1>2. CASE HeaderUnnamed
  BY <1>2 DEF HeaderUnnamed, HeaderRefused
<1>3. ASSUME NEW n \in Names, DataUnwritten(n) PROVE FileIInv'
  BY <1>3 DEF DataUnwritten, DataRefused
<1>4. CASE FileFail
  BY <1>4 DEF FileFail, UploadFailed
<1> QED BY <1>1, <1>2, <1>3, <1>4

\* The steps of upload() in which the hooks do nothing, or only take a name.
LEMMA FileParseStep ==
    ASSUME FileIInv, UNCHANGED original_filename,
           FileParse \/ HeaderIgnored \/ HeaderNamed
    PROVE  FileIInv'
<1>1. /\ UNCHANGED <<upload_error, replies, reply, listed, disk>>
      /\ filename' \in Names \cup {NoName}
  BY DEF FileIInv, FileTypeOK, FileParse, HeaderIgnored,
         HeaderNamed, HeadersAccepted, PartBegins,
         PartMissing, HeadersEnd, DataFound, DataMissing,
         BailOut, LastPart, MoreParts, BadBody,
         HeaderTaken, modVars
<1>2. /\ pc \notin {"idle", "crashed"}
      /\ pc' \in {"boundary", "headers", "parsed", "data", "done", "failed", "crashed"}
      /\ pc' \in {"boundary", "headers", "data", "done"} => upload_error = 0
      /\ pc' = "done" => pc = "stored"
  BY DEF FileIInv, DriverInv, FileParse, HeaderIgnored,
         HeaderNamed, HeadersAccepted, PartBegins,
         PartMissing, HeadersEnd, DataFound, DataMissing,
         BailOut, LastPart, MoreParts, BadBody,
         HeaderTaken, Goto
<1> QED
  BY <1>1, <1>2
  DEF FileIInv, FileTypeOK, DriverTypeOK, DriverInv, ReplyOwned,
      ListedSoFar, Parsing

\* Every step keeps the invariant.
LEMMA FileIInvStep == FileIInv /\ [FileNext]_fileVars => FileIInv'
<1> SUFFICES ASSUME FileIInv, [FileNext]_fileVars PROVE FileIInv'
  OBVIOUS
<1> USE DEF FileIInv, FileTypeOK, DriverTypeOK, DriverInv,
            ReplyOwned, ListedSoFar, Parsing
<1>1. CASE UNCHANGED fileVars
  BY <1>1 DEF fileVars, driverVars, modVars
<1>2. CASE DataUnnamed /\ UNCHANGED original_filename
  BY <1>2 DEF DataUnnamed, modVars
<1>3. ASSUME NEW n \in Names, FileDataStored(n), UNCHANGED original_filename
      PROVE  FileIInv'
  BY <1>3 DEF FileDataStored, Dumped, DataTaken, Goto
<1>4. CASE FileSucceed /\ UNCHANGED original_filename
  BY <1>4 DEF FileSucceed, UploadDone, Goto, Finalize,
              MaxReplies
<1> QED
  BY <1>1, <1>2, <1>3, <1>4, FileHookStep, FileErrorStep, FileParseStep
  DEF FileNext

\* The invariant is inductive.
LEMMA FileInductive == FileSpec => []FileIInv
BY FileIInvInit, FileIInvStep, PTL DEF FileSpec

---------------------------------------------------------------------------
\* fdata->reply belongs to one request: no request finds one released, and none
\* leaves one behind, although the error path releases it twice.
THEOREM ReplyAlwaysOwned == FileSpec => []ReplyOwned
BY FileInductive, PTL DEF FileIInv

\* The reply of a successful upload names exactly the files this request has
\* opened for writing, whether or not the writes succeeded.
THEOREM ListedAlwaysOwn == FileSpec => []ListedFilesOwn
<1>1. FileIInv => ListedFilesOwn
  BY DEF FileIInv, FileTypeOK, DriverInv, ListedSoFar, Parsing,
         ListedFilesOwn
<1> QED BY <1>1, FileInductive, PTL

\* upload() answers every request before it returns, once, or twice if a hook
\* had failed, with the hooks of this mode too.
THEOREM FileUploadsAnswered == FileSpec => EveryUploadAnswered
<1> DEFINE Answered ==
        pc # "idle" /\ pc' = "idle" => replies' = 1 + upload_error
<1>1. FileIInv /\ [FileNext]_fileVars => [Answered]_driverVars
  <2> SUFFICES ASSUME FileIInv, [FileNext]_fileVars, pc # "idle", pc' = "idle"
               PROVE  Answered
    OBVIOUS
  <2>1. FileNotMultipart \/ FileFail \/ FileSucceed
    <3>1. CASE UNCHANGED fileVars
      BY <3>1 DEF fileVars, driverVars
    <3>2. CASE \/ FileParse \/ HeaderIgnored \/ HeaderNamed
               \/ HeaderUnnamed
      BY <3>2 DEF FileParse, HeadersAccepted, PartBegins,
                  PartMissing, HeadersEnd, DataFound,
                  DataMissing, BailOut, LastPart, MoreParts,
                  BadBody, HeaderIgnored, HeaderNamed,
                  HeaderTaken, Goto, HeaderUnnamed,
                  FileSendError
    <3>3. ASSUME NEW n \in Names, FileDataStored(n) \/ DataUnwritten(n)
          PROVE  FALSE
      BY <3>3 DEF FileDataStored, Dumped, DataTaken, Goto, DataUnwritten
    <3> QED
      BY <3>1, <3>2, <3>3 DEF FileNext, FileHook, BeginUpload,
                              FileHookFails, DataUnnamed
  <2>2. replies \in Nat /\ upload_error \in {0, 1}
    BY DEF FileIInv, FileTypeOK, DriverTypeOK, MaxReplies
  <2>3. CASE FileNotMultipart \/ FileFail
    BY <2>2, <2>3 DEF FileNotMultipart, HeadersRefused, FileFail,
                      UploadFailed, FileSendError, Finalize, FileIInv,
                      DriverInv
  <2>4. CASE FileSucceed
    BY <2>2, <2>4 DEF FileSucceed, UploadDone, Goto, Finalize,
                      FileIInv, DriverInv
  <2> QED BY <2>1, <2>3, <2>4
<1> QED BY <1>1, FileInductive, PTL DEF FileSpec, EveryUploadAnswered

---------------------------------------------------------------------------
(* The parser: Multipart. A body that is whole, and whose chains leave the  *)
(* pointer of each part valid, reaches the module as it was sent. First how *)
(* the bodies are laid out, then what is left of one, then what the parser  *)
(* finds at each of its places.                                             *)

Unit == {"B", "N", "D", "h", "x"}

\* What a part looks like.
GoodPart(p) == p.headers \in Nat /\ p.data \in Seq(Unit \ {"B"})

\* A part and what follows it, by position.
Laid(p, t, s) ==
    LET h == 2 * p.headers
        l == Len(p.data)
    IN  /\ s \in Seq(Unit)
        /\ Len(s) = h + l + 4 + Len(t)
        /\ s[1] = "B" /\ s[2] = "N"
        /\ \A i \in 1 .. h : s[i + 2] = IF i % 2 = 1 THEN "h" ELSE "N"
        /\ s[h + 3] = "N"
        /\ \A i \in 1 .. l : s[i + h + 3] = p.data[i]
        /\ s[h + l + 4] = "N"
        /\ \A i \in 1 .. Len(t) : s[i + h + l + 4] = t[i]

\* r is s with t behind it, by length and by element.
Joins(r, s, m, t, l) ==
    /\ r \in Seq(Unit) /\ Len(r) = m + l
    /\ \A i \in 1 .. m : r[i] = s[i]
    /\ \A i \in 1 .. l : r[m + i] = t[i]

\* Concatenation does that.
LEMMA Joined ==
    ASSUME NEW s \in Seq(Unit), NEW m, Len(s) = m,
           NEW t \in Seq(Unit), NEW l, Len(t) = l
    PROVE  Joins(s \o t, s, m, t, l)
<1>1. /\ s \o t \in Seq(Unit) /\ Len(s \o t) = Len(s) + Len(t)
      /\ \A i \in 1 .. Len(s) + Len(t) : (s \o t)[i] =
            IF i <= Len(s) THEN s[i] ELSE t[i - Len(s)]
  BY ConcatProperties
<1>2. Len(s) \in Nat /\ Len(t) \in Nat
  OBVIOUS
<1>3. ASSUME NEW i \in 1 .. Len(s) PROVE (s \o t)[i] = s[i]
  <2>1. i \in 1 .. Len(s) + Len(t) /\ i <= Len(s)
    BY <1>2
  <2> QED BY <1>1, <2>1
<1>4. ASSUME NEW i \in 1 .. Len(t) PROVE (s \o t)[Len(s) + i] = t[i]
  <2>1. Len(s) + i \in 1 .. Len(s) + Len(t) /\ ~ (Len(s) + i <= Len(s))
        /\ Len(s) + i - Len(s) = i
    BY <1>2
  <2> QED BY <1>1, <2>1
<1> QED BY <1>1, <1>2, <1>3, <1>4 DEF Joins

\* The sizes of a part are numbers.
LEMMA PartSizes ==
    ASSUME NEW p, GoodPart(p)
    PROVE  2 * p.headers \in Nat /\ Len(p.data) \in Nat
  BY DEF GoodPart

\* The head of a part, by position.
LEMMA HeadLaid ==
    ASSUME NEW p, GoodPart(p)
    PROVE  /\ HeadOf(p) \in Seq(Unit) /\ Len(HeadOf(p)) = 2 * p.headers + 3
           /\ HeadOf(p)[1] = "B" /\ HeadOf(p)[2] = "N"
           /\ \A i \in 1 .. 2 * p.headers :
                 HeadOf(p)[i + 2] = IF i % 2 = 1 THEN "h" ELSE "N"
           /\ HeadOf(p)[2 * p.headers + 3] = "N"
<1> DEFINE h == 2 * p.headers
           lines == [i \in 1 .. h |-> IF i % 2 = 1 THEN "h" ELSE "N"]
           two == <<"B", "N">>
           one == <<"N">>
           a == two \o lines
           b == a \o one
<1>1. h \in Nat
  BY DEF GoodPart
<1>2. lines \in Seq(Unit) /\ Len(lines) = h
  <2>1. lines \in [1 .. h -> Unit]
    BY DEF Unit
  <2> HIDE DEF lines
  <2> QED BY <1>1, <2>1
<1>3. \A i \in 1 .. h : lines[i] = IF i % 2 = 1 THEN "h" ELSE "N"
  OBVIOUS
<1> HIDE DEF lines
<1>4. /\ two \in Seq(Unit) /\ Len(two) = 2 /\ two[1] = "B" /\ two[2] = "N"
      /\ one \in Seq(Unit) /\ Len(one) = 1 /\ one[1] = "N"
  BY DEF Unit
<1> HIDE DEF two, one
<1>5. /\ a \in Seq(Unit) /\ Len(a) = 2 + h
      /\ \A i \in 1 .. 2 : a[i] = two[i]
      /\ \A i \in 1 .. h : a[2 + i] = lines[i]
  <2>1. Joins(a, two, 2, lines, h)
    BY <1>2, <1>4, Joined
  <2> QED BY <2>1 DEF Joins
<1> HIDE DEF a
<1>6. /\ b \in Seq(Unit) /\ Len(b) = 2 + h + 1
      /\ \A i \in 1 .. 2 + h : b[i] = a[i]
      /\ \A i \in 1 .. 1 : b[2 + h + i] = one[i]
  <2>1. Joins(b, a, 2 + h, one, 1)
    BY <1>4, <1>5, Joined
  <2> QED BY <2>1 DEF Joins
<1> HIDE DEF b, h
<1>7. b[1] = "B" /\ b[2] = "N"
  <2>1. 1 \in 1 .. 2 /\ 2 \in 1 .. 2 /\ 1 \in 1 .. 2 + h /\ 2 \in 1 .. 2 + h
    BY <1>1
  <2> QED BY <1>4, <1>5, <1>6, <2>1
<1>8. ASSUME NEW i \in 1 .. h PROVE b[i + 2] = IF i % 2 = 1 THEN "h" ELSE "N"
  <2>1. 2 + i \in 1 .. 2 + h /\ i + 2 = 2 + i
    BY <1>1
  <2> QED BY <1>3, <1>5, <1>6, <2>1
<1>9. b[h + 3] = "N"
  <2>1. 1 \in 1 .. 1 /\ h + 3 = 2 + h + 1
    BY <1>1
  <2> QED BY <1>4, <1>6, <2>1
<1>10. HeadOf(p) = b
  BY DEF HeadOf, b, a, lines, two, one, h
<1>11. 2 + h + 1 = h + 3
  BY <1>1
<1> QED BY <1>6, <1>7, <1>8, <1>9, <1>10, <1>11 DEF h

\* A part and what follows it are laid out like that.
LEMMA PartLaid ==
    ASSUME NEW p, GoodPart(p), NEW t \in Seq(Unit)
    PROVE  Laid(p, t, HeadOf(p) \o p.data \o <<"N">> \o t)
<1> DEFINE h == 2 * p.headers
           l == Len(p.data)
           one == <<"N">>
           b == HeadOf(p)
           c == b \o p.data
           d == c \o one
           s == d \o t
<1>1. h \in Nat /\ l \in Nat /\ p.data \in Seq(Unit) /\ Len(t) \in Nat
  BY DEF GoodPart
<1>2. one \in Seq(Unit) /\ Len(one) = 1 /\ one[1] = "N"
  BY DEF Unit
<1>3. /\ b \in Seq(Unit) /\ Len(b) = h + 3 /\ b[1] = "B" /\ b[2] = "N"
      /\ \A i \in 1 .. h : b[i + 2] = IF i % 2 = 1 THEN "h" ELSE "N"
      /\ b[h + 3] = "N"
  BY HeadLaid
<1> HIDE DEF b, one
<1>4. /\ c \in Seq(Unit) /\ Len(c) = h + 3 + l
      /\ \A i \in 1 .. h + 3 : c[i] = b[i]
      /\ \A i \in 1 .. l : c[h + 3 + i] = p.data[i]
  <2>1. Joins(c, b, h + 3, p.data, l)
    BY <1>1, <1>3, Joined
  <2> QED BY <2>1 DEF Joins
<1> HIDE DEF c, h, l
<1>5. /\ d \in Seq(Unit) /\ Len(d) = h + 3 + l + 1
      /\ \A i \in 1 .. h + 3 + l : d[i] = c[i]
      /\ \A i \in 1 .. 1 : d[h + 3 + l + i] = one[i]
  <2>1. Joins(d, c, h + 3 + l, one, 1)
    BY <1>2, <1>4, Joined
  <2> QED BY <2>1 DEF Joins
<1> HIDE DEF d
<1>6. /\ s \in Seq(Unit) /\ Len(s) = h + 3 + l + 1 + Len(t)
      /\ \A i \in 1 .. h + 3 + l + 1 : s[i] = d[i]
      /\ \A i \in 1 .. Len(t) : s[h + 3 + l + 1 + i] = t[i]
  <2>1. Joins(s, d, h + 3 + l + 1, t, Len(t))
    BY <1>5, Joined
  <2> QED BY <2>1 DEF Joins
<1> HIDE DEF s
<1>7. ASSUME NEW i \in 1 .. h + 3 PROVE s[i] = b[i]
  <2>1. i \in 1 .. h + 3 + l /\ i \in 1 .. h + 3 + l + 1
    BY <1>1
  <2> QED BY <1>4, <1>5, <1>6, <2>1
<1>8. s[1] = "B" /\ s[2] = "N" /\ s[h + 3] = "N"
  <2>1. 1 \in 1 .. h + 3 /\ 2 \in 1 .. h + 3 /\ h + 3 \in 1 .. h + 3
    BY <1>1
  <2> QED BY <1>3, <1>7, <2>1
<1>9. ASSUME NEW i \in 1 .. h PROVE s[i + 2] = IF i % 2 = 1 THEN "h" ELSE "N"
  <2>1. i + 2 \in 1 .. h + 3
    BY <1>1
  <2> QED BY <1>3, <1>7, <2>1
<1>10. ASSUME NEW i \in 1 .. l PROVE s[i + h + 3] = p.data[i]
  <2>1. /\ h + 3 + i \in 1 .. h + 3 + l /\ h + 3 + i \in 1 .. h + 3 + l + 1
        /\ i + h + 3 = h + 3 + i
    BY <1>1
  <2> QED BY <1>4, <1>5, <1>6, <2>1
<1>11. s[h + l + 4] = "N"
  <2>1. /\ 1 \in 1 .. 1 /\ h + l + 4 = h + 3 + l + 1
        /\ h + l + 4 \in 1 .. h + 3 + l + 1
    BY <1>1
  <2> QED BY <1>2, <1>5, <1>6, <2>1
<1>12. ASSUME NEW i \in 1 .. Len(t) PROVE s[i + h + l + 4] = t[i]
  <2>1. i + h + l + 4 = h + 3 + l + 1 + i
    BY <1>1
  <2> QED BY <1>6, <2>1
<1>13. Len(s) = h + l + 4 + Len(t)
  BY <1>1, <1>6
<1>14. Laid(p, t, s)
  BY <1>6, <1>8, <1>9, <1>10, <1>11, <1>12, <1>13 DEF Laid, h, l
<1> QED BY <1>14 DEF s, d, c, b, one

\* The body from each part on.
LEMMA FromDef ==
    ASSUME NEW parts, Len(parts) \in Nat,
           \A k \in 1 .. Len(parts) : GoodPart(parts[k])
    PROVE  /\ From(parts, Len(parts) + 1) = <<"B", "D">>
           /\ \A k \in 1 .. Len(parts) + 1 : From(parts, k) \in Seq(Unit)
           /\ \A k \in 1 .. Len(parts) :
                 Laid(parts[k], From(parts, k + 1), From(parts, k))
<1> DEFINE n == Len(parts)
           base == <<"B", "D">>
           P(j) == parts[n - j + 1]
           Put(j, t) == HeadOf(P(j)) \o P(j).data \o <<"N">> \o t
           V == Seq(Unit)
           step == [q \in (1 .. n) \X V |-> Put(q[1], q[2])]
           body(s) == [j \in 0 .. n |-> IF j = 0 THEN base ELSE Put(j, s[j - 1])]
           last == CHOOSE s : s = body(s)
<1>0. n \in Nat
  OBVIOUS
<1>1. \A j \in 1 .. n : GoodPart(P(j))
  OBVIOUS
<1>2. \A j \in 1 .. n : \A t \in V : Laid(P(j), t, Put(j, t)) /\ Put(j, t) \in V
  <2> TAKE j \in 1 .. n
  <2> TAKE t \in V
  <2>1. GoodPart(P(j))
    BY <1>1
  <2> HIDE DEF P
  <2>2. Laid(P(j), t, Put(j, t))
    BY <2>1, PartLaid
  <2> QED BY <2>2 DEF Laid
<1> HIDE DEF Put
<1>3. step \in [(1 .. n) \X V -> V]
  <2> HIDE DEF V, n
  <2> QED BY <1>2
<1>4. base \in V
  BY DEF Unit
<1> HIDE DEF base
<1>5. PICK f \in [0 .. n -> V] :
        f[0] = base /\ \A k \in 1 .. n : f[k] = step[<<k, f[k - 1]>>]
  <2> HIDE DEF step, V, n
  <2>1. Solvable(n, V, base, step)
    BY <1>0, <1>3, <1>4, Recursion
  <2> QED BY <2>1 DEF Solvable
<1>6. ASSUME NEW j \in 1 .. n PROVE f[j] = Put(j, f[j - 1])
  <2>1. j - 1 \in 0 .. n
    OBVIOUS
  <2> HIDE DEF V, n
  <2>2. <<j, f[j - 1]>> \in (1 .. n) \X V
    BY <2>1
  <2>3. step[<<j, f[j - 1]>>] = Put(j, f[j - 1])
    BY <2>2
  <2> QED BY <1>5, <2>3
<1>7. f = body(f)
  <2> HIDE DEF V, n
  <2>1. ASSUME NEW j \in 0 .. n
        PROVE  f[j] = IF j = 0 THEN base ELSE Put(j, f[j - 1])
    <3>1. j = 0 \/ j \in 1 .. n
      BY <1>0
    <3> QED BY <1>5, <1>6, <3>1
  <2>2. f = [j \in 0 .. n |-> f[j]]
    OBVIOUS
  <2> QED BY <2>1, <2>2
<1>8. last = body(last)
  <2> HIDE DEF body
  <2> QED BY <1>7
<1>9. \A k : From(parts, k) = last[n + 1 - k]
  BY DEF From, Put, base
<1> HIDE DEF last
<1>10. last[0] = base /\ \A j \in 1 .. n : last[j] = Put(j, last[j - 1])
  <2> HIDE DEF n
  <2>1. 0 \in 0 .. n /\ \A j \in 1 .. n : j \in 0 .. n /\ j # 0
    BY <1>0
  <2>2. \A j \in 0 .. n : last[j] = IF j = 0 THEN base ELSE Put(j, last[j - 1])
    BY <1>8
  <2> QED BY <2>1, <2>2
<1>11. \A j \in 0 .. n : last[j] \in V
  <2> DEFINE S == {j \in 0 .. n : last[j] \in V}
  <2> HIDE DEF V, n
  <2>1. 0 \in S
    BY <1>0, <1>4, <1>10
  <2>2. ASSUME NEW j \in 1 .. n, j - 1 \in S PROVE j \in S
    <3>1. last[j] \in V
      BY <1>2, <1>10, <2>2
    <3> QED BY <3>1
  <2>3. \A j \in 0 .. n : j \in S
    <3> HIDE DEF S
    <3> QED BY <1>0, <2>1, <2>2, InductionUpTo
  <2> QED BY <2>3
<1>12. From(parts, n + 1) = base
  <2>1. n + 1 - (n + 1) = 0
    OBVIOUS
  <2> QED BY <1>9, <1>10, <2>1
<1>13. ASSUME NEW k \in 1 .. n + 1 PROVE From(parts, k) \in V
  <2>1. n + 1 - k \in 0 .. n
    OBVIOUS
  <2> QED BY <1>9, <1>11, <2>1
<1>14. ASSUME NEW k \in 1 .. n PROVE Laid(parts[k], From(parts, k + 1), From(parts, k))
  <2> DEFINE j == n + 1 - k
  <2>1. j \in 1 .. n /\ n + 1 - (k + 1) = j - 1 /\ j - 1 \in 0 .. n /\ n - j + 1 = k
    OBVIOUS
  <2>2. From(parts, k) = last[j] /\ From(parts, k + 1) = last[j - 1] /\ P(j) = parts[k]
    BY <1>9, <2>1
  <2> HIDE DEF j, V, P
  <2>3. last[j] = Put(j, last[j - 1]) /\ last[j - 1] \in V
    BY <1>10, <1>11, <2>1
  <2>4. Laid(P(j), last[j - 1], last[j])
    BY <1>2, <2>1, <2>3
  <2> QED BY <2>2, <2>4
<1> QED BY <1>12, <1>13, <1>14 DEF base

---------------------------------------------------------------------------
(* What is left of a body.                                                 *)

\* What the client meant to send.
GoodForm(f) ==
    /\ Len(f.parts) \in Nat \ {0}
    /\ DOMAIN f.parts = 1 .. Len(f.parts)
    /\ \A k \in 1 .. Len(f.parts) : GoodPart(f.parts[k])
    /\ f.cut \in Nat

Begin(f, k) == Len(From(f.parts, 1)) - Len(From(f.parts, k))

ChainAt(f, i) == IF i <= f.cut THEN 1 ELSE 2

Tagged == [unit : Unit, chain : {1, 2}]

\* The evbuffer when d units of the body from part k on have been drained.
Left(f, k, d) ==
    [i \in 1 .. Len(From(f.parts, k)) - d |->
        [unit |-> From(f.parts, k)[d + i], chain |-> ChainAt(f, Begin(f, k) + d + i)]]

\* The body from a part on is a sequence of units, so its length is a number.
LEMMA BodyLengths ==
    ASSUME NEW f, GoodForm(f), NEW k \in 1 .. Len(f.parts) + 1
    PROVE  /\ From(f.parts, k) \in Seq(Unit) /\ Len(From(f.parts, k)) \in Nat
           /\ Begin(f, k) \in Int
<1>1. /\ Len(f.parts) \in Nat /\ 1 \in 1 .. Len(f.parts) + 1
      /\ \A j \in 1 .. Len(f.parts) : GoodPart(f.parts[j])
  BY DEF GoodForm
<1>2. From(f.parts, k) \in Seq(Unit) /\ From(f.parts, 1) \in Seq(Unit)
  BY <1>1, FromDef
<1>3. Len(From(f.parts, k)) \in Nat /\ Len(From(f.parts, 1)) \in Nat
  BY <1>2
<1> QED BY <1>2, <1>3 DEF Begin

\* b has n units: those of the body from part k on, from the one behind d on.
Shows(b, f, k, d, n) ==
    /\ b \in Seq(Tagged) /\ Len(b) = n /\ n \in Nat /\ DOMAIN b = 1 .. n
    /\ \A i \in 1 .. n : /\ b[i].unit = From(f.parts, k)[d + i]
                         /\ b[i].chain = ChainAt(f, Begin(f, k) + d + i)

\* What is left is made of the last units of the body, in their chains.
LEMMA LeftIs ==
    ASSUME NEW f, GoodForm(f), NEW k \in 1 .. Len(f.parts) + 1,
           NEW d \in 0 .. Len(From(f.parts, k)), NEW n, n = Len(From(f.parts, k)) - d
    PROVE  Shows(Left(f, k, d), f, k, d, n)
<1> DEFINE w == From(f.parts, k)
           e(i) == [unit |-> w[d + i], chain |-> ChainAt(f, Begin(f, k) + d + i)]
           b == [i \in 1 .. n |-> e(i)]
<1>1. w \in Seq(Unit) /\ Len(w) \in Nat
  BY BodyLengths
<1>2. n = Len(w) - d /\ n \in Nat
  BY <1>1
<1> HIDE DEF w
<1>3. ASSUME NEW i \in 1 .. n PROVE w[d + i] \in Unit
  <2>1. d + i \in 1 .. Len(w)
    BY <1>1, <1>2
  <2> QED BY <1>1, <2>1
<1>4. b \in [1 .. n -> Tagged]
  BY <1>3 DEF Tagged, ChainAt
<1>5. b \in Seq(Tagged) /\ Len(b) = n /\ DOMAIN b = 1 .. n
  <2> HIDE DEF b
  <2> QED BY <1>2, <1>4
<1>6. \A i \in 1 .. n : b[i].unit = w[d + i] /\ b[i].chain = ChainAt(f, Begin(f, k) + d + i)
  OBVIOUS
<1>7. Left(f, k, d) = b
  BY <1>2 DEF Left, w
<1> QED BY <1>2, <1>5, <1>6, <1>7 DEF Shows, w

\* evbuffer_drain() moves on in the body.
LEMMA DrainLeft ==
    ASSUME NEW f, GoodForm(f), NEW k \in 1 .. Len(f.parts) + 1,
           NEW d \in 0 .. Len(From(f.parts, k)), NEW m \in 0 .. Len(From(f.parts, k)) - d
    PROVE  Drain(Left(f, k, d), m) = Left(f, k, d + m)
<1> DEFINE w == From(f.parts, k)
           b == Left(f, k, d)
           c == Left(f, k, d + m)
           r == Drain(b, m)
<1>1. Len(w) \in Nat /\ d + m \in 0 .. Len(w) /\ Begin(f, k) \in Int
  BY BodyLengths
<1>2. /\ b \in Seq(Tagged) /\ Len(b) = Len(w) - d
      /\ \A i \in 1 .. Len(w) - d : /\ b[i].unit = w[d + i]
                                    /\ b[i].chain = ChainAt(f, Begin(f, k) + d + i)
  <2>1. Shows(b, f, k, d, Len(w) - d)
    BY LeftIs
  <2> QED BY <2>1 DEF Shows
<1>3. /\ c \in Seq(Tagged) /\ Len(c) = Len(w) - (d + m)
      /\ \A i \in 1 .. Len(w) - (d + m) :
            /\ c[i].unit = w[d + m + i]
            /\ c[i].chain = ChainAt(f, Begin(f, k) + (d + m) + i)
  <2>1. Shows(c, f, k, d + m, Len(w) - (d + m))
    BY <1>1, LeftIs
  <2> QED BY <2>1 DEF Shows
<1> HIDE DEF w, b, c
<1>4. /\ r \in Seq(Tagged) /\ Len(r) = Len(c)
      /\ \A i \in 1 .. Len(r) : r[i] = b[m + i]
  <2>1. \A i \in m + 1 .. Len(b) : b[i] \in Tagged
    BY <1>2
  <2>2. m + 1 \in Int /\ Len(b) \in Int
    BY <1>1, <1>2
  <2>3. /\ r \in Seq(Tagged)
        /\ Len(r) = IF m + 1 <= Len(b) THEN Len(b) - (m + 1) + 1 ELSE 0
        /\ \A i \in 1 .. Len(b) - (m + 1) + 1 : r[i] = b[(m + 1) + i - 1]
    <3> HIDE DEF r
    <3>1. r = SubSeq(b, m + 1, Len(b))
      BY DEF r, Drain
    <3> QED BY <2>1, <2>2, <3>1, SubSeqProperties
  <2> HIDE DEF r
  <2>4. Len(r) = Len(c)
    BY <1>1, <1>2, <1>3, <2>3 DEF w
  <2>5. ASSUME NEW i \in 1 .. Len(r) PROVE r[i] = b[m + i]
    <3>1. i \in 1 .. Len(b) - (m + 1) + 1 /\ (m + 1) + i - 1 = m + i
      BY <1>1, <1>2, <2>3
    <3> QED BY <2>3, <3>1
  <2> QED BY <2>3, <2>4, <2>5
<1> HIDE DEF r
<1>5. ASSUME NEW i \in 1 .. Len(r) PROVE r[i] = c[i]
  <2>1. i \in 1 .. Len(w) - (d + m) /\ m + i \in 1 .. Len(w) - d /\ i \in Int
    BY <1>1, <1>3, <1>4
  <2>2. d + (m + i) = d + m + i /\ Begin(f, k) + d + (m + i) = Begin(f, k) + (d + m) + i
    BY <1>1, <2>1
  <2>3. b[m + i].unit = c[i].unit /\ b[m + i].chain = c[i].chain
    BY <1>2, <1>3, <2>1, <2>2
  <2>4. b[m + i] \in Tagged /\ c[i] \in Tagged
    <3>1. m + i \in 1 .. Len(b) /\ i \in 1 .. Len(c)
      BY <1>2, <1>3, <2>1
    <3> QED BY <1>2, <1>3, <3>1, ElementOfSeq
  <2>5. b[m + i] = c[i]
    BY <2>3, <2>4 DEF Tagged
  <2> QED BY <1>4, <2>5
<1>6. r = c
  BY <1>3, <1>4, <1>5, SeqEqual
<1> QED BY <1>6 DEF r, b, c

\* What the body has where one part ends and the next begins, or none does.
LEMMA PartFacts ==
    ASSUME NEW f, GoodForm(f), NEW k \in 1 .. Len(f.parts)
    PROVE  LET w == From(f.parts, k)
               t == From(f.parts, k + 1)
           IN  /\ Laid(f.parts[k], t, w) /\ GoodPart(f.parts[k])
               /\ 2 * f.parts[k].headers \in Nat /\ Len(f.parts[k].data) \in Nat
               /\ Len(w) \in Nat /\ Len(t) \in Nat /\ Len(t) >= 2 /\ t[1] = "B"
               /\ t[2] = IF k = Len(f.parts) THEN "D" ELSE "N"
<1>1. /\ Len(f.parts) \in Nat
      /\ \A j \in 1 .. Len(f.parts) : GoodPart(f.parts[j])
  BY DEF GoodForm
<1>2. /\ From(f.parts, Len(f.parts) + 1) = <<"B", "D">>
      /\ \A j \in 1 .. Len(f.parts) :
            Laid(f.parts[j], From(f.parts, j + 1), From(f.parts, j))
  BY <1>1, FromDef
<1>3. /\ \A j \in 1 .. Len(f.parts) + 1 : Len(From(f.parts, j)) \in Nat
      /\ k \in 1 .. Len(f.parts) + 1 /\ k + 1 \in 1 .. Len(f.parts) + 1
  <2>1. k \in 1 .. Len(f.parts) + 1 /\ k + 1 \in 1 .. Len(f.parts) + 1
    BY <1>1
  <2> QED BY <2>1, BodyLengths
<1>4. 2 * f.parts[k].headers \in Nat /\ Len(f.parts[k].data) \in Nat
  BY <1>1, PartSizes
<1> DEFINE t == From(f.parts, k + 1)
<1>5. Len(t) >= 2 /\ t[1] = "B" /\ t[2] = IF k = Len(f.parts) THEN "D" ELSE "N"
  <2>1. CASE k = Len(f.parts)
    BY <1>2, <2>1
  <2>2. CASE k # Len(f.parts)
    <3>1. k + 1 \in 1 .. Len(f.parts) /\ (k + 1) + 1 \in 1 .. Len(f.parts) + 1
      BY <1>1, <2>2
    <3>2. /\ Laid(f.parts[k + 1], From(f.parts, (k + 1) + 1), t)
          /\ 2 * f.parts[k + 1].headers \in Nat /\ Len(f.parts[k + 1].data) \in Nat
          /\ Len(From(f.parts, (k + 1) + 1)) \in Nat
      <4>1. GoodPart(f.parts[k + 1])
        BY <1>1, <3>1
      <4>2. 2 * f.parts[k + 1].headers \in Nat /\ Len(f.parts[k + 1].data) \in Nat
        BY <4>1, PartSizes
      <4> QED BY <1>2, <1>3, <3>1, <4>2
    <3> HIDE DEF t
    <3>3. /\ t[1] = "B" /\ t[2] = "N"
          /\ Len(t) = 2 * f.parts[k + 1].headers + Len(f.parts[k + 1].data) + 4
                        + Len(From(f.parts, (k + 1) + 1))
      BY <3>2 DEF Laid
    <3>4. Len(t) >= 2
      <4>1. \A a, c, e \in Nat : a + c + 4 + e >= 2
        OBVIOUS
      <4> QED BY <3>2, <3>3, <4>1, Zenon
    <3> QED BY <2>2, <3>3, <3>4
  <2> QED BY <2>1, <2>2
<1> QED BY <1>1, <1>2, <1>3, <1>4, <1>5

\* Behind the data of a part and its CR LF the next part begins.
LEMMA LeftNext ==
    ASSUME NEW f, GoodForm(f), NEW k \in 1 .. Len(f.parts)
    PROVE  LET d == 2 * f.parts[k].headers + Len(f.parts[k].data) + 4
           IN  Left(f, k, d) = Left(f, k + 1, 0) /\ d \in 0 .. Len(From(f.parts, k))
<1> DEFINE w == From(f.parts, k)
           t == From(f.parts, k + 1)
           h == 2 * f.parts[k].headers
           l == Len(f.parts[k].data)
           d == h + l + 4
           b == Left(f, k, d)
           c == Left(f, k + 1, 0)
<1>1. /\ h \in Nat /\ l \in Nat /\ Len(w) \in Nat /\ Len(t) \in Nat
      /\ Len(w) = h + l + 4 + Len(t)
      /\ \A i \in 1 .. Len(t) : w[i + h + l + 4] = t[i]
  BY PartFacts DEF Laid
<1>2. k \in 1 .. Len(f.parts) + 1 /\ k + 1 \in 1 .. Len(f.parts) + 1
  BY DEF GoodForm
<1>3. Begin(f, k) \in Int /\ Begin(f, k + 1) = Begin(f, k) + d
  <2>1. Len(From(f.parts, 1)) \in Nat
    <3>1. 1 \in 1 .. Len(f.parts) + 1
      BY DEF GoodForm
    <3> QED BY <3>1, BodyLengths
  <2>2. /\ Begin(f, k) = Len(From(f.parts, 1)) - Len(w)
        /\ Begin(f, k + 1) = Len(From(f.parts, 1)) - Len(t)
    BY DEF Begin
  <2> HIDE DEF w, t, h, l
  <2> QED BY <1>1, <2>1, <2>2
<1> HIDE DEF w, t, h, l
<1>4. d \in 0 .. Len(w) /\ 0 \in 0 .. Len(t) /\ Len(w) - d = Len(t) /\ Len(t) - 0 = Len(t)
  BY <1>1
<1>5. /\ b \in Seq(Tagged) /\ Len(b) = Len(t)
      /\ \A i \in 1 .. Len(t) : /\ b[i].unit = w[d + i]
                                /\ b[i].chain = ChainAt(f, Begin(f, k) + d + i)
  <2>1. Shows(b, f, k, d, Len(t))
    <3> HIDE DEF d
    <3> QED BY <1>2, <1>4, LeftIs DEF w
  <2> QED BY <2>1 DEF Shows, w
<1>6. /\ c \in Seq(Tagged) /\ Len(c) = Len(t)
      /\ \A i \in 1 .. Len(t) : /\ c[i].unit = t[0 + i]
                                /\ c[i].chain = ChainAt(f, Begin(f, k + 1) + 0 + i)
  <2>1. Shows(c, f, k + 1, 0, Len(t))
    BY <1>2, <1>4, LeftIs DEF t
  <2> QED BY <2>1 DEF Shows, t
<1>7. ASSUME NEW i \in 1 .. Len(t) PROVE b[i] = c[i]
  <2>1. i \in 1 .. Len(b) /\ i \in 1 .. Len(c) /\ i \in Int
    BY <1>5, <1>6
  <2>2. b[i] \in Tagged /\ c[i] \in Tagged
    BY <1>5, <1>6, <2>1, ElementOfSeq
  <2>3. d + i = i + h + l + 4 /\ 0 + i = i
        /\ Begin(f, k + 1) + 0 + i = Begin(f, k) + d + i
    <3>1. d + i = i + h + l + 4 /\ 0 + i = i
      BY <1>1, <2>1
    <3>2. d \in Int
      BY <1>1
    <3> HIDE DEF d
    <3>3. Begin(f, k + 1) + 0 + i = Begin(f, k) + d + i
      BY <1>3, <2>1, <3>2
    <3> QED BY <3>1, <3>3
  <2> HIDE DEF d
  <2>4. b[i].unit = c[i].unit
    BY <1>1, <1>5, <1>6, <2>3
  <2>5. b[i].chain = c[i].chain
    BY <1>5, <1>6, <2>3
  <2> HIDE DEF b, c
  <2> QED BY <2>2, <2>4, <2>5 DEF Tagged
<1>8. b = c
  <2> HIDE DEF b, c
  <2> QED BY <1>5, <1>6, <1>7, SeqEqual
<1> QED BY <1>4, <1>8 DEF w, h, l

---------------------------------------------------------------------------
(* The evbuffer.                                                           *)

\* The first u of the n units of b is at position p.
FirstAt(b, n, u, p) ==
    /\ n \in Nat /\ DOMAIN b = 1 .. n /\ p \in 0 .. n - 1
    /\ b[p + 1].unit = u /\ \A i \in 1 .. p : b[i].unit # u

\* evbuffer_search() returns the first place of what it looks for.
LEMMA SearchAt ==
    ASSUME NEW b, NEW n, NEW u, NEW p, FirstAt(b, n, u, p)
    PROVE  Search(b, u) = p
<1>0. /\ n \in Nat /\ DOMAIN b = 1 .. n /\ p \in 0 .. n - 1
      /\ b[p + 1].unit = u /\ \A i \in 1 .. p : b[i].unit # u
  BY DEF FirstAt
<1> DEFINE S == Positions(b, u)
<1>1. p \in S
  <2>1. p + 1 \in DOMAIN b /\ p = p + 1 - 1
    BY <1>0
  <2> QED BY <1>0, <2>1 DEF Positions
<1>2. ASSUME NEW y \in S PROVE y \in Int /\ p <= y
  <2>1. PICK i \in 1 .. n : y = i - 1 /\ b[i].unit = u
    BY <1>0 DEF Positions
  <2>2. ~ (i <= p)
    BY <1>0, <2>1
  <2> QED BY <1>0, <2>1, <2>2
<1> HIDE DEF S
<1>3. Min(S) = p
  <2>1. Min(S) \in S /\ \A y \in S : Min(S) <= y
    BY <1>1, <1>2 DEF Min
  <2>2. Min(S) \in Int /\ p <= Min(S)
    BY <1>2, <2>1
  <2>3. Min(S) <= p
    BY <1>1, <2>1
  <2> HIDE <2>1
  <2> QED BY <1>0, <2>2, <2>3
<1>4. S # {}
  BY <1>1
<1> QED BY <1>3, <1>4 DEF Search, S

\* The chain of the first unit begins with it.
LEMMA FirstChain ==
    ASSUME NEW b, NEW n \in Nat \ {0}, DOMAIN b = 1 .. n
    PROVE  ChainBegin(b, b[1].chain) = 0
<1> DEFINE S == {i - 1 : i \in {j \in DOMAIN b : b[j].chain = b[1].chain}}
<1>1. 0 \in S
  <2>1. 1 \in DOMAIN b /\ 0 = 1 - 1
    OBVIOUS
  <2> QED BY <2>1
<1>2. \A y \in S : y \in Int /\ 0 <= y
  OBVIOUS
<1> HIDE DEF S
<1>3. Min(S) = 0
  <2>1. Min(S) \in S /\ \A y \in S : Min(S) <= y
    BY <1>1, <1>2 DEF Min
  <2> QED BY <1>1, <1>2, <2>1
<1> QED BY <1>3 DEF ChainBegin, S

\* What a chain is known to hold.
LEMMA ChainHolds ==
    ASSUME NEW b, NEW n \in Nat \ {0}, DOMAIN b = 1 .. n
    PROVE  /\ ChainOff(b, b[1].chain) \in Nat /\ ChainOff(b, b[1].chain) > 0
           /\ n >= 2 /\ b[2].chain = b[1].chain => ChainOff(b, b[1].chain) >= 2
<1> DEFINE S == {i \in DOMAIN b : b[i].chain = b[1].chain}
<1>1. IsFiniteSet(1 .. n)
  BY FS_Interval
<1>2. IsFiniteSet(S) /\ Cardinality(S) \in Nat
  <2>1. S \in SUBSET (1 .. n)
    OBVIOUS
  <2>2. IsFiniteSet(S)
    BY <1>1, <2>1, FS_Subset
  <2> QED BY <2>2, FS_CardinalityType
<1>3. Cardinality(S) >= 1
  <2>1. {1} \in SUBSET S
    OBVIOUS
  <2>2. Cardinality({1}) = 1
    BY FS_Singleton
  <2>3. Cardinality({1}) <= Cardinality(S)
    BY <1>2, <2>1, FS_Subset
  <2> QED BY <2>2, <2>3
<1>4. ASSUME n >= 2, b[2].chain = b[1].chain PROVE Cardinality(S) >= 2
  <2>1. 1 .. 2 \in SUBSET S
    BY <1>4
  <2>2. Cardinality(1 .. 2) = 2
    <3>1. 1 \in Int /\ 2 \in Int
      OBVIOUS
    <3>2. Cardinality(1 .. 2) = IF 1 > 2 THEN 0 ELSE 2 - 1 + 1
      BY <3>1, FS_Interval, Zenon
    <3> QED BY <3>2
  <2>3. Cardinality(1 .. 2) <= Cardinality(S)
    BY <1>2, <2>1, FS_Subset
  <2> QED BY <2>2, <2>3
<1> HIDE DEF S
<1>5. ChainOff(b, b[1].chain) = Cardinality(S)
  BY DEF ChainOff, S
<1> QED BY <1>2, <1>3, <1>4, <1>5

---------------------------------------------------------------------------
(* What the parser finds at its places in a body.                          *)

\* PointersHold of a form.
Holds(f) ==
    /\ f.preamble = <<>>
    /\ \A k \in DOMAIN f.parts :
         f.cut \notin HeadBegin(f.preamble, f.parts, k) + 1
                      .. HeadEnd(f.preamble, f.parts, k)

\* The whole head of a part and the unit behind it lie in one chain.
LEMMA HeadInChain ==
    ASSUME NEW f, GoodForm(f), Holds(f), NEW k \in 1 .. Len(f.parts),
           NEW i \in 1 .. 2 * f.parts[k].headers + 4
    PROVE  ChainAt(f, Begin(f, k) + i) = ChainAt(f, Begin(f, k) + 1)
<1> DEFINE h == 2 * f.parts[k].headers
<1>1. h \in Nat /\ GoodPart(f.parts[k])
  BY PartFacts
<1>2. /\ k \in 1 .. Len(f.parts) + 1 /\ 1 \in 1 .. Len(f.parts) + 1
      /\ k \in DOMAIN f.parts /\ f.cut \in Nat
  BY DEF GoodForm
<1>3. Begin(f, k) \in Int /\ From(f.parts, 1) \in Seq(Unit)
  BY <1>2, BodyLengths
<1>4. HeadBegin(f.preamble, f.parts, k) = Begin(f, k)
  <2>1. <<>> \o From(f.parts, 1) = From(f.parts, 1)
    BY <1>3, ConcatEmptySeq
  <2> QED BY <2>1 DEF HeadBegin, Encoded, Begin, Holds
<1>5. HeadEnd(f.preamble, f.parts, k) = Begin(f, k) + (h + 3)
  BY <1>1, <1>4, HeadLaid DEF HeadEnd
<1>6. f.cut \notin Begin(f, k) + 1 .. Begin(f, k) + (h + 3)
  BY <1>2, <1>4, <1>5 DEF Holds
<1> HIDE DEF h
<1>7. i \in 1 .. h + 4
  BY DEF h
<1>8. \A o \in Int, c \in Nat, g \in Nat : \A j \in 1 .. g + 4 :
        c \notin o + 1 .. o + (g + 3) => (o + j <= c <=> o + 1 <= c)
  OBVIOUS
<1>9. Begin(f, k) + i <= f.cut <=> Begin(f, k) + 1 <= f.cut
  BY <1>1, <1>2, <1>3, <1>6, <1>7, <1>8, Zenon
<1> QED BY <1>9 DEF ChainAt

\* At the boundary of a part.
LEMMA AtBoundary ==
    ASSUME NEW f, GoodForm(f), NEW k \in 1 .. Len(f.parts)
    PROVE  LET b == Left(f, k, 0)
           IN  /\ Search(b, "B") = 0
               /\ b[1].chain = ChainAt(f, Begin(f, k) + 1)
               /\ ChainBegin(b, b[1].chain) = 0
               /\ Drain(b, 2) = Left(f, k, 2)
<1> DEFINE w == From(f.parts, k)
           b == Left(f, k, 0)
<1>1. k \in 1 .. Len(f.parts) + 1
  BY DEF GoodForm
<1>2. Len(w) \in Nat /\ Len(w) >= 2 /\ w[1] = "B" /\ Begin(f, k) \in Int
  <2>1. /\ Len(w) \in Nat /\ w[1] = "B" /\ 2 * f.parts[k].headers \in Nat
        /\ Len(f.parts[k].data) \in Nat /\ Len(From(f.parts, k + 1)) \in Nat
        /\ Len(w) = 2 * f.parts[k].headers + Len(f.parts[k].data) + 4
                      + Len(From(f.parts, k + 1))
    BY PartFacts DEF Laid
  <2>2. \A a, c, e \in Nat : a + c + 4 + e >= 2
    OBVIOUS
  <2>3. Len(w) >= 2
    BY <2>1, <2>2, Zenon
  <2> QED BY <1>1, <2>1, <2>3, BodyLengths
<1>3. 0 \in 0 .. Len(w) /\ Len(w) - 0 = Len(w) /\ 2 \in 0 .. Len(w) - 0
  BY <1>2
<1>4. /\ DOMAIN b = 1 .. Len(w)
      /\ \A i \in 1 .. Len(w) : /\ b[i].unit = w[0 + i]
                                /\ b[i].chain = ChainAt(f, Begin(f, k) + 0 + i)
  <2>1. Shows(b, f, k, 0, Len(w))
    BY <1>1, <1>3, LeftIs
  <2> QED BY <2>1 DEF Shows
<1>5. Drain(b, 2) = Left(f, k, 2)
  <2>1. Drain(b, 2) = Left(f, k, 0 + 2)
    BY <1>1, <1>3, DrainLeft
  <2>2. 0 + 2 = 2
    OBVIOUS
  <2> QED BY <2>1, <2>2
<1> HIDE DEF w, b
<1>6. b[1].unit = "B" /\ b[1].chain = ChainAt(f, Begin(f, k) + 1)
  <2>1. 1 \in 1 .. Len(w) /\ 0 + 1 = 1 /\ Begin(f, k) + 0 + 1 = Begin(f, k) + 1
    BY <1>2
  <2> QED BY <1>2, <1>4, <2>1
<1>7. Search(b, "B") = 0
  <2>1. FirstAt(b, Len(w), "B", 0)
    BY <1>2, <1>4, <1>6 DEF FirstAt
  <2> QED BY <2>1, SearchAt
<1>8. ChainBegin(b, b[1].chain) = 0
  BY <1>2, <1>4, FirstChain
<1> QED BY <1>5, <1>6, <1>7, <1>8 DEF b

\* At a header line.
LEMMA AtLine ==
    ASSUME NEW f, GoodForm(f), NEW k \in 1 .. Len(f.parts),
           NEW m \in 0 .. f.parts[k].headers - 1
    PROVE  LET b == Left(f, k, 2 + 2 * m)
           IN  /\ Search(b, "N") = 1 /\ b[1].unit = "h"
               /\ Drain(b, 2) = Left(f, k, 2 + 2 * (m + 1))
<1> DEFINE w == From(f.parts, k)
           t == From(f.parts, k + 1)
           H == f.parts[k].headers
           l == Len(f.parts[k].data)
           d == 2 + 2 * m
           n == Len(w) - d
           b == Left(f, k, d)
<1>1. k \in 1 .. Len(f.parts) + 1
  BY DEF GoodForm
<1>2. /\ H \in Nat /\ l \in Nat /\ Len(w) \in Nat /\ Len(t) \in Nat
      /\ Len(w) = 2 * H + l + 4 + Len(t)
      /\ \A i \in 1 .. 2 * H : w[i + 2] = IF i % 2 = 1 THEN "h" ELSE "N"
  <2>1. /\ Laid(f.parts[k], t, w) /\ GoodPart(f.parts[k])
        /\ l \in Nat /\ Len(w) \in Nat /\ Len(t) \in Nat
    BY PartFacts
  <2> HIDE DEF w, t
  <2>2. H \in Nat
    BY <2>1 DEF GoodPart
  <2> QED BY <2>1, <2>2 DEF Laid
<1>3. m \in 0 .. H - 1
  OBVIOUS
<1> HIDE DEF w, t, H, l
<1>4. /\ d \in 0 .. Len(w) /\ 2 \in 0 .. Len(w) - d /\ n \in Nat /\ n >= 2
      /\ d + 2 = 2 + 2 * (m + 1) /\ d + 1 = 2 * m + 1 + 2 /\ d + 2 = 2 * m + 2 + 2
      /\ 2 * m + 1 \in 1 .. 2 * H /\ 2 * m + 2 \in 1 .. 2 * H
      /\ (2 * m + 1) % 2 = 1 /\ (2 * m + 2) % 2 # 1
  BY <1>2, <1>3
<1>5. w[d + 1] = "h" /\ w[d + 2] = "N"
  <2> HIDE DEF d
  <2>1. /\ w[2 * m + 1 + 2] = IF (2 * m + 1) % 2 = 1 THEN "h" ELSE "N"
        /\ w[2 * m + 2 + 2] = IF (2 * m + 2) % 2 = 1 THEN "h" ELSE "N"
    BY <1>2, <1>4, Zenon
  <2> QED BY <1>4, <2>1
<1> HIDE DEF d
<1>6. DOMAIN b = 1 .. n /\ \A i \in 1 .. n : b[i].unit = w[d + i]
  <2>1. Shows(b, f, k, d, n)
    BY <1>1, <1>4, LeftIs DEF w
  <2> QED BY <2>1 DEF Shows, w
<1>7. Drain(b, 2) = Left(f, k, d + 2)
  BY <1>1, <1>4, DrainLeft DEF w
<1> HIDE DEF b, n
<1>8. b[1].unit = "h" /\ b[2].unit = "N"
  <2>1. 1 \in 1 .. n /\ 2 \in 1 .. n
    BY <1>4
  <2> QED BY <1>5, <1>6, <2>1
<1>9. Search(b, "N") = 1
  <2>1. FirstAt(b, n, "N", 1)
    BY <1>4, <1>6, <1>8 DEF FirstAt
  <2> QED BY <2>1, SearchAt
<1> QED BY <1>4, <1>7, <1>8, <1>9 DEF b, d

\* At the empty line behind the headers.
LEMMA AtHeadEnd ==
    ASSUME NEW f, GoodForm(f), NEW k \in 1 .. Len(f.parts)
    PROVE  LET d == 2 + 2 * f.parts[k].headers
               b == Left(f, k, d)
           IN  /\ Search(b, "N") = 0
               /\ Drain(b, 1) = Left(f, k, d + 1)
<1> DEFINE w == From(f.parts, k)
           t == From(f.parts, k + 1)
           H == f.parts[k].headers
           l == Len(f.parts[k].data)
           d == 2 + 2 * H
           n == Len(w) - d
           b == Left(f, k, d)
<1>1. k \in 1 .. Len(f.parts) + 1
  BY DEF GoodForm
<1>2. /\ H \in Nat /\ l \in Nat /\ Len(w) \in Nat /\ Len(t) \in Nat
      /\ Len(w) = 2 * H + l + 4 + Len(t)
      /\ w[2 * H + 3] = "N"
  <2>1. /\ Laid(f.parts[k], t, w) /\ GoodPart(f.parts[k])
        /\ l \in Nat /\ Len(w) \in Nat /\ Len(t) \in Nat
    BY PartFacts
  <2> HIDE DEF w, t
  <2>2. H \in Nat
    BY <2>1 DEF GoodPart
  <2> QED BY <2>1, <2>2 DEF Laid
<1> HIDE DEF w, t, H, l
<1>3. /\ d \in 0 .. Len(w) /\ 1 \in 0 .. Len(w) - d /\ n \in Nat /\ n >= 1
      /\ d + 1 = 2 * H + 3
  BY <1>2
<1> HIDE DEF d
<1>4. DOMAIN b = 1 .. n /\ \A i \in 1 .. n : b[i].unit = w[d + i]
  <2>1. Shows(b, f, k, d, n)
    BY <1>1, <1>3, LeftIs DEF w
  <2> QED BY <2>1 DEF Shows, w
<1>5. Drain(b, 1) = Left(f, k, d + 1)
  BY <1>1, <1>3, DrainLeft DEF w
<1> HIDE DEF b, n
<1>6. b[1].unit = "N"
  <2>1. 1 \in 1 .. n
    BY <1>3
  <2> QED BY <1>2, <1>3, <1>4, <2>1
<1>7. Search(b, "N") = 0
  <2>1. FirstAt(b, n, "N", 0)
    BY <1>3, <1>4, <1>6 DEF FirstAt
  <2> QED BY <2>1, SearchAt
<1> QED BY <1>5, <1>7 DEF b, d, H

\* At the data, with the pointer taken at the boundary.
LEMMA AtData ==
    ASSUME NEW f, GoodForm(f), Holds(f), NEW k \in 1 .. Len(f.parts),
           NEW ptr, ptr.offset = 0, ptr.chain = ChainAt(f, Begin(f, k) + 1)
    PROVE  LET b == Left(f, k, 2 * f.parts[k].headers + 3)
               l == Len(f.parts[k].data)
           IN  /\ l \in Nat /\ Search(b, "B") = l + 1
               /\ Peeked(b, l, ptr) = f.parts[k].data /\ f.parts[k].data # Garbage
               /\ Drain(b, l + 1) = Left(f, k + 1, 0)
<1> DEFINE w == From(f.parts, k)
           t == From(f.parts, k + 1)
           h == 2 * f.parts[k].headers
           data == f.parts[k].data
           l == Len(data)
           d == h + 3
           n == Len(w) - d
           b == Left(f, k, d)
<1>1. k \in 1 .. Len(f.parts) + 1
  BY DEF GoodForm
<1>2. /\ h \in Nat /\ l \in Nat /\ Len(w) \in Nat /\ Len(t) \in Nat /\ Len(t) >= 2
      /\ t[1] = "B" /\ Len(w) = h + l + 4 + Len(t)
      /\ \A i \in 1 .. l : w[i + h + 3] = data[i]
      /\ w[h + l + 4] = "N"
      /\ \A i \in 1 .. Len(t) : w[i + h + l + 4] = t[i]
      /\ data \in Seq(Unit \ {"B"})
  <2>1. /\ Laid(f.parts[k], t, w) /\ GoodPart(f.parts[k])
        /\ h \in Nat /\ l \in Nat /\ Len(w) \in Nat /\ Len(t) \in Nat
        /\ Len(t) >= 2 /\ t[1] = "B"
    BY PartFacts
  <2> HIDE DEF w, t
  <2>2. data \in Seq(Unit \ {"B"})
    BY <2>1 DEF GoodPart
  <2> QED BY <2>1, <2>2 DEF Laid
<1>3. Left(f, k, h + l + 4) = Left(f, k + 1, 0)
  BY LeftNext
<1>4. ChainAt(f, Begin(f, k) + (h + 4)) = ptr.chain /\ Begin(f, k) \in Int
  <2>1. h + 4 \in 1 .. h + 4
    <3>1. h \in Nat
      BY <1>2
    <3> HIDE DEF h
    <3> QED BY <3>1
  <2>2. Begin(f, k) \in Int
    BY <1>1, BodyLengths
  <2> QED BY <2>1, <2>2, HeadInChain
<1> HIDE DEF w, t, h, data, l
<1>5. /\ d \in 0 .. Len(w) /\ l + 1 \in 0 .. Len(w) - d /\ n \in Nat
      /\ n = l + 1 + Len(t) /\ d + (l + 1) = h + l + 4
  BY <1>2
<1>6. Drain(b, l + 1) = Left(f, k + 1, 0)
  <2>1. Drain(b, l + 1) = Left(f, k, d + (l + 1))
    <3> HIDE DEF d, n
    <3> QED BY <1>1, <1>5, DrainLeft DEF w
  <2> QED BY <1>3, <1>5, <2>1
<1>7. /\ b \in Seq(Tagged) /\ DOMAIN b = 1 .. n /\ Len(b) = n
      /\ \A i \in 1 .. n : /\ b[i].unit = w[d + i]
                           /\ b[i].chain = ChainAt(f, Begin(f, k) + d + i)
  <2> HIDE DEF d
  <2>1. Shows(b, f, k, d, n)
    BY <1>1, <1>5, LeftIs DEF w
  <2> QED BY <2>1 DEF Shows, w
<1>8. b[1].chain = ptr.chain
  <2>1. 1 \in 1 .. n /\ Begin(f, k) + d + 1 = Begin(f, k) + (h + 4)
    BY <1>2, <1>4, <1>5
  <2> QED BY <1>4, <1>7, <2>1
<1> HIDE DEF b, n
<1>9. ASSUME NEW i \in 1 .. l PROVE b[i].unit = data[i] /\ i \in 1 .. n
  <2>1. i \in 1 .. n /\ d + i = i + h + 3
    BY <1>2, <1>5
  <2> HIDE DEF d
  <2>2. w[i + h + 3] = data[i]
    BY <1>2
  <2> QED BY <1>7, <2>1, <2>2
<1>10. b[l + 1].unit = "N" /\ b[l + 2].unit = "B"
  <2>1. /\ l + 1 \in 1 .. n /\ l + 2 \in 1 .. n /\ d + (l + 1) = h + l + 4
        /\ d + (l + 2) = 1 + h + l + 4 /\ 1 \in 1 .. Len(t)
    BY <1>2, <1>5
  <2>2. w[1 + h + l + 4] = "B"
    BY <1>2, <2>1
  <2> HIDE DEF d
  <2> QED BY <1>2, <1>7, <2>1, <2>2
<1> HIDE DEF d
<1>11. Search(b, "B") = l + 1
  <2>1. ASSUME NEW i \in 1 .. l + 1 PROVE b[i].unit # "B"
    <3>1. CASE i \in 1 .. l
      <4>1. data[i] \in Unit \ {"B"}
        BY <1>2, <3>1 DEF l
      <4> QED BY <1>9, <3>1, <4>1
    <3>2. CASE i = l + 1
      BY <1>10, <3>2
    <3> QED BY <1>2, <3>1, <3>2
  <2>2. l + 1 \in 0 .. n - 1 /\ (l + 1) + 1 = l + 2
    BY <1>2, <1>5
  <2>3. FirstAt(b, n, "B", l + 1)
    BY <1>5, <1>7, <1>10, <2>1, <2>2 DEF FirstAt
  <2> QED BY <2>3, SearchAt
<1>12. SubSeq(Units(b), 1, l) = data
  <2> DEFINE u == Units(b)
             r == SubSeq(u, 1, l)
  <2>1. \A i \in 1 .. n : u[i] = b[i].unit
    BY <1>7 DEF Units
  <2> HIDE DEF u
  <2>2. \A i \in 1 .. l : u[i] = data[i] /\ data[i] \in Unit
    <3>1. \A i \in 1 .. l : data[i] \in Unit
      BY <1>2 DEF l
    <3> QED BY <1>9, <2>1, <3>1
  <2>3. 1 \in Int /\ l \in Int /\ \A i \in 1 .. l : u[i] \in Unit
    BY <1>2, <2>2
  <2>4. /\ r \in Seq(Unit) /\ Len(r) = IF 1 <= l THEN l - 1 + 1 ELSE 0
        /\ \A i \in 1 .. l - 1 + 1 : r[i] = u[1 + i - 1]
    <3> HIDE DEF r
    <3>1. r = SubSeq(u, 1, l)
      BY DEF r
    <3> QED BY <2>3, <3>1, SubSeqProperties
  <2> HIDE DEF r
  <2>5. Len(r) = l /\ \A i \in 1 .. l : r[i] = u[i]
    BY <1>2, <2>4
  <2>6. data \in Seq(Unit) /\ Len(data) = l
    BY <1>2 DEF l
  <2>7. r = data
    BY <2>2, <2>4, <2>5, <2>6, SeqEqual
  <2> QED BY <2>7 DEF r, u
<1>13. Peeked(b, l, ptr) = data
  <2>1. n \in Nat \ {0} /\ l <= n
    BY <1>2, <1>5
  <2>2. ChainOff(b, ptr.chain) \in Nat /\ ChainOff(b, ptr.chain) > 0
    BY <1>7, <1>8, <2>1, ChainHolds
  <2>3. /\ l >= 0 /\ ChainOff(b, ptr.chain) > 0
        /\ ptr.offset <= ChainOff(b, ptr.chain)
        /\ ptr.offset + l <= Len(b)
        /\ ptr.offset + 1 = 1 /\ ptr.offset + l = l
    BY <1>2, <1>7, <2>1, <2>2
  <2> QED BY <1>12, <2>3 DEF Peeked
<1>14. data # Garbage
  <2>1. SUFFICES ASSUME data = <<"garbage">> PROVE FALSE
    BY DEF Garbage
  <2>2. data[1] = "garbage" /\ 1 \in 1 .. Len(data)
    BY <2>1
  <2>3. data[1] \in Unit
    BY <1>2, <2>2, ElementOfSeq
  <2> QED BY <2>2, <2>3 DEF Unit
<1> QED BY <1>2, <1>6, <1>11, <1>13, <1>14 DEF b, d, h, data, l

\* At the boundary behind the data: what follows it, and that it already lies in
\* one chain with that, so that evbuffer_pullup() has nothing to move.
LEMMA AtNext ==
    ASSUME NEW f, GoodForm(f), Holds(f), NEW k \in 1 .. Len(f.parts)
    PROVE  LET b == Left(f, k + 1, 0)
           IN  /\ Len(b) \in Nat /\ Len(b) >= 2
               /\ b[2].unit = IF k = Len(f.parts) THEN "D" ELSE "N"
               /\ k # Len(f.parts) => Pullup(b, 2) = b
<1> DEFINE t == From(f.parts, k + 1)
           b == Left(f, k + 1, 0)
           B == Begin(f, k + 1)
<1>1. k + 1 \in 1 .. Len(f.parts) + 1 /\ Len(f.parts) \in Nat
  BY DEF GoodForm
<1>2. /\ Len(t) \in Nat /\ Len(t) >= 2
      /\ t[2] = IF k = Len(f.parts) THEN "D" ELSE "N"
  BY PartFacts
<1>3. B \in Int
  BY <1>1, BodyLengths
<1>4. 0 \in 0 .. Len(t) /\ Len(t) - 0 = Len(t)
  BY <1>2
<1>5. /\ DOMAIN b = 1 .. Len(t) /\ Len(b) = Len(t)
      /\ \A i \in 1 .. Len(t) : b[i].unit = t[0 + i] /\ b[i].chain = ChainAt(f, B + 0 + i)
  <2>1. Shows(b, f, k + 1, 0, Len(t))
    BY <1>1, <1>4, LeftIs
  <2> QED BY <2>1 DEF Shows
<1> HIDE DEF t, b
<1>6. 1 \in 1 .. Len(t) /\ 2 \in 1 .. Len(t) /\ 0 + 2 = 2 /\ B + 0 + 1 = B + 1 /\ B + 0 + 2 = B + 2
  BY <1>2, <1>3
<1>7. b[2].unit = IF k = Len(f.parts) THEN "D" ELSE "N"
  BY <1>2, <1>5, <1>6
<1>8. ASSUME k # Len(f.parts) PROVE Pullup(b, 2) = b
  <2>1. k + 1 \in 1 .. Len(f.parts)
    BY <1>1, <1>8
  <2>2. 2 \in 1 .. 2 * f.parts[k + 1].headers + 4
    <3>1. 2 * f.parts[k + 1].headers \in Nat
      BY <2>1, PartFacts
    <3> QED BY <3>1
  <2>3. ChainAt(f, B + 2) = ChainAt(f, B + 1)
    BY <2>1, <2>2, HeadInChain
  <2>4. b[2].chain = b[1].chain
    BY <1>5, <1>6, <2>3
  <2>5. Len(t) \in Nat \ {0}
    BY <1>2
  <2>6. ChainOff(b, b[1].chain) >= 2
    BY <1>2, <1>5, <2>4, <2>5, ChainHolds
  <2> QED BY <2>6 DEF Pullup
<1> QED BY <1>2, <1>5, <1>7, <1>8 DEF b

---------------------------------------------------------------------------
(* The parser in a body that leaves its pointers valid.                    *)

SentTo(f, k) == [j \in 1 .. k |-> f.parts[j].data]

\* start, once the boundary of part k was found.
Opened(f, k) == [pos |-> 0, chain |-> ChainAt(f, Begin(f, k) + 1), offset |-> 0]

\* The evbuffer at the data of part k.
LeftData(f, k) == Left(f, k, 2 * f.parts[k].headers + 3)

\* Where the parser is in part k: what was handed over, what is left of the body,
\* and where start leads to.
InPart(k) ==
    \/ pc = "boundary" /\ given = SentTo(form, k - 1) /\ evb = Left(form, k, 0)
    \/ /\ pc = "headers" /\ given = SentTo(form, k - 1) /\ start = Opened(form, k)
       /\ \E m \in 0 .. form.parts[k].headers : evb = Left(form, k, 2 + 2 * m)
    \/ /\ pc = "parsed" /\ given = SentTo(form, k - 1)
       /\ upload_error = 1 \/ (start = Opened(form, k) /\ evb = LeftData(form, k))
    \/ /\ pc = "data" /\ given = SentTo(form, k - 1)
       /\ start = Opened(form, k) /\ evb = LeftData(form, k)
    \/ /\ pc = "stored" /\ given = SentTo(form, k)
       /\ upload_error = 1 \/ evb = LeftData(form, k)
    \/ pc = "failed" /\ upload_error = 1 /\ given \in {SentTo(form, k - 1), SentTo(form, k)}
    \/ pc = "done" /\ k = Len(form.parts) /\ given = SentTo(form, k)

Located == \E k \in 1 .. Len(form.parts) : InPart(k)

BodyIInv == form.whole /\ PointersHold => GoodForm(form) /\ Located

\* The boundary is found where the part begins.
LEMMA OpenPartStep ==
    ASSUME GoodForm(form), NEW k \in 1 .. Len(form.parts), InPart(k),
           OpenPart \/ NoPart, UNCHANGED form
    PROVE  InPart(k)'
<1>1. pc = "boundary"
  BY DEF OpenPart, NoPart, PartBegins, PartMissing, Goto
<1>2. given = SentTo(form, k - 1) /\ evb = Left(form, k, 0)
  BY <1>1 DEF InPart
<1>3. /\ Search(evb, "B") = 0
      /\ evb[1].chain = ChainAt(form, Begin(form, k) + 1)
      /\ ChainBegin(evb, evb[1].chain) = 0
      /\ Drain(evb, 2) = Left(form, k, 2)
  BY <1>2, AtBoundary
<1>4. OpenPart
  BY <1>3 DEF NoPart
<1>5. 0 + 1 = 1 /\ 1 + 0 + 1 = 2 /\ 0 - 0 = 0
  OBVIOUS
<1>6. /\ start' = Opened(form, k) /\ evb' = Left(form, k, 2)
      /\ given' = given /\ pc' = "headers"
  BY <1>3, <1>4, <1>5 DEF OpenPart, PartBegins, Goto, Opened
<1>7. 0 \in 0 .. form.parts[k].headers /\ 2 + 2 * 0 = 2
  BY DEF GoodForm, GoodPart
<1> QED BY <1>2, <1>6, <1>7 DEF InPart

\* Every header line has a value, and the empty line ends the head.
LEMMA HeadersStep ==
    ASSUME GoodForm(form), NEW k \in 1 .. Len(form.parts), InPart(k),
           HeaderLine \/ HeaderNoValue \/ LastHeader, UNCHANGED form
    PROVE  InPart(k)'
<1>1. pc = "headers"
  BY DEF HeaderLine, HeaderNoValue, LastHeader, HeaderTaken, HeaderRefused, HeadersEnd, Goto
<1> DEFINE H == form.parts[k].headers
<1>2. given = SentTo(form, k - 1) /\ start = Opened(form, k)
  BY <1>1 DEF InPart
<1>3. PICK m \in 0 .. H : evb = Left(form, k, 2 + 2 * m)
  BY <1>1 DEF InPart
<1>4. H \in Nat
  BY DEF GoodForm, GoodPart
<1>5. CASE m # H
  <2>1. m \in 0 .. H - 1
    BY <1>4, <1>5
  <2>2. /\ Search(evb, "N") = 1 /\ evb[1].unit = "h"
        /\ Drain(evb, 2) = Left(form, k, 2 + 2 * (m + 1))
    BY <1>3, <2>1, AtLine
  <2>3. EndOfLine = 1 /\ Line = {"h"}
    <3>1. 1 .. 1 = {1}
      OBVIOUS
    <3> QED BY <2>2, <3>1 DEF EndOfLine, Line
  <2>4. HeaderLine
    BY <2>3 DEF HeaderNoValue, LastHeader
  <2>5. evb' = Left(form, k, 2 + 2 * (m + 1)) /\ start' = start /\ given' = given
    <3>1. 1 + 1 = 2
      OBVIOUS
    <3> QED BY <2>2, <2>3, <2>4, <3>1 DEF HeaderLine, ReadLine
  <2>6. m + 1 \in 0 .. H
    BY <1>4, <2>1
  <2>7. pc' = "headers" \/ (pc' = "parsed" /\ upload_error' = 1)
    BY <2>4 DEF HeaderLine, HeaderTaken, HeaderRefused, Goto
  <2> QED BY <1>2, <2>5, <2>6, <2>7 DEF InPart
<1>6. CASE m = H
  <2>1. Search(evb, "N") = 0 /\ Drain(evb, 1) = Left(form, k, (2 + 2 * H) + 1)
    BY <1>3, <1>6, AtHeadEnd
  <2>2. EndOfLine = 0 /\ Line = {}
    <3>1. 1 .. 0 = {}
      OBVIOUS
    <3> QED BY <2>1, <3>1 DEF EndOfLine, Line
  <2>3. LastHeader
    BY <2>2 DEF HeaderNoValue, HeaderLine
  <2>4. /\ evb' = Left(form, k, (2 + 2 * H) + 1) /\ start' = start /\ given' = given
        /\ pc' = "parsed"
    <3>1. 0 + 1 = 1
      OBVIOUS
    <3> QED BY <2>1, <2>2, <2>3, <3>1 DEF LastHeader, ReadLine, HeadersEnd, Goto
  <2>5. (2 + 2 * H) + 1 = 2 * H + 3
    BY <1>4
  <2> QED BY <1>2, <2>4, <2>5 DEF InPart, LeftData
<1> QED BY <1>5, <1>6

\* The closing boundary is found, and the sanity check lets it pass.
LEMMA CloseStep ==
    ASSUME GoodForm(form), Holds(form), NEW k \in 1 .. Len(form.parts), InPart(k),
           CloseFound \/ CloseMissing, UNCHANGED form
    PROVE  InPart(k)'
<1>1. pc = "parsed" /\ upload_error = 0
  BY DEF CloseFound, CloseMissing, DataFound, DataMissing, Goto
<1>2. given = SentTo(form, k - 1) /\ start = Opened(form, k) /\ evb = LeftData(form, k)
  BY <1>1 DEF InPart
<1>3. next = Len(form.parts[k].data) + 1 /\ Len(form.parts[k].data) \in Nat
  <2>1. start.offset = 0 /\ start.chain = ChainAt(form, Begin(form, k) + 1)
    BY <1>2 DEF Opened
  <2> QED BY <1>2, <2>1, AtData DEF next, LeftData
<1>4. ~ (next = -1 \/ next < start.pos)
  <2>1. start.pos = 0
    BY <1>2 DEF Opened
  <2> QED BY <1>3, <2>1
<1>5. CloseFound
  BY <1>4 DEF CloseMissing
<1>6. /\ pc' = "data" /\ evb' = evb /\ start' = start /\ given' = given
  BY <1>5 DEF CloseFound, DataFound, Goto, posVars
<1> QED BY <1>2, <1>6 DEF InPart

\* handle_data() is given the data of the part, and nothing else is read.
LEMMA DataStep ==
    ASSUME GoodForm(form), Holds(form), NEW k \in 1 .. Len(form.parts), InPart(k),
           Data, UNCHANGED form
    PROVE  InPart(k)'
<1>1. pc = "data"
  BY DEF Data, DataTaken, DataRefused, Goto
<1>2. given = SentTo(form, k - 1) /\ start = Opened(form, k) /\ evb = LeftData(form, k)
  BY <1>1 DEF InPart
<1> DEFINE data == form.parts[k].data
<1>3. /\ next = Len(data) + 1 /\ Len(data) \in Nat
      /\ Peeked(evb, Len(data), start) = data /\ data # Garbage
  <2>1. start.offset = 0 /\ start.chain = ChainAt(form, Begin(form, k) + 1)
    BY <1>2 DEF Opened
  <2> QED BY <1>2, <2>1, AtData DEF next, LeftData
<1>4. next - 1 = Len(data)
  BY <1>3
<1>5. given' = Append(given, data) /\ evb' = evb /\ start' = start
  BY <1>3, <1>4 DEF Data, HandleData
<1>6. given' = SentTo(form, k)
  <2>1. \A j \in 1 .. k : j # k => j \in 1 .. k - 1
    OBVIOUS
  <2> QED BY <1>2, <1>5, <2>1 DEF SentTo
<1>7. Last(given') = data
  BY <1>6 DEF Last, SentTo
<1>8. pc' = "stored"
  BY <1>3, <1>7 DEF Data, DataTaken, DataRefused, Goto
<1> QED BY <1>2, <1>5, <1>6, <1>8 DEF InPart

\* Only a module that refused something makes the parser give up.
LEMMA BodyErrorStep ==
    ASSUME NEW k \in 1 .. Len(form.parts), InPart(k), ErrorSeen, UNCHANGED form
    PROVE  InPart(k)'
<1>1. /\ pc \in {"parsed", "stored"} /\ pc' = "failed" /\ given' = given
      /\ upload_error = 1 /\ upload_error' = 1
  BY DEF ErrorSeen, BailOut, Goto, posVars
<1> QED BY <1>1 DEF InPart

\* The next boundary begins the next part, or ends the last one.
LEMMA EndStep ==
    ASSUME GoodForm(form), Holds(form), NEW k \in 1 .. Len(form.parts), InPart(k),
           Finished \/ GoOn \/ NothingToPull, UNCHANGED form
    PROVE  Located'
<1>1. pc = "stored" /\ upload_error = 0
  BY DEF Finished, GoOn, NothingToPull, LastPart, MoreParts, BadBody, Goto
<1>2. given = SentTo(form, k) /\ evb = LeftData(form, k)
  BY <1>1 DEF InPart
<1>3. Rest = Left(form, k + 1, 0)
  <2>1. /\ Opened(form, k).offset = 0
        /\ Opened(form, k).chain = ChainAt(form, Begin(form, k) + 1)
    BY DEF Opened
  <2> QED BY <1>2, <2>1, AtData DEF Rest, next, LeftData
<1>4. /\ Len(Rest) \in Nat /\ Len(Rest) >= 2
      /\ Rest[2].unit = IF k = Len(form.parts) THEN "D" ELSE "N"
      /\ k # Len(form.parts) => Pullup(Rest, 2) = Rest
  BY <1>3, AtNext
<1>5. given' = given
  BY DEF Finished, GoOn, NothingToPull
<1>6. CASE k = Len(form.parts)
  <2>1. Finished
    BY <1>4, <1>6 DEF GoOn, NothingToPull
  <2>2. pc' = "done"
    BY <2>1 DEF Finished, LastPart, Goto
  <2>3. InPart(k)'
    BY <1>2, <1>5, <1>6, <2>2 DEF InPart
  <2> QED BY <2>3 DEF Located
<1>7. CASE k # Len(form.parts)
  <2>1. GoOn
    BY <1>4, <1>7 DEF Finished, NothingToPull
  <2>2. pc' = "boundary" /\ evb' = Left(form, k + 1, 0)
    BY <1>3, <1>4, <1>7, <2>1 DEF GoOn, MoreParts, Goto
  <2>3. k + 1 \in 1 .. Len(form.parts) /\ (k + 1) - 1 = k
    BY <1>7 DEF GoodForm
  <2>4. InPart(k + 1)'
    BY <1>2, <1>5, <2>2, <2>3 DEF InPart
  <2> QED BY <2>3, <2>4 DEF Located
<1> QED BY <1>6, <1>7

\* The parts of an initial state are parts as they should be.
LEMMA PartsGood ==
    ASSUME NEW parts \in BoundedSeq(Part, MaxParts) \ {<<>>}
    PROVE  /\ Len(parts) \in Nat \ {0} /\ DOMAIN parts = 1 .. Len(parts)
           /\ \A k \in 1 .. Len(parts) : GoodPart(parts[k])
<1>1. /\ Len(parts) \in Nat \ {0} /\ DOMAIN parts = 1 .. Len(parts)
      /\ \A k \in 1 .. Len(parts) : parts[k] \in Part
  <2>1. PICK m \in 0 .. MaxParts : parts \in [1 .. m -> Part]
    BY DEF BoundedSeq, SeqOf
  <2>2. m \in Nat
    BY <2>1, BoundsAssumption
  <2>3. parts \in Seq(Part) /\ Len(parts) = m
    BY <2>1, <2>2
  <2>4. parts # <<>>
    OBVIOUS
  <2>5. m # 0
    BY <2>3, <2>4
  <2> QED BY <2>1, <2>2, <2>3, <2>5
<1>2. \A k \in 1 .. Len(parts) : GoodPart(parts[k])
  <2>1. \A p \in Part : p.headers \in Nat /\ p.data \in DataOf
    BY BoundsAssumption DEF Part
  <2>2. {"N", "D", "h", "x"} = Unit \ {"B"}
    BY DEF Unit
  <2>3. \A d \in DataOf : d \in Seq(Unit \ {"B"})
    BY <2>2, DataAssumption
  <2> QED BY <1>1, <2>1, <2>3 DEF GoodPart
<1> QED BY <1>1, <1>2

\* A whole body lies in the evbuffer from its first part on.
LEMMA BodyInvInit == BodyInit => BodyIInv
<1> SUFFICES ASSUME BodyInit, form.whole, PointersHold
             PROVE  GoodForm(form) /\ Located
  BY DEF BodyIInv
<1>1. PICK preamble \in {<<>>, <<"x">>}, parts \in BoundedSeq(Part, MaxParts) \ {<<>>} :
        LET whole == Encoded(preamble, parts)
        IN  \E body \in Damages(whole) : \E cut \in 0 .. Len(body) :
              /\ form = [parts |-> parts, preamble |-> preamble,
                         whole |-> body = whole, cut |-> cut]
              /\ evb = [i \in DOMAIN body |->
                           [unit |-> body[i], chain |-> IF i <= cut THEN 1 ELSE 2]]
  BY DEF BodyInit
<1> DEFINE whole == Encoded(preamble, parts)
<1>2. PICK body \in Damages(whole) : \E cut \in 0 .. Len(body) :
              /\ form = [parts |-> parts, preamble |-> preamble,
                         whole |-> body = whole, cut |-> cut]
              /\ evb = [i \in DOMAIN body |->
                           [unit |-> body[i], chain |-> IF i <= cut THEN 1 ELSE 2]]
  BY <1>1
<1>3. PICK cut \in 0 .. Len(body) :
              /\ form = [parts |-> parts, preamble |-> preamble,
                         whole |-> body = whole, cut |-> cut]
              /\ evb = [i \in DOMAIN body |->
                           [unit |-> body[i], chain |-> IF i <= cut THEN 1 ELSE 2]]
  BY <1>2
<1>4. /\ form.parts = parts /\ form.preamble = preamble
      /\ form.whole = (body = whole) /\ form.cut = cut
  <2> HIDE DEF whole
  <2> QED BY <1>3
<1>5. /\ Len(parts) \in Nat \ {0} /\ DOMAIN parts = 1 .. Len(parts)
      /\ \A k \in 1 .. Len(parts) : GoodPart(parts[k])
  BY PartsGood
<1>6. \A k \in 1 .. Len(parts) : GoodPart(parts[k])
  BY <1>5
<1> DEFINE w == From(parts, 1)
<1>7. w \in Seq(Unit) /\ Len(w) \in Nat /\ DOMAIN w = 1 .. Len(w)
  <2>1. 1 \in 1 .. Len(parts) + 1 /\ Len(parts) \in Nat
    BY <1>5
  <2>2. w \in Seq(Unit)
    BY <1>6, <2>1, FromDef
  <2> HIDE DEF w
  <2> QED BY <2>2
<1>8. body = w
  <2>1. body = whole /\ preamble = <<>>
    BY <1>4 DEF PointersHold
  <2>2. <<>> \o w = w
    BY <1>7, ConcatEmptySeq
  <2> QED BY <2>1, <2>2 DEF Encoded
<1>9. cut \in Nat
  <2>1. cut \in 0 .. Len(w)
    BY <1>8
  <2> HIDE DEF w
  <2> QED BY <1>7, <2>1
<1>10. GoodForm(form)
  BY <1>4, <1>5, <1>6, <1>9 DEF GoodForm
<1>11. evb = Left(form, 1, 0)
  <2>1. evb = [i \in 1 .. Len(w) |-> [unit |-> w[i], chain |-> IF i <= cut THEN 1 ELSE 2]]
    BY <1>3, <1>7, <1>8
  <2>2. Left(form, 1, 0) = [i \in 1 .. Len(w) - 0 |->
                [unit |-> w[0 + i], chain |-> ChainAt(form, Begin(form, 1) + 0 + i)]]
    BY <1>4 DEF Left
  <2>3. Begin(form, 1) = 0
    <3>1. Begin(form, 1) = Len(w) - Len(w)
      BY <1>4 DEF Begin
    <3> HIDE DEF w
    <3> QED BY <1>7, <3>1
  <2> HIDE DEF w
  <2>4. \A i \in 1 .. Len(w) : /\ 0 + i = i
                               /\ ChainAt(form, 0 + 0 + i) = IF i <= cut THEN 1 ELSE 2
    BY <1>4, <1>7 DEF ChainAt
  <2>5. Len(w) - 0 = Len(w)
    BY <1>7
  <2> QED BY <2>1, <2>2, <2>3, <2>4, <2>5
<1>12. given = SentTo(form, 1 - 1)
  BY DEF BodyInit, SentTo
<1>13. 1 \in 1 .. Len(form.parts) /\ pc = "boundary"
  BY <1>4, <1>5 DEF BodyInit
<1>14. InPart(1)
  BY <1>11, <1>12, <1>13 DEF InPart
<1> QED BY <1>10, <1>13, <1>14 DEF Located

\* Every step of the parser keeps to its place in the body.
LEMMA BodyInvNext == BodyIInv /\ [ParserNext]_bodyVars => BodyIInv'
<1> SUFFICES ASSUME BodyIInv, [ParserNext]_bodyVars, form.whole', PointersHold'
             PROVE  (GoodForm(form) /\ Located)'
  BY DEF BodyIInv
<1>1. form' = form
  BY DEF ParserNext, bodyVars
<1>2. form.whole /\ PointersHold
  BY <1>1 DEF PointersHold
<1>3. GoodForm(form) /\ Holds(form) /\ Located
  BY <1>2 DEF BodyIInv, PointersHold, Holds
<1>4. PICK k \in 1 .. Len(form.parts) : InPart(k)
  BY <1>3 DEF Located
<1> SUFFICES Located'
  BY <1>1, <1>3
<1>5. CASE UNCHANGED bodyVars
  <2>1. InPart(k)'
    BY <1>4, <1>5 DEF bodyVars, driverVars, posVars, InPart
  <2> QED BY <1>1, <2>1 DEF Located
<1>6. CASE OpenPart \/ NoPart
  <2>1. InPart(k)'
    BY <1>1, <1>3, <1>4, <1>6, OpenPartStep
  <2> QED BY <1>1, <2>1 DEF Located
<1>7. CASE HeaderLine \/ HeaderNoValue \/ LastHeader
  <2>1. InPart(k)'
    BY <1>1, <1>3, <1>4, <1>7, HeadersStep
  <2> QED BY <1>1, <2>1 DEF Located
<1>8. CASE CloseFound \/ CloseMissing
  <2>1. InPart(k)'
    BY <1>1, <1>3, <1>4, <1>8, CloseStep
  <2> QED BY <1>1, <2>1 DEF Located
<1>9. CASE Data
  <2>1. InPart(k)'
    BY <1>1, <1>3, <1>4, <1>9, DataStep
  <2> QED BY <1>1, <2>1 DEF Located
<1>10. CASE ErrorSeen
  <2>1. InPart(k)'
    BY <1>1, <1>4, <1>10, BodyErrorStep
  <2> QED BY <1>1, <2>1 DEF Located
<1>11. CASE Finished \/ GoOn \/ NothingToPull
  BY <1>1, <1>3, <1>4, <1>11, EndStep
<1> QED
  BY <1>5, <1>6, <1>7, <1>8, <1>9, <1>10, <1>11 DEF ParserNext

\* At every place what was handed over is what was sent so far.
LEMMA BodyInvFaithful == BodyIInv => UploadFaithful
<1> SUFFICES ASSUME BodyIInv, form.whole, PointersHold PROVE UploadFaithful
  BY DEF UploadFaithful
<1>1. GoodForm(form) /\ Located
  BY DEF BodyIInv
<1>2. PICK k \in 1 .. Len(form.parts) : InPart(k)
  BY <1>1 DEF Located
<1> DEFINE n == Len(form.parts)
           sent == [j \in DOMAIN form.parts |-> form.parts[j].data]
<1>3. n \in Nat /\ sent = SentTo(form, n)
  BY <1>1 DEF GoodForm, SentTo
<1>4. PICK j \in 0 .. n : given = SentTo(form, j)
  BY <1>2, <1>3 DEF InPart
<1>5. pc = "done" => given = sent
  BY <1>2, <1>3 DEF InPart
<1>6. pc # "crashed" /\ (pc = "failed" => upload_error = 1)
  BY <1>2 DEF InPart
<1>7. IsPrefix(given, sent)
  <2> HIDE DEF sent
  <2>1. Len(given) = j /\ Len(sent) = n
    BY <1>3, <1>4 DEF SentTo
  <2>2. SubSeq(given, 1, j) = SubSeq(sent, 1, j)
    BY <1>3, <1>4 DEF SentTo
  <2> QED BY <1>3, <1>4, <2>1, <2>2 DEF IsPrefix
<1> QED BY <1>5, <1>6, <1>7 DEF UploadFaithful

\* For any number of parts and header lines and any data without the boundary:
\* multipart_handle_next_file() hands the parts of a whole body over in order and
\* byte for byte, fails only if the module refused, and reads nothing outside of
\* the body, if no chain of the evbuffer ends in the head of a part and nothing
\* precedes the first.
THEOREM UploadAlwaysFaithful == ParserSpec => []UploadFaithful
<1> QED BY BodyInvInit, BodyInvNext, BodyInvFaithful, PTL DEF ParserSpec

---------------------------------------------------------------------------
(* The parser comes to an end, whatever the body is.                       *)

Cell == [unit : Unit, chain : Chains]

Rank == [boundary |-> 1, headers |-> 5, parsed |-> 4, data |-> 3, stored |-> 2,
         failed |-> 0, done |-> 0, crashed |-> 0]

\* A bound on the steps the parser can still take.
StepsLeft == 5 * Len(evb) + Rank[pc]

\* The closing boundary that was found in front of the data is still there.
VariantInv ==
    /\ evb \in Seq(Cell)
    /\ pc \in DOMAIN Rank
    /\ pc \in {"data", "stored"} => next # -1

\* evbuffer_search() returns a position of the buffer, or -1.
LEMMA SearchRange ==
    ASSUME NEW b \in Seq(Cell), NEW u
    PROVE  Search(b, u) = -1 \/ Search(b, u) \in 0 .. Len(b) - 1
<1> DEFINE S == Positions(b, u)
<1>1. ASSUME NEW y \in S PROVE y \in 0 .. Len(b) - 1
  BY DEF Positions
<1>2. SUFFICES ASSUME S # {} PROVE Search(b, u) \in 0 .. Len(b) - 1
  BY DEF Search
<1> HIDE DEF S
<1>3. S \subseteq Nat
  BY <1>1
<1>4. \E x \in S : \A y \in S : x <= y
  BY <1>2, <1>3, LeastNat
<1>5. Min(S) \in S
  BY <1>4 DEF Min
<1>6. Search(b, u) = Min(S)
  BY <1>2 DEF Search, S
<1> QED BY <1>1, <1>5, <1>6

\* What draining leaves is shorter, if there was something to drain.
LEMMA DrainShorter ==
    ASSUME NEW b \in Seq(Cell), NEW m \in Nat
    PROVE  /\ Drain(b, m) \in Seq(Cell) /\ Len(Drain(b, m)) \in Nat
           /\ Len(Drain(b, m)) <= Len(b)
           /\ m > 0 /\ Len(b) > 0 => Len(Drain(b, m)) < Len(b)
<1> DEFINE r == Drain(b, m)
<1>1. \A i \in m + 1 .. Len(b) : b[i] \in Cell
  OBVIOUS
<1>2. m + 1 \in Int /\ Len(b) \in Int /\ Len(b) \in Nat
  OBVIOUS
<1>3. r = SubSeq(b, m + 1, Len(b))
  BY DEF Drain
<1> HIDE DEF r
<1>4. r \in Seq(Cell) /\ Len(r) = IF m + 1 <= Len(b) THEN Len(b) - (m + 1) + 1 ELSE 0
  BY <1>1, <1>2, <1>3, SubSeqProperties
<1> QED BY <1>2, <1>4 DEF r

\* evbuffer_pullup() moves bytes and keeps their number.
LEMMA PullupKeeps ==
    ASSUME NEW b \in Seq(Cell), NEW n
    PROVE  Pullup(b, n) \in Seq(Cell) /\ Len(Pullup(b, n)) = Len(b)
<1> DEFINE c == [i \in DOMAIN b |-> IF i <= n THEN [b[i] EXCEPT !.chain = Pulled] ELSE b[i]]
<1>1. DOMAIN b = 1 .. Len(b) /\ Len(b) \in Nat
  OBVIOUS
<1>2. ASSUME NEW i \in 1 .. Len(b)
      PROVE  b[i] \in Cell /\ [b[i] EXCEPT !.chain = Pulled] \in Cell
  <2>1. b[i] \in Cell
    OBVIOUS
  <2>2. \A e \in Cell : [e EXCEPT !.chain = Pulled] \in Cell
    BY DEF Cell, Pulled, Chains
  <2> QED BY <2>1, <2>2
<1>3. c \in [1 .. Len(b) -> Cell]
  BY <1>1, <1>2
<1>4. c \in Seq(Cell) /\ Len(c) = Len(b)
  <2> HIDE DEF c
  <2> QED BY <1>1, <1>3
<1> QED BY <1>4 DEF Pullup

\* A body, whole or damaged, is a sequence of units.
LEMMA VariantInit == BodyInit => VariantInv
<1> SUFFICES ASSUME BodyInit PROVE VariantInv
  OBVIOUS
<1>1. PICK preamble \in {<<>>, <<"x">>}, parts \in BoundedSeq(Part, MaxParts) \ {<<>>} :
        \E body \in Damages(Encoded(preamble, parts)) : \E cut \in 0 .. Len(body) :
           evb = [i \in DOMAIN body |->
                     [unit |-> body[i], chain |-> IF i <= cut THEN 1 ELSE 2]]
  BY DEF BodyInit
<1> DEFINE whole == Encoded(preamble, parts)
<1>2. PICK body \in Damages(whole) : \E cut \in 0 .. Len(body) :
           evb = [i \in DOMAIN body |->
                     [unit |-> body[i], chain |-> IF i <= cut THEN 1 ELSE 2]]
  BY <1>1
<1>3. PICK cut \in 0 .. Len(body) :
           evb = [i \in DOMAIN body |->
                     [unit |-> body[i], chain |-> IF i <= cut THEN 1 ELSE 2]]
  BY <1>2
<1>4. /\ Len(parts) \in Nat \ {0} /\ \A k \in 1 .. Len(parts) : GoodPart(parts[k])
  BY PartsGood
<1>5. whole \in Seq(Unit)
  <2>1. 1 \in 1 .. Len(parts) + 1 /\ Len(parts) \in Nat
    BY <1>4
  <2>2. From(parts, 1) \in Seq(Unit)
    BY <1>4, <2>1, FromDef
  <2>3. preamble \in Seq(Unit)
    <3>1. <<>> \in Seq(Unit) /\ <<"x">> \in Seq(Unit)
      BY DEF Unit
    <3> QED BY <3>1
  <2> QED BY <2>2, <2>3, ConcatProperties DEF Encoded
<1> HIDE DEF whole
<1>6. body \in Seq(Unit)
  <2>1. ASSUME NEW m \in Int, NEW n \in Int, m >= 1, n <= Len(whole)
        PROVE  SubSeq(whole, m, n) \in Seq(Unit)
    <3>1. \A i \in m .. n : whole[i] \in Unit
      BY <1>5, <2>1
    <3> QED BY <3>1, SubSeqProperties
  <2>2. CASE body = whole
    BY <1>5, <2>2
  <2>3. ASSUME NEW i \in DOMAIN whole, body = RemoveAt(whole, i)
        PROVE  body \in Seq(Unit)
    <3>1. i \in 1 .. Len(whole) /\ Len(whole) \in Nat
      BY <1>5
    <3>2. SubSeq(whole, 1, i - 1) \in Seq(Unit) /\ SubSeq(whole, i + 1, Len(whole)) \in Seq(Unit)
      BY <2>1, <3>1
    <3> QED BY <2>3, <3>2, ConcatProperties DEF RemoveAt
  <2>4. ASSUME NEW i \in 0 .. Len(whole) - 1, body = SubSeq(whole, 1, i)
        PROVE  body \in Seq(Unit)
    <3>1. i \in Int /\ i <= Len(whole) /\ 1 \in Int
      BY <1>5
    <3> QED BY <2>1, <2>4, <3>1
  <2> QED BY <2>2, <2>3, <2>4 DEF Damages
<1>7. evb \in Seq(Cell)
  <2>1. DOMAIN body = 1 .. Len(body) /\ Len(body) \in Nat /\ \A i \in 1 .. Len(body) : body[i] \in Unit
    BY <1>6
  <2>2. evb \in [1 .. Len(body) -> Cell]
    BY <1>3, <2>1 DEF Cell, Chains
  <2> QED BY <2>1, <2>2
<1>8. pc = "boundary"
  BY DEF BodyInit
<1> QED BY <1>7, <1>8 DEF VariantInv, Rank

\* Each step drains something, or goes on to a place from where fewer steps are
\* left.
LEMMA VariantStep ==
    VariantInv /\ ParserNext => VariantInv' /\ StepsLeft' < StepsLeft /\ StepsLeft' \in Nat
<1> SUFFICES ASSUME VariantInv, ParserNext
             PROVE  VariantInv' /\ StepsLeft' < StepsLeft /\ StepsLeft' \in Nat
  OBVIOUS
<1> DEFINE L == Len(evb)
<1>1. evb \in Seq(Cell) /\ L \in Nat
  BY DEF VariantInv
<1>2. \A p \in DOMAIN Rank : Rank[p] \in 0 .. 5
  BY DEF Rank
<1>3. ASSUME evb' \in Seq(Cell), Len(evb') \in Nat,
             \/ Len(evb') < L /\ pc \in DOMAIN Rank /\ Rank[pc] >= 1
             \/ Len(evb') <= L /\ Rank[pc'] < Rank[pc],
             pc' \in DOMAIN Rank,
             pc' \in {"data", "stored"} => next' # -1
      PROVE  VariantInv' /\ StepsLeft' < StepsLeft /\ StepsLeft' \in Nat
  <2>1. Rank[pc] \in 0 .. 5 /\ Rank[pc'] \in 0 .. 5
    BY <1>2, <1>3 DEF VariantInv
  <2>2. 5 * Len(evb') + Rank[pc'] < 5 * L + Rank[pc]
    BY <1>1, <1>3, <2>1
  <2> QED BY <1>3, <2>1, <2>2 DEF VariantInv, StepsLeft
<1>4. /\ {"boundary", "headers", "parsed", "data", "stored",
          "failed", "done", "crashed"} = DOMAIN Rank
      /\ Rank["boundary"] = 1 /\ Rank["headers"] = 5 /\ Rank["parsed"] = 4
      /\ Rank["data"] = 3 /\ Rank["stored"] = 2 /\ Rank["failed"] = 0
      /\ Rank["done"] = 0 /\ Rank["crashed"] = 0
  BY DEF Rank
<1> DEFINE Goal == VariantInv' /\ StepsLeft' < StepsLeft /\ StepsLeft' \in Nat
<1> SUFFICES Goal
  OBVIOUS
<1>5. ASSUME evb' = evb, pc' \in DOMAIN Rank, Rank[pc'] < Rank[pc],
             pc' \in {"data", "stored"} => next # -1
      PROVE  Goal
  <2>1. next' = next
    BY <1>5 DEF next
  <2> HIDE DEF Goal, L
  <2> QED BY <1>1, <1>3, <1>5, <2>1 DEF Goal, L
<1>6. ASSUME NEW m \in Nat \ {0}, L > 0, evb' = Drain(evb, m),
             pc \in DOMAIN Rank, Rank[pc] >= 1, pc' \in DOMAIN Rank \ {"data", "stored"}
      PROVE  Goal
  <2>1. /\ Drain(evb, m) \in Seq(Cell) /\ Len(Drain(evb, m)) \in Nat
        /\ Len(Drain(evb, m)) < L
    BY <1>1, <1>6, DrainShorter
  <2> QED BY <1>3, <1>6, <2>1
<1>7. CASE OpenPart
  <2>1. pc = "boundary" /\ pc' = "headers"
    BY <1>7 DEF OpenPart, PartBegins, Goto
  <2>2. Search(evb, "B") \in 0 .. L - 1
    BY <1>1, <1>7, SearchRange DEF OpenPart
  <2>3. 1 + Search(evb, "B") + 1 \in Nat \ {0} /\ L > 0
    BY <1>1, <2>2
  <2>4. evb' = Drain(evb, 1 + Search(evb, "B") + 1)
    BY <1>7 DEF OpenPart
  <2> HIDE DEF Goal, L
  <2> QED BY <1>4, <1>6, <2>1, <2>3, <2>4
<1>8. CASE NoPart \/ CloseMissing \/ ErrorSeen
  <2>1. evb' = evb /\ pc \in {"boundary", "parsed", "stored"} /\ pc' = "failed"
    BY <1>8 DEF NoPart, PartMissing, CloseMissing, DataMissing, ErrorSeen, BailOut, Goto, posVars
  <2> HIDE DEF Goal, L
  <2> QED BY <1>4, <1>5, <2>1
<1>9. CASE HeaderLine \/ HeaderNoValue \/ LastHeader
  <2>1. pc = "headers" /\ pc' \in {"headers", "parsed", "crashed"}
    BY <1>9 DEF HeaderLine, HeaderNoValue, LastHeader, HeaderTaken, HeaderRefused,
                 HeadersEnd, BadBody, Goto
  <2>2. CASE ReadLine
    <3>1. EndOfLine \in 0 .. L - 1 /\ evb' = Drain(evb, EndOfLine + 1)
      BY <1>1, <2>2, SearchRange DEF ReadLine, EndOfLine
    <3>2. EndOfLine + 1 \in Nat \ {0} /\ L > 0
      BY <1>1, <3>1
    <3> HIDE DEF Goal, L
    <3> QED BY <1>4, <1>6, <2>1, <3>1, <3>2
  <2>3. CASE ~ ReadLine
    <3>1. evb' = evb /\ pc' = "parsed"
      BY <1>9, <2>3 DEF HeaderLine, HeaderNoValue, LastHeader, HeadersEnd, Goto, posVars
    <3> HIDE DEF Goal, L
    <3> QED BY <1>4, <1>5, <2>1, <3>1
  <2> QED BY <2>2, <2>3
<1>10. CASE CloseFound
  <2>1. evb' = evb /\ pc = "parsed" /\ pc' = "data" /\ next # -1
    BY <1>10 DEF CloseFound, DataFound, Goto, posVars
  <2> HIDE DEF Goal, L
  <2> QED BY <1>4, <1>5, <2>1
<1>11. CASE Data
  <2>1. evb' = evb /\ pc = "data" /\ pc' \in {"stored", "crashed"}
    BY <1>11 DEF Data, HandleData, DataTaken, DataRefused, Goto
  <2>2. next # -1
    BY <2>1 DEF VariantInv
  <2> HIDE DEF Goal, L
  <2> QED BY <1>4, <1>5, <2>1, <2>2
<1>12. CASE Finished \/ GoOn \/ NothingToPull
  <2>1. pc = "stored" /\ pc' \in {"done", "boundary", "crashed"}
    BY <1>12 DEF Finished, GoOn, NothingToPull, LastPart, MoreParts, BadBody, Goto
  <2>2. next \in 0 .. L - 1
    BY <1>1, <2>1, SearchRange DEF VariantInv, next
  <2>3. next \in Nat
    BY <1>1, <2>2
  <2>4. Rest \in Seq(Cell) /\ Len(Rest) \in Nat /\ Len(Rest) <= L
    BY <1>1, <2>3, DrainShorter DEF Rest
  <2>5. evb' = Rest \/ evb' = Pullup(Rest, 2)
    BY <1>12 DEF Finished, GoOn, NothingToPull
  <2>6. evb' \in Seq(Cell) /\ Len(evb') = Len(Rest)
    BY <2>4, <2>5, PullupKeeps
  <2>7. Rank[pc'] < Rank[pc] /\ pc' \in DOMAIN Rank /\ pc' \notin {"data", "stored"}
    BY <1>4, <2>1
  <2> HIDE DEF L
  <2> QED BY <1>3, <2>4, <2>6, <2>7
<1> QED
  BY <1>7, <1>8, <1>9, <1>10, <1>11, <1>12 DEF ParserNext

\* For every body, damaged ones too: each round of the loops of upload() and
\* multipart_handle_next_file() takes something out of the evbuffer, so that no
\* more steps follow than StepsLeft says. It is what keeps a request from holding
\* up the event loop for ever, and the part of Terminates that needs no fairness.
THEOREM ParserRunsDown ==
    ParserSpec => [](StepsLeft \in Nat) /\ [][StepsLeft' < StepsLeft]_bodyVars
<1>1. VariantInv /\ [ParserNext]_bodyVars => VariantInv'
  <2>1. VariantInv /\ UNCHANGED bodyVars => VariantInv'
    BY DEF VariantInv, bodyVars, driverVars, posVars, next
  <2> QED BY <2>1, VariantStep
<1>2. VariantInv => StepsLeft \in Nat
  <2> SUFFICES ASSUME VariantInv PROVE StepsLeft \in Nat
    OBVIOUS
  <2>2. Len(evb) \in Nat
    BY DEF VariantInv
  <2>3. Rank[pc] \in Nat
    <3>1. \A p \in DOMAIN Rank : Rank[p] \in Nat
      BY DEF Rank
    <3> QED BY <3>1 DEF VariantInv
  <2> QED BY <2>2, <2>3 DEF StepsLeft
<1>3. VariantInv /\ [ParserNext]_bodyVars => [StepsLeft' < StepsLeft]_bodyVars
  BY VariantStep
<1> QED BY VariantInit, <1>1, <1>2, <1>3, PTL DEF ParserSpec
===========================================================================
