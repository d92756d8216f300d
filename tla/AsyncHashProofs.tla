-------------------------- MODULE AsyncHashProofs --------------------------
(***************************************************************************)
(* Proofs about AsyncHash, for any number and size of buffers and a stream *)
(* of any length.                                                          *)
(***************************************************************************)
EXTENDS AsyncHash, SequenceTheorems, TLAPS

InWrite == caller \in {"acquire", "send"}
HasBuffer == worker \in {"hash", "giveBack"}
\* The hasher has not panicked.
Sane == ~err /\ worker # "recover"

\* The writer's counts.
Counts ==
  /\ InWrite => ~failed /\ left > 0 /\ written + total + left = handed
  /\ ~InWrite /\ ~failed => left = 0 /\ written = handed
  /\ caller = "send" => content[buf] = NextSpan

\* How each goroutine may have come where it is.
Course ==
  /\ failed => err
  /\ closed => caller \in {"wait", "done"}
  /\ err => worker \in {"die", "gone"}
  /\ dead => worker = "gone"
  /\ worker \in {"die", "gone"} /\ ~err => closed

\* A buffer in a goroutine's hands is nowhere else.
Owners ==
  /\ BuffersHaveOneOwner
  /\ HasBuffer => /\ \A i \in DOMAIN work : work[i] # held
                  /\ \A i \in DOMAIN free : free[i] # held
                  /\ caller = "send" => buf # held
  /\ caller = "send" => \A i \in DOMAIN free : free[i] # buf

\* The byte before the first queued one.
Reached == IF worker = "hash" THEN digest + content[held].n ELSE digest

\* The buffers hold the bytes between the hashed and the queued ones in order.
Order ==
  Sane =>
    /\ digest \in Nat /\ digest = consumed
    /\ worker = "hash" => content[held].from = digest + 1
    /\ work = <<>> => Reached = handed - left
    /\ work # <<>> =>
         /\ content[work[1]].from = Reached + 1
         /\ content[work[Len(work)]].from + content[work[Len(work)]].n = handed - left + 1
    /\ \A i \in 1 .. Len(work) - 1 :
         content[work[i + 1]].from = content[work[i]].from + content[work[i]].n

Answered == answer = "digest" => worker = "gone" /\ caller = "done" /\ digest = handed

HashInv == TypeOK /\ Counts /\ Course /\ Owners /\ Order /\ Answered

-----------------------------------------------------------------------------
(* Queues.                                                                 *)

\* Putting a buffer at the end of a channel, and taking the first one off.
LEMMA Appended ==
  ASSUME NEW q \in Seq(Buf), NEW b \in Buf
  PROVE  /\ Append(q, b) \in Seq(Buf) /\ Append(q, b) # <<>>
         /\ Len(Append(q, b)) = Len(q) + 1 /\ DOMAIN Append(q, b) = 1 .. Len(q) + 1
         /\ \A i \in 1 .. Len(q) : Append(q, b)[i] = q[i]
         /\ Append(q, b)[Len(q) + 1] = b
OBVIOUS

LEMMA Taken ==
  ASSUME NEW q \in Seq(Buf), q # <<>>
  PROVE  /\ Head(q) = q[1] /\ Head(q) \in Buf /\ Len(q) \in Nat \ {0}
         /\ Tail(q) \in Seq(Buf)
         /\ Len(Tail(q)) = Len(q) - 1 /\ DOMAIN Tail(q) = 1 .. Len(q) - 1
         /\ \A i \in 1 .. Len(q) - 1 : Tail(q)[i] = q[i + 1]
         /\ Tail(q) = <<>> <=> Len(q) = 1
<1>1. Head(q) = q[1] /\ Head(q) \in Buf
  OBVIOUS
<1>2. Tail(q) \in Seq(Buf)
  OBVIOUS
<1>3. Len(q) \in Nat \ {0} /\ Len(Tail(q)) = Len(q) - 1
  OBVIOUS
<1>4. DOMAIN Tail(q) = 1 .. Len(q) - 1
  BY <1>2, <1>3, LenProperties
<1>5. \A i \in 1 .. Len(q) - 1 : Tail(q)[i] = q[i + 1]
  OBVIOUS
<1>6. Tail(q) = <<>> <=> Len(q) = 1
  <2>1. CASE Tail(q) = <<>>
    BY <1>3, <2>1, EmptySeq
  <2>2. CASE Tail(q) # <<>>
    BY <1>2, <1>3, <2>2, EmptySeq
  <2> QED
    BY <2>1, <2>2
<1> QED
  BY <1>1, <1>2, <1>3, <1>4, <1>5, <1>6

-----------------------------------------------------------------------------
(* The invariant.                                                          *)

\* The pool is full and nothing is queued.
LEMMA InitHash == Init => HashInv
<1> SUFFICES ASSUME Init PROVE HashInv
  OBVIOUS
<1> USE PoolAssumption DEF Init
<1>1. TypeOK
  <2>1. free \in Seq(Buf) /\ work \in Seq(Buf)
    BY DEF Buf
  <2>2. content \in [Buf -> Span] /\ held \in Buf /\ buf \in Buf
    BY DEF Buf, Span
  <2>3. closed \in BOOLEAN /\ dead \in BOOLEAN /\ err \in BOOLEAN /\ failed \in BOOLEAN
    OBVIOUS
  <2> QED
    BY <2>1, <2>2, <2>3 DEF TypeOK
<1>2. Counts /\ Course /\ Order /\ Answered
  BY DEF Counts, Course, Order, Answered, InWrite, Sane, Reached
<1>3. Owners
  BY DEF Owners, BuffersHaveOneOwner, HasBuffer, Buf
<1> QED
  BY <1>1, <1>2, <1>3 DEF HashInv

\* Steps of the hasher.
LEMMA WorkerHash == ASSUME HashInv, Worker PROVE HashInv'
<1> USE DEF HashInv, hasher, writer, call
<1> USE DEF InWrite, HasBuffer, Sane
<1>1. CASE Receive
  <2>1. /\ held' = work[1] /\ held' \in Buf /\ work' \in Seq(Buf) /\ Len(work) \in Nat \ {0}
        /\ Len(work') = Len(work) - 1 /\ DOMAIN work' = 1 .. Len(work) - 1
        /\ \A i \in 1 .. Len(work) - 1 : work'[i] = work[i + 1]
        /\ work' = <<>> <=> Len(work) = 1
        /\ DOMAIN work = 1 .. Len(work)
    BY <1>1, Taken, LenProperties DEF Receive, TypeOK
  <2>2. TypeOK'
    BY <1>1, <2>1 DEF Receive, TypeOK
  <2>3. Counts' /\ Course' /\ Answered'
    BY <1>1 DEF Receive, Counts, Course, Answered, NextSpan
  <2>4. Owners'
    <3>1. \A i \in DOMAIN work' : i + 1 \in DOMAIN work /\ work'[i] = work[i + 1] /\ i # 0
      BY <2>1
    <3>2. 1 \in DOMAIN work /\ DOMAIN work \subseteq Int
      BY <2>1
    <3>3. /\ \A i, j \in DOMAIN work' : work'[i] = work'[j] => i = j
          /\ \A i \in DOMAIN work' : work'[i] # held'
      BY <2>1, <3>1, <3>2 DEF Owners, BuffersHaveOneOwner
    <3>4. /\ \A i \in DOMAIN work', j \in DOMAIN free : work'[i] # free[j]
          /\ \A j \in DOMAIN free : free[j] # held'
      BY <2>1, <3>1, <3>2 DEF Owners, BuffersHaveOneOwner
    <3>5. caller = "send" => buf # held' /\ \A i \in DOMAIN work' : buf # work'[i]
      BY <2>1, <3>1, <3>2 DEF Owners, BuffersHaveOneOwner
    <3>6. UNCHANGED <<free, caller, buf>>
      BY <1>1 DEF Receive
    <3> QED
      BY <3>3, <3>4, <3>5, <3>6 DEF Owners, BuffersHaveOneOwner
  <2>5. Order'
    <3> SUFFICES ASSUME Sane' PROVE Order!2'
      BY DEF Order
    <3>1. Sane /\ work # <<>> /\ worker = "receive" /\ worker' = "hash"
      BY <1>1 DEF Receive
    <3>2. /\ content[work[1]].from = digest + 1 /\ digest \in Nat /\ digest = consumed
          /\ content[work[Len(work)]].from + content[work[Len(work)]].n = handed - left + 1
          /\ \A i \in 1 .. Len(work) - 1 :
               content[work[i + 1]].from = content[work[i]].from + content[work[i]].n
      BY <3>1 DEF Order, Reached
    <3>3. UNCHANGED <<content, digest, consumed, handed, left>>
      BY <1>1 DEF Receive
    <3>4. Reached' = digest + content[work[1]].n /\ content'[held'].from = digest' + 1
      BY <2>1, <3>1, <3>2, <3>3 DEF Reached
    <3>5. content[work[1]].n \in Int /\ content[work[1]].from \in Int
      BY <2>1, PoolAssumption DEF TypeOK, Span
    <3>8. handed \in Int /\ left \in Int
      BY PoolAssumption DEF TypeOK
    <3>6. CASE Len(work) = 1
      <4>1. work' = <<>> /\ 1 .. Len(work') - 1 = {}
        BY <2>1, <3>6
      <4>2. Reached' = handed - left
        BY <3>2, <3>4, <3>5, <3>6, <3>8
      <4> QED
        BY <3>1, <3>2, <3>3, <3>4, <4>1, <4>2
    <3>7. CASE Len(work) > 1
      <4>1. content[work[2]].from = digest + 1 + content[work[1]].n
        BY <2>1, <3>2, <3>7
      <4>2. content[work'[1]].from = Reached' + 1
        <5>4. 1 \in 1 .. Len(work) - 1 /\ 1 + 1 = 2
          BY <2>1, <3>7
        <5>1. work'[1] = work[2]
          BY <2>1, <5>4
        <5>2. content[work'[1]].from = digest + 1 + content[work[1]].n
          BY <4>1, <5>1
        <5>3. digest \in Int /\ Reached' = digest + content[work[1]].n
          BY <3>2, <3>4
        <5>5. \A x, y \in Int : (x + y) + 1 = x + 1 + y
          OBVIOUS
        <5> QED
          BY <3>5, <5>2, <5>3, <5>5
      <4>3. work'[Len(work')] = work[Len(work)]
        BY <2>1, <3>7
      <4>4. \A i \in 1 .. Len(work') - 1 :
              content[work'[i + 1]].from = content[work'[i]].from + content[work'[i]].n
        <5> SUFFICES ASSUME NEW i \in 1 .. Len(work') - 1
                     PROVE  content[work'[i + 1]].from = content[work'[i]].from + content[work'[i]].n
          OBVIOUS
        <5>1. /\ work'[i] = work[i + 1] /\ work'[i + 1] = work[(i + 1) + 1]
              /\ i + 1 \in 1 .. Len(work) - 1
          BY <2>1
        <5> QED
          BY <3>2, <5>1
      <4> QED
        BY <2>1, <3>1, <3>2, <3>3, <3>4, <3>7, <4>2, <4>3, <4>4
    <3> QED
      BY <2>1, <3>6, <3>7
  <2> QED
    BY <2>2, <2>3, <2>4, <2>5
<1>2. CASE Hash
  <2>1. content[held].n \in Nat /\ content[held].from \in Nat
    BY PoolAssumption DEF TypeOK, Span
  <2>2. TypeOK'
    <3>1. digest' \in Nat \cup {Garbled} /\ consumed' \in Nat
      <4>1. CASE digest = Garbled
        BY <1>2, <2>1, <4>1 DEF Hash, TypeOK
      <4>2. CASE digest \in Nat /\ digest # Garbled
        <5>1. digest' \in {digest + content[held].n, Garbled}
          BY <1>2, <4>2 DEF Hash, Hashed
        <5>2. digest + content[held].n \in Nat
          BY <2>1, <4>2
        <5>3. consumed' \in Nat
          BY <1>2, <2>1 DEF Hash, TypeOK
        <5> QED
          BY <5>1, <5>2, <5>3
      <4> QED
        BY <4>1, <4>2 DEF TypeOK
    <3> QED
      BY <1>2, <3>1 DEF Hash, TypeOK
  <2>3. Counts' /\ Course' /\ Answered'
    BY <1>2 DEF Hash, Counts, Course, Answered, NextSpan
  <2>4. Owners'
    BY <1>2 DEF Hash, Owners, BuffersHaveOneOwner
  <2>5. Order'
    <3>1. ASSUME Sane PROVE digest' = digest + content[held].n /\ digest' = consumed'
      BY <1>2, <2>1, <3>1 DEF Hash, Hashed, Order, Garbled
    <3>2. Sane => digest' \in Nat /\ Reached' = Reached
      BY <1>2, <2>1, <3>1 DEF Hash, Order, Reached
    <3>3. UNCHANGED <<work, content, handed, left, err>> /\ worker = "hash" /\ worker' = "giveBack"
      BY <1>2 DEF Hash
    <3> QED
      BY <3>1, <3>2, <3>3 DEF Order
  <2> QED
    BY <2>2, <2>3, <2>4, <2>5
<1>3. CASE GiveBack
  <2>1. /\ free' \in Seq(Buf) /\ DOMAIN free' = 1 .. Len(free) + 1
        /\ \A i \in 1 .. Len(free) : free'[i] = free[i]
        /\ free'[Len(free) + 1] = held
        /\ Len(free) \in Nat /\ DOMAIN free = 1 .. Len(free)
    BY <1>3, Appended, LenProperties DEF GiveBack, TypeOK
  <2>2. TypeOK'
    BY <1>3, <2>1 DEF GiveBack, TypeOK
  <2>3. Counts' /\ Course' /\ Answered'
    BY <1>3 DEF GiveBack, Counts, Course, Answered, NextSpan
  <2>4. Owners'
    BY <1>3, <2>1 DEF GiveBack, Owners, BuffersHaveOneOwner, TypeOK
  <2>5. Order'
    BY <1>3 DEF GiveBack, Order, Reached, Course, TypeOK
  <2> QED
    BY <2>2, <2>3, <2>4, <2>5
<1>4. CASE HashPanics
  <2>1. TypeOK'
    BY <1>4 DEF HashPanics, TypeOK
  <2>2. Counts' /\ Course' /\ Answered' /\ Order'
    BY <1>4 DEF HashPanics, Counts, Course, Answered, NextSpan, Order
  <2>3. Owners'
    BY <1>4 DEF HashPanics, Owners, BuffersHaveOneOwner
  <2> QED
    BY <2>1, <2>2, <2>3
<1>5. CASE Recover
  <2>1. TypeOK'
    BY <1>5 DEF Recover, TypeOK
  <2>2. Counts' /\ Course' /\ Answered' /\ Order'
    BY <1>5 DEF Recover, Counts, Course, Answered, NextSpan, Order
  <2>3. Owners'
    BY <1>5 DEF Recover, Owners, BuffersHaveOneOwner
  <2> QED
    BY <2>1, <2>2, <2>3
<1>6. CASE Drained
  <2>1. TypeOK'
    BY <1>6 DEF Drained, TypeOK
  <2>2. Counts' /\ Course' /\ Answered'
    BY <1>6 DEF Drained, Counts, Course, Answered, NextSpan
  <2>3. Owners' /\ Order'
    BY <1>6 DEF Drained, Owners, BuffersHaveOneOwner, Order, Reached
  <2> QED
    BY <2>1, <2>2, <2>3
<1>7. CASE Die
  <2>1. TypeOK'
    BY <1>7 DEF Die, TypeOK
  <2>2. Counts' /\ Course' /\ Answered'
    BY <1>7 DEF Die, Counts, Course, Answered, NextSpan
  <2>3. Owners' /\ Order'
    BY <1>7 DEF Die, Owners, BuffersHaveOneOwner, Order, Reached
  <2> QED
    BY <2>1, <2>2, <2>3
<1> QED
  BY <1>1, <1>2, <1>3, <1>4, <1>5, <1>6, <1>7 DEF Worker

\* Steps of the writer.
LEMMA WriterHash ==
  ASSUME HashInv,
         InCall \/ (\E n \in 1 .. MaxBytes - handed : Write(n)) \/ Sum \/ Release
  PROVE  HashInv'
<1> USE DEF HashInv, hasher, writer, call
<1> USE DEF InWrite, HasBuffer, Sane
<1>1. CASE Acquire
  <2> DEFINE b == Head(free)
  <2>1. /\ b = free[1] /\ buf' = b /\ b \in Buf /\ free' \in Seq(Buf) /\ Len(free) \in Nat \ {0}
        /\ DOMAIN free' = 1 .. Len(free) - 1
        /\ \A i \in 1 .. Len(free) - 1 : free'[i] = free[i + 1]
        /\ DOMAIN free = 1 .. Len(free)
    BY <1>1, Taken, LenProperties DEF Acquire, TypeOK
  <2>2. NextSpan \in Span /\ NextSpan' = NextSpan
    BY <1>1, PoolAssumption DEF Acquire, NextSpan, Span, TypeOK, Counts
  <2>3. /\ content' \in [Buf -> Span] /\ content'[b] = NextSpan
        /\ \A c \in Buf \ {b} : content'[c] = content[c]
    BY <1>1, <2>1, <2>2 DEF Acquire, TypeOK
  <2>4. TypeOK'
    BY <1>1, <2>1, <2>3 DEF Acquire, TypeOK
  <2>5. Counts' /\ Course' /\ Answered'
    BY <1>1, <2>1, <2>2, <2>3 DEF Acquire, Counts, Course, Answered
  <2>6. Owners'
    <3>1. \A i \in DOMAIN free' : i + 1 \in DOMAIN free /\ free'[i] = free[i + 1] /\ i + 1 # 1
      BY <2>1
    <3>2. 1 \in DOMAIN free /\ DOMAIN free \subseteq Int /\ DOMAIN free' \subseteq Int
      BY <2>1
    <3>3. \A i, j \in DOMAIN free' : free'[i] = free'[j] => i = j
      BY <3>1, <3>2 DEF Owners, BuffersHaveOneOwner
    <3>4. /\ \A i \in DOMAIN work, j \in DOMAIN free' : work[i] # free'[j]
          /\ \A i \in DOMAIN work : work[i] # b
          /\ \A j \in DOMAIN free' : free'[j] # b
          /\ HasBuffer => b # held /\ \A j \in DOMAIN free' : free'[j] # held
      BY <2>1, <3>1, <3>2 DEF Owners, BuffersHaveOneOwner
    <3>5. UNCHANGED <<work, worker, held>> /\ caller' = "send" /\ buf' = b
      BY <1>1, <2>1 DEF Acquire
    <3> HIDE DEF b
    <3> QED
      BY <3>3, <3>4, <3>5 DEF Owners, BuffersHaveOneOwner
  <2>7. /\ \A i \in DOMAIN work : work[i] \in Buf \ {b} /\ content'[work[i]] = content[work[i]]
        /\ HasBuffer => content'[held] = content[held]
    <3>1. /\ \A i \in DOMAIN work : work[i] \in Buf /\ work[i] # b
          /\ held \in Buf /\ (HasBuffer => held # b)
      BY <2>1, LenProperties DEF Owners, BuffersHaveOneOwner, TypeOK
    <3> QED
      BY <2>3, <3>1
  <2>8. Order'
    <3>1. Len(work) \in Nat /\ DOMAIN work = 1 .. Len(work) /\ (work # <<>> => Len(work) # 0)
      BY LenProperties, EmptySeq DEF TypeOK
    <3>2. Reached' = Reached
      BY <1>1, <2>7 DEF Acquire, Reached
    <3> QED
      BY <1>1, <2>7, <3>1, <3>2 DEF Acquire, Order
  <2> QED
    BY <2>4, <2>5, <2>6, <2>8
<1>2. CASE Send
  <2>1. /\ work' \in Seq(Buf) /\ DOMAIN work' = 1 .. Len(work) + 1 /\ Len(work') = Len(work) + 1
        /\ work' # <<>> /\ Len(work) \in Nat /\ DOMAIN work = 1 .. Len(work)
        /\ \A i \in 1 .. Len(work) : work'[i] = work[i]
        /\ work'[Len(work) + 1] = buf
        /\ work # <<>> => Len(work) # 0
    BY <1>2, Appended, LenProperties, EmptySeq DEF Send, TypeOK
  <2>2. PICK k \in 1 .. left :
          /\ left > 0 /\ left \in Nat /\ content[buf].n = k
          /\ content[buf].from = handed - left + 1
          /\ left' = left - k /\ total' = total + k
    BY <1>2, PoolAssumption DEF Send, Counts, NextSpan, TypeOK
  <2>3. /\ written \in Nat /\ total \in Nat /\ handed \in 0 .. MaxBytes
        /\ written + total + left = handed /\ ~failed /\ left' \in Nat
    BY <1>2, <2>2, PoolAssumption DEF Send, Counts, TypeOK
  <2>4. \/ /\ left' > 0 /\ caller' = "acquire" /\ written' = written
           /\ written' + total' + left' = handed
        \/ left' = 0 /\ caller' = "ready" /\ written' = handed
    <3>1. CASE left' > 0
      <4>1. caller' = "acquire" /\ written' = written
        BY <1>2, <3>1 DEF Send
      <4>2. written + total' + left' = handed
        BY <2>2, <2>3
      <4> QED
        BY <3>1, <4>1, <4>2
    <3>2. CASE left' = 0
      <4>1. caller' = "ready" /\ written' = written + total'
        BY <1>2, <3>2 DEF Send
      <4>2. written + total' = handed
        BY <2>2, <2>3, <3>2
      <4> QED
        BY <3>2, <4>1, <4>2
    <3> QED
      BY <2>3, <3>1, <3>2
  <2>5. TypeOK'
    <3>1. left' \in 0 .. MaxBytes /\ total' \in 0 .. MaxBytes /\ written' \in 0 .. MaxBytes
      BY <2>2, <2>3, <2>4, PoolAssumption
    <3> QED
      BY <1>2, <2>1, <2>4, <3>1 DEF Send, TypeOK
  <2>6. Counts'
    BY <1>2, <2>3, <2>4 DEF Send, Counts
  <2>7. Course' /\ Answered'
    BY <1>2, <2>4 DEF Send, Course, Answered
  <2>8. Owners'
    <3>1. UNCHANGED <<free, worker, held, buf>>
      BY <1>2 DEF Send
    <3> QED
      BY <1>2, <2>1, <2>4, <3>1 DEF Send, Owners, BuffersHaveOneOwner
  <2>9. Order'
    <3> SUFFICES ASSUME Sane' PROVE Order!2'
      BY DEF Order
    <3>1. Sane /\ Reached' = Reached /\ UNCHANGED <<content, digest, consumed, worker, held, handed>>
      BY <1>2 DEF Send, Reached
    <3>2. content[buf].from + content[buf].n = handed - left' + 1
      BY <2>2, <2>3
    <3>3. CASE work = <<>>
      <4>1. Len(work) = 0 /\ Reached = handed - left
        BY <3>1, <3>3 DEF Order
      <4>2. work'[1] = buf /\ Len(work') = 1 /\ content[buf].from = Reached + 1
        BY <2>1, <2>2, <2>3, <4>1
      <4>3. 1 .. Len(work') - 1 = {}
        BY <4>2
      <4>4. /\ digest' \in Nat /\ digest' = consumed'
            /\ worker' = "hash" => content'[held'].from = digest' + 1
        BY <3>1 DEF Order
      <4>5. /\ content'[work'[1]].from = Reached' + 1
            /\ content'[work'[Len(work')]].from + content'[work'[Len(work')]].n
                 = handed' - left' + 1
        BY <3>1, <3>2, <4>2
      <4> QED
        BY <2>1, <4>3, <4>4, <4>5
    <3>4. CASE work # <<>>
      <4>1. Len(work) > 0 /\ content[work[1]].from = Reached + 1
        BY <2>1, <3>1, <3>4 DEF Order
      <4>2. content[work[Len(work)]].from + content[work[Len(work)]].n = content[buf].from
        BY <2>2, <3>1, <3>4 DEF Order
      <4>3. \A i \in 1 .. Len(work') - 1 :
              content[work'[i + 1]].from = content[work'[i]].from + content[work'[i]].n
        <5> SUFFICES ASSUME NEW i \in 1 .. Len(work)
                     PROVE  content[work'[i + 1]].from = content[work'[i]].from + content[work'[i]].n
          BY <2>1
        <5>1. CASE i = Len(work)
          BY <2>1, <4>2, <5>1
        <5>2. CASE i \in 1 .. Len(work) - 1
          BY <2>1, <3>1, <5>2 DEF Order
        <5>3. i = Len(work) \/ i \in 1 .. Len(work) - 1
          BY <4>1
        <5> QED
          BY <5>1, <5>2, <5>3
      <4> QED
        BY <2>1, <3>1, <3>2, <4>1, <4>3 DEF Order
    <3> QED
      BY <3>3, <3>4
  <2> QED
    BY <2>5, <2>6, <2>7, <2>8, <2>9
<1>3. CASE WriteFails
  <2>1. TypeOK' /\ Course' /\ Counts'
    BY <1>3 DEF WriteFails, TypeOK, Course, Counts
  <2>2. Owners' /\ Order' /\ Answered'
    BY <1>3 DEF WriteFails, Owners, BuffersHaveOneOwner, Order, Reached, Answered
  <2> QED
    BY <2>1, <2>2
<1>4. CASE Answer
  <2>1. TypeOK' /\ Course' /\ Counts'
    BY <1>4 DEF Answer, TypeOK, Course, Counts
  <2>2. Owners' /\ Order'
    BY <1>4 DEF Answer, Owners, BuffersHaveOneOwner, Order, Reached
  <2>3. Answered'
    BY <1>4 DEF Answer, Answered, Order, Course, Counts
  <2> QED
    BY <2>1, <2>2, <2>3
<1>5. ASSUME NEW n \in 1 .. MaxBytes - handed, Write(n) PROVE HashInv'
  <2>1. /\ handed' = handed + n /\ left' = n /\ total' = 0 /\ n \in Nat \ {0}
        /\ handed' \in 0 .. MaxBytes /\ left' \in 0 .. MaxBytes
    BY <1>5, PoolAssumption DEF Write, TypeOK
  <2>2. TypeOK' /\ Course'
    BY <1>5, <2>1, PoolAssumption DEF Write, TypeOK, Course
  <2>3. Counts'
    BY <1>5, <2>1 DEF Write, Counts, TypeOK
  <2>4. Owners' /\ Answered'
    BY <1>5 DEF Write, Owners, BuffersHaveOneOwner, Answered
  <2>5. handed' - left' = handed - left
    BY <1>5, <2>1 DEF Write, Counts, TypeOK
  <2>6. Order'
    BY <1>5, <2>5 DEF Write, Order, Reached
  <2> QED
    BY <2>2, <2>3, <2>4, <2>6
<1>6. CASE Sum
  <2>1. TypeOK' /\ Course' /\ Counts'
    BY <1>6 DEF Sum, TypeOK, Course, Counts
  <2>2. Owners' /\ Order' /\ Answered'
    BY <1>6 DEF Sum, Owners, BuffersHaveOneOwner, Order, Reached, Answered
  <2> QED
    BY <2>1, <2>2
<1>7. CASE Release
  <2>1. TypeOK' /\ Course' /\ Counts'
    BY <1>7 DEF Release, TypeOK, Course, Counts
  <2>2. Owners' /\ Order' /\ Answered'
    BY <1>7 DEF Release, Owners, BuffersHaveOneOwner, Order, Reached, Answered
  <2> QED
    BY <2>1, <2>2
<1> QED
  BY <1>1, <1>2, <1>3, <1>4, <1>5, <1>6, <1>7 DEF InCall

-----------------------------------------------------------------------------
(* What a caller may rely on.                                              *)

\* HashInv is inductive.
THEOREM HashInvHolds == Spec => []HashInv
<1>1. Init => HashInv
  BY InitHash
<1>2. HashInv /\ [Next]_vars => HashInv'
  <2> SUFFICES ASSUME HashInv, [Next]_vars PROVE HashInv'
    OBVIOUS
  <2>1. CASE UNCHANGED vars
    BY <2>1 DEF vars, hasher, writer, call, HashInv, TypeOK, Counts, Course, Owners, Order,
       Answered, BuffersHaveOneOwner, InWrite, HasBuffer, Sane, Reached, NextSpan
  <2>2. CASE Over
    BY <2>1, <2>2 DEF Over
  <2> QED
    BY <2>1, <2>2, WorkerHash, WriterHash DEF Next
<1> QED
  BY <1>1, <1>2, PTL DEF Spec

\* The channels hold buffers of the pool, and every count stays within the
\* stream, whatever the sizes and wherever the hasher dies.
THEOREM TypeCorrect == Spec => []TypeOK
<1>1. HashInv => TypeOK
  BY DEF HashInv
<1> QED
  BY <1>1, HashInvHolds, PTL

\* Whatever the size of the pool and of the buffers, and wherever the hasher
\* dies, a digest Sum returns is that of all bytes handed to Write, in order.
THEOREM DigestsCoverEverything == Spec => []DigestCoversEverything
<1>1. HashInv => DigestCoversEverything
  BY DEF HashInv, Answered, DigestCoversEverything
<1> QED
  BY <1>1, HashInvHolds, PTL

\* No buffer is filled while the hasher has still to read it.
THEOREM BuffersAlwaysHaveOneOwner == Spec => []BuffersHaveOneOwner
<1>1. HashInv => BuffersHaveOneOwner
  BY DEF HashInv, Owners
<1> QED
  BY <1>1, HashInvHolds, PTL
=============================================================================
