----------------------------- MODULE AsyncHash -----------------------------
(***************************************************************************)
(* asyncHash: a SHA-512 that runs on a goroutine of its own.  Encrypt,     *)
(* Decrypt and restore's reader write to it where a hash.Hash used to be;  *)
(* the bytes reach the hasher in a fixed pool of recycled buffers.         *)
(*                                                                         *)
(* A stream's bytes are numbered, and a buffer holds a span of them.  A    *)
(* digest is the number of bytes it covers when those are the stream's     *)
(* first bytes in their order, and Garbled when they are anything else.    *)
(***************************************************************************)
EXTENDS Integers, Sequences

CONSTANTS
  Bufs,      \* asyncHashBufs
  BufSize,   \* asyncHashSize
  MaxBytes   \* bound: length of the stream

ASSUME PoolAssumption ==
  /\ Bufs \in Nat \ {0} /\ BufSize \in Nat \ {0} /\ MaxBytes \in Nat

Buf == 1 .. Bufs
Span == [from : Nat, n : 0 .. BufSize]
Garbled == -1

VARIABLES
  free,      \* channel of buffers to fill
  work,      \* channel of buffers to hash
  closed,    \* whether work is closed
  dead,      \* whether dead is closed
  err,       \* the recovered panic
  content,   \* what each buffer holds
  worker,    \* where the hashing goroutine is
  held,      \* the buffer it took
  digest,    \* what it has hashed
  consumed,  \* how much it says it has hashed
  caller,    \* where the writing goroutine is
  buf,       \* the buffer it fills
  handed,    \* bytes handed to Write so far
  left,      \* bytes of this Write not queued yet
  total,     \* bytes of this Write queued
  written,   \* bytes Write has accepted
  failed,    \* whether a Write has failed
  answer     \* what Sum returned: "none" before, "digest" or "error"

hasher == <<err, worker, held, digest, consumed>>
call == <<buf, handed, left, total>>
writer == <<caller, call, written, failed, answer>>
vars == <<free, work, closed, dead, content, hasher, writer>>

TypeOK ==
  /\ free \in Seq(Buf) /\ work \in Seq(Buf)
  /\ closed \in BOOLEAN /\ dead \in BOOLEAN /\ err \in BOOLEAN /\ failed \in BOOLEAN
  /\ content \in [Buf -> Span]
  /\ worker \in {"receive", "hash", "giveBack", "recover", "die", "gone"}
  /\ caller \in {"ready", "acquire", "send", "wait", "done"}
  /\ held \in Buf /\ buf \in Buf
  /\ digest \in Nat \cup {Garbled} /\ consumed \in Nat
  /\ handed \in 0 .. MaxBytes /\ left \in 0 .. MaxBytes
  /\ total \in 0 .. MaxBytes /\ written \in 0 .. MaxBytes
  /\ answer \in {"none", "digest", "error"}

\* newAsyncHash.
Init ==
  /\ free = [i \in Buf |-> i] /\ work = <<>> /\ closed = FALSE /\ dead = FALSE
  /\ content = [b \in Buf |-> [from |-> 0, n |-> 0]]
  /\ worker = "receive" /\ held = 1 /\ digest = 0 /\ consumed = 0 /\ err = FALSE
  /\ caller = "ready" /\ buf = 1 /\ handed = 0 /\ left = 0 /\ total = 0 /\ written = 0
  /\ failed = FALSE /\ answer = "none"

-----------------------------------------------------------------------------
(* The hashing goroutine.                                                  *)

\* A buffer that goes back to the pool before it has been hashed.
ReceiveAndGiveBack ==
  /\ worker = "receive" /\ work # <<>>
  /\ held' = Head(work) /\ work' = Tail(work) /\ free' = Append(free, Head(work))
  /\ worker' = "hash"
  /\ UNCHANGED <<closed, dead, content, err, digest, consumed, writer>>

Receive ==
  /\ worker = "receive" /\ work # <<>>
  /\ held' = Head(work) /\ work' = Tail(work)
  /\ worker' = "hash"
  /\ UNCHANGED <<free, closed, dead, content, err, digest, consumed, writer>>

Hashed(span) == IF span.from = digest + 1 THEN digest + span.n ELSE Garbled

Hash ==
  /\ worker = "hash"
  /\ digest' = IF digest = Garbled THEN Garbled ELSE Hashed(content[held])
  /\ consumed' = consumed + content[held].n
  /\ worker' = "giveBack"
  /\ UNCHANGED <<free, work, closed, dead, content, err, held, writer>>

GiveBack ==
  /\ worker = "giveBack" /\ Len(free) < Bufs
  /\ free' = Append(free, held)
  /\ worker' = "receive"
  /\ UNCHANGED <<work, closed, dead, content, err, held, digest, consumed, writer>>

\* The hash panics on a buffer, having taken in none of it or part of it.
HashPanics ==
  /\ worker = "hash"
  /\ digest' \in {digest, Garbled}
  /\ worker' = "recover"
  /\ UNCHANGED <<free, work, closed, dead, content, err, held, consumed, writer>>

Recover ==
  /\ worker = "recover"
  /\ err' = TRUE
  /\ worker' = "die"
  /\ UNCHANGED <<free, work, closed, dead, content, held, digest, consumed, writer>>

Drained ==
  /\ worker = "receive" /\ work = <<>> /\ closed
  /\ worker' = "die"
  /\ UNCHANGED <<free, work, closed, dead, content, err, held, digest, consumed, writer>>

Die ==
  /\ worker = "die"
  /\ dead' = TRUE
  /\ worker' = "gone"
  /\ UNCHANGED <<free, work, closed, content, err, held, digest, consumed, writer>>

-----------------------------------------------------------------------------
(* Write, Sum and release, called one after another by one goroutine.      *)

\* Nobody writes after a failed Write (io.MultiWriter and CopyCtx stop there)
\* or after the end of the stream.
Write(n) ==
  /\ caller = "ready" /\ ~failed
  /\ handed' = handed + n /\ left' = n /\ total' = 0
  /\ caller' = "acquire"
  /\ UNCHANGED <<free, work, closed, dead, content, hasher, buf, written, failed, answer>>

\* A span that ignores the size of the buffer.
WholeRest == [from |-> handed - left + 1, n |-> left]

\* What one buffer takes of what is left of p: copy.
NextSpan ==
  [from |-> handed - left + 1, n |-> IF left < BufSize THEN left ELSE BufSize]

\* A free buffer may be taken even when the hasher is dead: select chooses.
Acquire ==
  /\ caller = "acquire" /\ free # <<>>
  /\ buf' = Head(free) /\ free' = Tail(free)
  /\ content' = [content EXCEPT ![Head(free)] = NextSpan]
  /\ caller' = "send"
  /\ UNCHANGED <<work, closed, dead, hasher, handed, left, total, written, failed, answer>>

\* "written" grows when the whole of p has been queued.
Send ==
  /\ caller = "send" /\ Len(work) < Bufs
  /\ work' = Append(work, buf)
  /\ left' = left - content[buf].n /\ total' = total + content[buf].n
  /\ IF left' > 0 THEN caller' = "acquire" /\ UNCHANGED written
                  ELSE caller' = "ready" /\ written' = written + total'
  /\ UNCHANGED <<free, closed, dead, content, hasher, buf, handed, failed, answer>>

\* A Write that waits for a buffer without looking at the hasher.
WriteFailsLate ==
  /\ caller = "send" /\ dead
  /\ caller' = "ready" /\ failed' = TRUE
  /\ UNCHANGED <<free, work, closed, dead, content, hasher, call, written, answer>>

WriteFails ==
  /\ caller \in {"acquire", "send"} /\ dead
  /\ caller' = "ready" /\ failed' = TRUE
  /\ UNCHANGED <<free, work, closed, dead, content, hasher, call, written, answer>>

Sum ==
  /\ caller = "ready"
  /\ closed' = TRUE
  /\ caller' = "wait"
  /\ UNCHANGED <<free, work, dead, content, hasher, call, written, failed, answer>>

\* A Sum that trusts the counts and does not look for a panic.
AnswerByCounts ==
  /\ caller = "wait" /\ dead
  /\ answer' = IF consumed = written THEN "digest" ELSE "error"
  /\ caller' = "done"
  /\ UNCHANGED <<free, work, closed, dead, content, hasher, call, written, failed>>

Answer ==
  /\ caller = "wait" /\ dead
  /\ answer' = IF ~err /\ consumed = written THEN "digest" ELSE "error"
  /\ caller' = "done"
  /\ UNCHANGED <<free, work, closed, dead, content, hasher, call, written, failed>>

\* The error paths: the digest is no longer wanted.
Release ==
  /\ caller = "ready"
  /\ closed' = TRUE
  /\ caller' = "done"
  /\ UNCHANGED <<free, work, dead, content, hasher, call, written, failed, answer>>

\* Both goroutines have come to their end.
Over == caller = "done" /\ worker = "gone" /\ UNCHANGED vars

Worker == Receive \/ Hash \/ GiveBack \/ HashPanics \/ Recover \/ Drained \/ Die
InCall == Acquire \/ Send \/ WriteFails \/ Answer

Next ==
  \/ Worker \/ InCall
  \/ \E n \in 1 .. MaxBytes - handed : Write(n)
  \/ Sum \/ Release \/ Over

Spec == Init /\ [][Next]_vars

\* The scheduler runs both goroutines; nobody has to call anything.
FairSpec == Spec /\ WF_vars(Worker) /\ WF_vars(InCall)

-----------------------------------------------------------------------------
(* Properties.                                                             *)

\* The digest Sum returns is that of every byte handed to Write, each once and
\* in order, whatever buffers carried them and whenever the hasher died: a
\* digest of fewer bytes is never presented as the right one (run, Sum).
DigestCoversEverything == answer = "digest" => digest = handed

\* No buffer is in two hands: the writer never fills one that the hasher has
\* still to read, and the pool never holds one twice (Write, run).
BuffersHaveOneOwner ==
  /\ \A i, j \in DOMAIN work : work[i] = work[j] => i = j
  /\ \A i, j \in DOMAIN free : free[i] = free[j] => i = j
  /\ \A i \in DOMAIN work, j \in DOMAIN free : work[i] # free[j]
  /\ caller = "send" =>
       \A i \in DOMAIN work : buf # work[i] /\ (worker = "hash" => buf # held)

\* Write and Sum return, even when the hasher dies while they wait for it.
CallsReturn == caller \in {"acquire", "send", "wait"} ~> caller \in {"ready", "done"}
=============================================================================
