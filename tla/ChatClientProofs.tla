-------------------------- MODULE ChatClientProofs --------------------------
(***************************************************************************)
(* What chat_client promises for any input, any number of copies of a line *)
(* and any number of messages from the server: ClientInv is inductive.     *)
(***************************************************************************)
EXTENDS ChatClient, SequenceTheorems, TLAPS

\* Handlers that only report an error, at most one of either chain.
Failures(extra) ==
    /\ \A k \in 1 .. Len(extra) :
           extra[k].ok = FALSE /\ extra[k].op \in {"handle_write"} \cup ReadChain
    /\ \A j, k \in 1 .. Len(extra) :
           extra[j].op = "handle_write" /\ extra[k].op = "handle_write" => j = k
    /\ \A j, k \in 1 .. Len(extra) :
           extra[j].op \in ReadChain /\ extra[k].op \in ReadChain => j = k

\* Does a sequence of handlers have one of these?
Has(s, ops) == \E k \in 1 .. Len(s) : s[k].op \in ops

-----------------------------------------------------------------------------
(* The queue of handlers.                                                  *)

\* What Handler builds.
LEMMA HandlerIsTyped ==
    ASSUME NEW op \in Ops, NEW ok \in BOOLEAN, NEW msg \in Nat
    PROVE  /\ Handler(op, ok, msg) \in HandlerType
           /\ Handler(op, ok, msg).op = op
           /\ Handler(op, ok, msg).ok = ok
           /\ Handler(op, ok, msg).msg = msg
BY DEF Handler, HandlerType

LEMMA HandlerFields ==
    \A h \in HandlerType : h.op \in Ops /\ h.ok \in BOOLEAN /\ h.msg \in Nat
BY DEF HandlerType

\* The handler of an operation that fails.
Failure(op) == Handler(op, FALSE, 0)

LEMMA FailureIsTyped ==
    ASSUME NEW op \in Ops
    PROVE  Failure(op) \in HandlerType /\ Failure(op).op = op /\ Failure(op).ok = FALSE
BY DEF Failure, Handler, HandlerType

LEMMA FailedFacts ==
    ASSUME NEW op \in Ops, NEW n \in Nat
    PROVE  /\ Failed(op, n) \in Seq(HandlerType)
           /\ Len(Failed(op, n)) = n
           /\ \A k \in 1 .. n : Failed(op, n)[k] = Failure(op)
<1>1. Failed(op, n) = [k \in 1 .. n |-> Failure(op)]
  BY DEF Failed, Failure
<1>2. Failure(op) \in HandlerType
  BY FailureIsTyped
<1> QED BY <1>1, <1>2

\* Behind a handler that runs, the queue moves up and may grow at its end.
LEMMA QueueMoves ==
    ASSUME NEW s \in Seq(HandlerType), s # <<>>, NEW extra \in Seq(HandlerType),
           NEW t, t = Tail(s) \o extra
    PROVE  /\ t \in Seq(HandlerType)
           /\ Len(t) = Len(s) - 1 + Len(extra)
           /\ \A k \in 1 .. Len(s) - 1 : t[k] = s[k + 1]
           /\ \A k \in 1 .. Len(extra) : t[Len(s) - 1 + k] = extra[k]
           /\ \A k \in 1 .. Len(t) :
                  \/ k \in 1 .. Len(s) - 1 /\ t[k] = s[k + 1]
                  \/ k - (Len(s) - 1) \in 1 .. Len(extra) /\ t[k] = extra[k - (Len(s) - 1)]
OBVIOUS

\* do_close, and a handler after which nothing is started: every outstanding
\* operation ends with a failure.
LEMMA CloseFails ==
    ASSUME TypeOK, ReadInv, WriteInv, NEW rest \in Seq(HandlerType), DoClose(rest)
    PROVE  \E extra \in Seq(HandlerType) :
               /\ handlers' = rest \o extra
               /\ Failures(extra)
               /\ Has(extra, {"handle_write"}) => writes # <<>>
               /\ Has(extra, ReadChain) => connecting \/ reads # <<>>
<1> DEFINE a == Failed("handle_connect", IF connecting THEN 1 ELSE 0)
           b == Failed("handle_write", Len(writes))
           c == [k \in 1 .. Len(reads) |-> Failure(reads[k])]
<1>1. handlers' = rest \o (a \o b \o c)
  BY DEF DoClose, Failure
<1>2. writes \in Seq(Nat) /\ reads \in Seq({"header", "body"}) /\ connecting \in BOOLEAN
  BY DEF TypeOK
<1>3. /\ a \in Seq(HandlerType)
      /\ Len(a) = IF connecting THEN 1 ELSE 0
      /\ \A k \in 1 .. Len(a) : a[k] = Failure("handle_connect")
  BY FailedFacts DEF Ops
<1>4. /\ b \in Seq(HandlerType)
      /\ Len(b) = Len(writes)
      /\ Len(writes) <= 1
      /\ \A k \in 1 .. Len(b) : b[k] = Failure("handle_write")
  BY <1>2, FailedFacts DEF Ops, WriteInv, OneUnderWay
<1>5. /\ c \in Seq(HandlerType)
      /\ Len(c) = Len(reads)
      /\ Len(reads) <= 1
      /\ connecting => Len(reads) = 0
      /\ \A k \in 1 .. Len(c) : c[k] \in {Failure("header"), Failure("body")}
  <2>1. \A k \in 1 .. Len(reads) : Failure(reads[k]) \in HandlerType
    BY <1>2, FailureIsTyped DEF Ops
  <2>2. c \in Seq(HandlerType) /\ Len(c) = Len(reads)
    BY <1>2, <2>1
  <2>3. Len(reads) <= 1 /\ (connecting => Len(reads) = 0)
    BY <1>2 DEF ReadInv, OneUnderWay
  <2>4. \A k \in 1 .. Len(reads) : reads[k] \in {"header", "body"}
    BY <1>2
  <2> QED BY <2>2, <2>3, <2>4
<1> HIDE DEF a, b, c
<1> DEFINE extra == a \o b \o c
<1>6. \A op \in {"handle_connect", "handle_write", "header", "body"} :
          Failure(op).op = op /\ Failure(op).ok = FALSE
  BY FailureIsTyped DEF Ops
<1>7. handlers' = rest \o extra /\ extra \in Seq(HandlerType)
  <2>1. a \in Seq(HandlerType) /\ b \in Seq(HandlerType) /\ c \in Seq(HandlerType)
    BY <1>3, <1>4, <1>5
  <2>2. extra \in Seq(HandlerType)
    BY <2>1
  <2> QED BY <1>1, <2>2
<1>8. \A k \in 1 .. Len(extra) :
          \/ k <= Len(a) /\ extra[k] = Failure("handle_connect")
          \/ k = Len(a) + 1 /\ Len(b) = 1 /\ extra[k] = Failure("handle_write")
          \/ /\ k = Len(a) + Len(b) + 1 /\ Len(c) = 1
             /\ extra[k] \in {Failure("header"), Failure("body")}
  BY <1>3, <1>4, <1>5
<1> HIDE DEF extra
<1>9. Failures(extra)
  <2>1. Len(a) \in {0, 1} /\ Len(b) \in {0, 1} /\ Len(c) \in {0, 1} /\ Len(a) + Len(c) <= 1
    BY <1>2, <1>3, <1>4, <1>5
  <2>2. \A k \in 1 .. Len(extra) :
            extra[k].ok = FALSE /\ extra[k].op \in {"handle_write"} \cup ReadChain
    BY <1>6, <1>8 DEF ReadChain
  <2>3. \A k \in 1 .. Len(extra) : extra[k].op = "handle_write" => k = Len(a) + 1
    BY <1>6, <1>8
  <2>4. \A k \in 1 .. Len(extra) :
            extra[k].op \in ReadChain => k = IF Len(a) = 1 THEN 1 ELSE Len(b) + 1
    BY <1>6, <1>8, <2>1 DEF ReadChain
  <2> QED BY <2>2, <2>3, <2>4 DEF Failures
<1>10. Has(extra, {"handle_write"}) => writes # <<>>
  BY <1>2, <1>3, <1>4, <1>5, <1>6, <1>8 DEF Has
<1>11. Has(extra, ReadChain) => connecting \/ reads # <<>>
  BY <1>2, <1>3, <1>4, <1>5, <1>6, <1>8 DEF Has, ReadChain
<1> QED BY <1>7, <1>9, <1>10, <1>11

-----------------------------------------------------------------------------
(* One operation of a chain at a time.                                     *)

\* OneUnderWay, for any queue of handlers.
Under(started, s, ops) ==
    /\ Len(started) <= 1
    /\ \A j, k \in 1 .. Len(s) : s[j].op \in ops /\ s[k].op \in ops => j = k
    /\ started # <<>> => ~Has(s, ops)

LEMMA UnderWay == \A started, ops : OneUnderWay(started, ops) <=> Under(started, handlers, ops)
BY DEF OneUnderWay, Under, Queued, Has

\* A handler of another chain is queued.
LEMMA UnderOther ==
    ASSUME NEW ops, NEW started, NEW s \in Seq(HandlerType), NEW h \in HandlerType,
           Under(started, s, ops), h.op \notin ops
    PROVE  Under(started, Append(s, h), ops)
BY DEF Under, Has

\* The handler of the operation that was under way is queued.
LEMMA UnderOwn ==
    ASSUME NEW ops, NEW s \in Seq(HandlerType), NEW h \in HandlerType, ~Has(s, ops)
    PROVE  Under(<<>>, Append(s, h), ops)
BY DEF Under, Has

\* The first handler runs: it may start an operation or let one fail, if none
\* is queued behind it.
LEMMA UnderMoves ==
    ASSUME NEW ops, NEW started, NEW next, Len(next) <= 1,
           NEW s \in Seq(HandlerType), s # <<>>, Under(started, s, ops),
           NEW extra \in Seq(HandlerType),
           \A j, k \in 1 .. Len(extra) : extra[j].op \in ops /\ extra[k].op \in ops => j = k,
           Has(extra, ops) \/ next # <<>> => ~Has(Tail(s), ops),
           next # <<>> => ~Has(extra, ops)
    PROVE  Under(next, Tail(s) \o extra, ops)
<1> DEFINE t == Tail(s) \o extra
           n == Len(s) - 1
<1>1. /\ n \in Nat /\ Len(s) = n + 1
      /\ Len(Tail(s)) = n /\ \A k \in 1 .. n : Tail(s)[k] = s[k + 1]
  OBVIOUS
<1>2. \A k \in 1 .. Len(t) :
          /\ k <= n => k \in 1 .. n /\ t[k] = s[k + 1]
          /\ k > n => k - n \in 1 .. Len(extra) /\ t[k] = extra[k - n]
  BY QueueMoves
<1> HIDE DEF t, n
<1>3. \A j, k \in 1 .. Len(t) : t[j].op \in ops /\ t[k].op \in ops => j = k
  <2> SUFFICES ASSUME NEW j \in 1 .. Len(t), NEW k \in 1 .. Len(t),
                      t[j].op \in ops, t[k].op \in ops
               PROVE  j = k
    OBVIOUS
  <2>1. CASE j <= n /\ k <= n
    <3>1. j + 1 \in 1 .. Len(s) /\ k + 1 \in 1 .. Len(s)
      BY <1>1, <1>2, <2>1
    <3>2. j + 1 = k + 1
      BY <1>2, <2>1, <3>1 DEF Under
    <3> QED BY <3>2
  <2>2. CASE (j <= n /\ k > n) \/ (j > n /\ k <= n)
    <3>1. Has(Tail(s), ops)
      BY <1>1, <1>2, <2>2 DEF Has
    <3>2. Has(extra, ops)
      BY <1>1, <1>2, <2>2 DEF Has
    <3> QED BY <3>1, <3>2
  <2>3. CASE j > n /\ k > n
    <3>1. j - n = k - n
      BY <1>2, <2>3
    <3> QED BY <1>1, <3>1
  <2> QED BY <1>1, <2>1, <2>2, <2>3
<1>4. next # <<>> => ~Has(t, ops)
  <2> SUFFICES ASSUME NEW k \in 1 .. Len(t), t[k].op \in ops, next # <<>> PROVE FALSE
    BY DEF Has
  <2>1. CASE k <= n
    BY <1>1, <1>2, <2>1 DEF Has
  <2>2. CASE k > n
    BY <1>2, <2>2 DEF Has
  <2> QED BY <1>1, <2>1, <2>2
<1>5. Under(next, t, ops)
  BY <1>3, <1>4 DEF Under
<1> QED BY <1>5 DEF t

-----------------------------------------------------------------------------
(* The do_writes in the queue, and the handle_write that will pop.         *)

\* The do_writes in a queue carry the messages from n + 1 to p, in order.
InOrder(s, n, p) ==
    /\ \A k \in 1 .. Len(s) : s[k].op = "do_write" => s[k].msg \in n + 1 .. p
    /\ \A m \in n + 1 .. p :
           \E k \in 1 .. Len(s) : s[k].op = "do_write" /\ s[k].msg = m
    /\ \A j, k \in 1 .. Len(s) :
           s[j].op = "do_write" /\ s[k].op = "do_write" /\ j < k => s[j].msg < s[k].msg

Pops(s) == \E k \in 1 .. Len(s) : s[k].op = "handle_write" /\ s[k].ok = TRUE

\* c.write() queues the next message.
LEMMA OrderPosts ==
    ASSUME NEW s \in Seq(HandlerType), NEW h \in HandlerType, NEW n \in Nat, NEW p \in Nat,
           n <= p, InOrder(s, n, p), h.op = "do_write", h.msg = p + 1
    PROVE  InOrder(Append(s, h), n, p + 1)
<1> DEFINE t == Append(s, h)
<1>1. /\ Len(t) = Len(s) + 1 /\ Len(s) \in Nat /\ t[Len(s) + 1] = h
      /\ \A k \in 1 .. Len(s) : t[k] = s[k]
  OBVIOUS
<1> HIDE DEF t
<1>2. \A k \in 1 .. Len(t) : t[k].op = "do_write" => t[k].msg \in n + 1 .. p + 1
  BY <1>1 DEF InOrder
<1>3. \A m \in n + 1 .. p + 1 : \E k \in 1 .. Len(t) : t[k].op = "do_write" /\ t[k].msg = m
  <2> SUFFICES ASSUME NEW m \in n + 1 .. p + 1
               PROVE  \E k \in 1 .. Len(t) : t[k].op = "do_write" /\ t[k].msg = m
    OBVIOUS
  <2>1. CASE m = p + 1
    BY <1>1, <2>1
  <2>2. CASE m \in n + 1 .. p
    <3>1. PICK k \in 1 .. Len(s) : s[k].op = "do_write" /\ s[k].msg = m
      BY <2>2 DEF InOrder
    <3> QED BY <1>1, <3>1
  <2> QED BY <2>1, <2>2
<1>4. \A j, k \in 1 .. Len(t) :
          t[j].op = "do_write" /\ t[k].op = "do_write" /\ j < k => t[j].msg < t[k].msg
  <2> SUFFICES ASSUME NEW j \in 1 .. Len(t), NEW k \in 1 .. Len(t),
                      t[j].op = "do_write", t[k].op = "do_write", j < k
               PROVE  t[j].msg < t[k].msg
    OBVIOUS
  <2>1. j \in 1 .. Len(s) /\ t[j] = s[j] /\ s[j].msg \in n + 1 .. p
    BY <1>1 DEF InOrder
  <2>2. CASE k = Len(s) + 1
    BY <1>1, <2>1, <2>2
  <2>3. CASE k \in 1 .. Len(s)
    BY <1>1, <2>1, <2>3 DEF InOrder
  <2> QED BY <1>1, <2>2, <2>3
<1>5. InOrder(t, n, p + 1)
  BY <1>2, <1>3, <1>4 DEF InOrder
<1> QED BY <1>5 DEF t

\* Any other handler is queued.
LEMMA OrderOther ==
    ASSUME NEW s \in Seq(HandlerType), NEW h \in HandlerType, NEW n \in Int, NEW p \in Nat,
           InOrder(s, n, p), h.op # "do_write"
    PROVE  InOrder(Append(s, h), n, p)
<1> DEFINE t == Append(s, h)
<1>1. /\ Len(t) = Len(s) + 1 /\ Len(s) \in Nat /\ t[Len(s) + 1] = h
      /\ \A k \in 1 .. Len(s) : t[k] = s[k]
  OBVIOUS
<1> HIDE DEF t
<1>2. \A k \in 1 .. Len(t) : t[k].op = "do_write" => k \in 1 .. Len(s) /\ t[k] = s[k]
  BY <1>1
<1>3. \A m \in n + 1 .. p : \E k \in 1 .. Len(t) : t[k].op = "do_write" /\ t[k].msg = m
  <2> SUFFICES ASSUME NEW m \in n + 1 .. p
               PROVE  \E k \in 1 .. Len(t) : t[k].op = "do_write" /\ t[k].msg = m
    OBVIOUS
  <2>1. PICK k \in 1 .. Len(s) : s[k].op = "do_write" /\ s[k].msg = m
    BY DEF InOrder
  <2> QED BY <1>1, <2>1
<1>4. InOrder(t, n, p)
  BY <1>2, <1>3 DEF InOrder
<1> QED BY <1>4 DEF t

\* The do_writes of s are those of t, one place further back.
MovedUp(s, t) ==
    /\ \A k \in 1 .. Len(t) : t[k].op = "do_write" => k + 1 \in 2 .. Len(s) /\ t[k] = s[k + 1]
    /\ \A k \in 2 .. Len(s) : k - 1 \in 1 .. Len(t) /\ t[k - 1] = s[k]

\* The do_writes move up by one, and none is among the failures.
LEMMA DoWritesMove ==
    ASSUME NEW s \in Seq(HandlerType), s # <<>>, NEW extra \in Seq(HandlerType),
           Failures(extra)
    PROVE  MovedUp(s, Tail(s) \o extra)
<1> DEFINE t == Tail(s) \o extra
<1> DEFINE l == Len(s) - 1
<1>1. l \in Nat /\ Len(s) = l + 1
  OBVIOUS
<1>2. /\ \A k \in 1 .. Len(t) : /\ k <= l => k \in 1 .. l /\ t[k] = s[k + 1]
                             /\ k > l => k - l \in 1 .. Len(extra) /\ t[k] = extra[k - l]
      /\ Len(t) \in Nat /\ Len(t) >= l /\ \A k \in 1 .. l : t[k] = s[k + 1]
  BY QueueMoves
<1>3. \A k \in 1 .. Len(extra) : extra[k].op # "do_write"
  BY DEF Failures, ReadChain
<1> HIDE DEF l
<1>4. \A k \in 1 .. Len(t) : t[k].op = "do_write" =>
          k + 1 \in 2 .. Len(s) /\ t[k] = s[k + 1]
  BY <1>1, <1>2, <1>3
<1>5. \A k \in 2 .. Len(s) : k - 1 \in 1 .. Len(t) /\ t[k - 1] = s[k]
  <2> SUFFICES ASSUME NEW k \in 2 .. Len(s)
               PROVE  k - 1 \in 1 .. Len(t) /\ t[k - 1] = s[k]
    OBVIOUS
  <2>1. k - 1 \in 1 .. l /\ (k - 1) + 1 = k
    BY <1>1
  <2> QED BY <1>1, <1>2, <2>1
<1> HIDE DEF t
<1>6. MovedUp(s, t)
  BY <1>4, <1>5 DEF MovedUp
<1> QED BY <1>6 DEF t

\* A handler has come to the front: behind it are the messages from the next
\* one on, if it is a do_write, and otherwise all of them.
LEMMA OrderMoves ==
    ASSUME NEW s \in Seq(HandlerType), s # <<>>, NEW n \in Nat, NEW p \in Nat, n <= p,
           InOrder(s, n, p), NEW extra \in Seq(HandlerType), Failures(extra)
    PROVE  /\ s[1].op = "do_write" =>
                  s[1].msg = n + 1 /\ n < p /\ InOrder(Tail(s) \o extra, n + 1, p)
           /\ s[1].op # "do_write" => InOrder(Tail(s) \o extra, n, p)
<1> DEFINE t == Tail(s) \o extra
<1>0. MovedUp(s, t)
  BY DoWritesMove
<1>1. /\ \A k \in 1 .. Len(t) : t[k].op = "do_write" =>
             k + 1 \in 2 .. Len(s) /\ t[k] = s[k + 1]
      /\ \A k \in 2 .. Len(s) : k - 1 \in 1 .. Len(t) /\ t[k - 1] = s[k]
  <2> HIDE DEF t
  <2> QED BY <1>0 DEF MovedUp
<1>2. Len(s) \in Nat /\ 1 \in 1 .. Len(s)
  OBVIOUS
<1> HIDE DEF t
<1>3. \A j, k \in 1 .. Len(t) :
          t[j].op = "do_write" /\ t[k].op = "do_write" /\ j < k => t[j].msg < t[k].msg
  <2> SUFFICES ASSUME NEW j \in 1 .. Len(t), NEW k \in 1 .. Len(t),
                      t[j].op = "do_write", t[k].op = "do_write", j < k
               PROVE  t[j].msg < t[k].msg
    OBVIOUS
  <2>1. j + 1 \in 1 .. Len(s) /\ k + 1 \in 1 .. Len(s) /\ j + 1 < k + 1
        /\ t[j] = s[j + 1] /\ t[k] = s[k + 1]
    BY <1>1, <1>2, SMTT(30)
  <2> QED BY <2>1 DEF InOrder
<1>4. ASSUME NEW q \in Nat, n <= q, \A k \in 2 .. Len(s) : s[k].op = "do_write" => s[k].msg > q,
             s[1].op = "do_write" => s[1].msg <= q
      PROVE  InOrder(t, q, p)
  <2>1. \A k \in 1 .. Len(t) : t[k].op = "do_write" => t[k].msg \in q + 1 .. p
    <3> SUFFICES ASSUME NEW k \in 1 .. Len(t), t[k].op = "do_write"
                 PROVE  t[k].msg \in q + 1 .. p
      OBVIOUS
    <3>1. k + 1 \in 2 .. Len(s) /\ t[k] = s[k + 1] /\ s[k + 1].op = "do_write"
      BY <1>1
    <3>2. k + 1 \in 1 .. Len(s)
      BY <1>2, <3>1
    <3>3. s[k + 1].msg \in n + 1 .. p /\ s[k + 1].msg > q
      BY <1>4, <3>1, <3>2 DEF InOrder
    <3> QED BY <3>1, <3>3
  <2>2. \A m \in q + 1 .. p : \E k \in 1 .. Len(t) : t[k].op = "do_write" /\ t[k].msg = m
    <3> SUFFICES ASSUME NEW m \in q + 1 .. p
                 PROVE  \E k \in 1 .. Len(t) : t[k].op = "do_write" /\ t[k].msg = m
      OBVIOUS
    <3>1. m \in n + 1 .. p
      BY <1>4
    <3>2. PICK k \in 1 .. Len(s) : s[k].op = "do_write" /\ s[k].msg = m
      BY <3>1 DEF InOrder
    <3>3. k \in 2 .. Len(s)
      BY <1>2, <1>4, <3>2
    <3> QED BY <1>1, <3>2, <3>3
  <2> QED BY <1>3, <2>1, <2>2 DEF InOrder
<1>5. ASSUME s[1].op = "do_write"
      PROVE  s[1].msg = n + 1 /\ n < p /\ InOrder(t, n + 1, p)
  <2>1. s[1].msg \in n + 1 .. p
    BY <1>2, <1>5 DEF InOrder
  <2>2. PICK i \in 1 .. Len(s) : s[i].op = "do_write" /\ s[i].msg = n + 1
    BY <2>1 DEF InOrder
  <2>3. \A k \in 2 .. Len(s) : s[k].op = "do_write" => s[1].msg < s[k].msg
    BY <1>2, <1>5 DEF InOrder
  <2>4. s[1].msg = n + 1
    BY <2>1, <2>2, <2>3
  <2>5. InOrder(t, n + 1, p)
    BY <1>4, <2>3, <2>4
  <2> QED BY <2>1, <2>4, <2>5
<1>6. ASSUME s[1].op # "do_write"
      PROVE  InOrder(t, n, p)
  <2>1. \A k \in 2 .. Len(s) : s[k].op = "do_write" => s[k].msg > n
    BY <1>2 DEF InOrder
  <2> QED BY <1>4, <1>6, <2>1
<1> QED BY <1>5, <1>6 DEF t

\* A handle_write that is queued pops if it reports no error.
LEMMA PopsAppend ==
    ASSUME NEW s \in Seq(HandlerType), NEW h \in HandlerType
    PROVE  Pops(Append(s, h)) <=> Pops(s) \/ (h.op = "handle_write" /\ h.ok = TRUE)
<1> DEFINE t == Append(s, h)
<1>1. /\ Len(t) = Len(s) + 1 /\ Len(s) \in Nat /\ t[Len(s) + 1] = h
      /\ \A k \in 1 .. Len(s) : t[k] = s[k]
  OBVIOUS
<1> HIDE DEF t
<1>2. Pops(t) <=> Pops(s) \/ (h.op = "handle_write" /\ h.ok = TRUE)
  BY <1>1 DEF Pops
<1> QED BY <1>2 DEF t

\* When the only handle_write runs, none is left that pops; any other handler
\* leaves it where it is.
LEMMA PopsMoves ==
    ASSUME NEW s \in Seq(HandlerType), s # <<>>, NEW started,
           Under(started, s, {"handle_write"}),
           NEW extra \in Seq(HandlerType), Failures(extra)
    PROVE  /\ s[1].op = "handle_write" =>
                  ~Pops(Tail(s) \o extra) /\ (Pops(s) <=> s[1].ok = TRUE)
           /\ s[1].op # "handle_write" => (Pops(Tail(s) \o extra) <=> Pops(s))
<1> DEFINE t == Tail(s) \o extra
           l == Len(s) - 1
<1>1. l \in Nat /\ Len(s) = l + 1
  OBVIOUS
<1>2. /\ \A k \in 1 .. Len(t) : /\ k <= l => k \in 1 .. l /\ t[k] = s[k + 1]
                             /\ k > l => k - l \in 1 .. Len(extra) /\ t[k] = extra[k - l]
      /\ Len(t) \in Nat /\ Len(t) >= l /\ \A k \in 1 .. l : t[k] = s[k + 1]
  BY QueueMoves
<1>3. \A k \in 1 .. Len(extra) : extra[k].ok # TRUE
  BY DEF Failures
<1> HIDE DEF t, l
<1>4. Pops(t) => \E k \in 2 .. Len(s) : s[k].op = "handle_write" /\ s[k].ok = TRUE
  <2> SUFFICES ASSUME NEW k \in 1 .. Len(t), t[k].op = "handle_write", t[k].ok = TRUE
               PROVE  \E i \in 2 .. Len(s) : s[i].op = "handle_write" /\ s[i].ok = TRUE
    BY DEF Pops
  <2>1. ~(k > l)
    <3> SUFFICES ASSUME k > l PROVE FALSE
      OBVIOUS
    <3>1. k - l \in 1 .. Len(extra) /\ t[k] = extra[k - l]
      BY <1>2
    <3> QED BY <1>3, <3>1
  <2>2. k + 1 \in 2 .. Len(s) /\ t[k] = s[k + 1]
    BY <1>1, <1>2, <2>1
  <2> QED BY <2>2
<1>5. ASSUME NEW k \in 2 .. Len(s), s[k].op = "handle_write", s[k].ok = TRUE
      PROVE  Pops(t)
  <2>1. k - 1 \in 1 .. l /\ (k - 1) + 1 = k
    BY <1>1
  <2>2. k - 1 \in 1 .. Len(t) /\ t[k - 1] = s[k]
    BY <1>1, <1>2, <2>1
  <2> QED BY <1>5, <2>2 DEF Pops
<1>6. s[1].op = "handle_write" => \A k \in 2 .. Len(s) : s[k].op # "handle_write"
  BY <1>1 DEF Under
<1>7. Pops(s) => (s[1].op = "handle_write" /\ s[1].ok = TRUE)
                     \/ \E k \in 2 .. Len(s) : s[k].op = "handle_write" /\ s[k].ok = TRUE
  BY <1>1 DEF Pops
<1>8. \A k \in 1 .. Len(s) : s[k].op = "handle_write" /\ s[k].ok = TRUE => Pops(s)
  BY DEF Pops
<1>9. 1 \in 1 .. Len(s) /\ 2 .. Len(s) \subseteq 1 .. Len(s)
  BY <1>1
<1>10. s[1].op = "handle_write" => ~Pops(t) /\ (Pops(s) <=> s[1].ok = TRUE)
  BY <1>4, <1>6, <1>7, <1>8, <1>9
<1>11. s[1].op # "handle_write" => (Pops(t) <=> Pops(s))
  BY <1>4, <1>5, <1>7, <1>8, <1>9
<1> QED BY <1>10, <1>11 DEF t

-----------------------------------------------------------------------------
(* The invariant, in these terms.                                          *)

ReadPart ==
    /\ Under(reads, handlers, ReadChain)
    /\ connecting => reads = <<>> /\ ~Has(handlers, ReadChain)
    /\ \A k \in 1 .. Len(handlers) :
           handlers[k].op = "body" /\ handlers[k].ok => shown < MaxShown

WritePart ==
    /\ Under(writes, handlers, {"handle_write"})
    /\ writes # <<>> => write_msgs_ # <<>> /\ writes[1] = write_msgs_[1]
    /\ Has(handlers, {"handle_write"}) => write_msgs_ # <<>>

Start == Len(wire) - (IF Pops(handlers) THEN 1 ELSE 0)

OrderPart ==
    /\ \A k \in 1 .. Len(wire) : wire[k] = k
    /\ \A k \in 1 .. Len(write_msgs_) : write_msgs_[k] = Start + k
    /\ Start + Len(write_msgs_) <= posted
    /\ InOrder(handlers, Start + Len(write_msgs_), posted)

LEMMA Parts ==
    TypeOK => (ReadInv <=> ReadPart) /\ (WriteInv <=> WritePart) /\ (OrderInv <=> OrderPart)
<1> SUFFICES ASSUME TypeOK
             PROVE  (ReadInv <=> ReadPart) /\ (WriteInv <=> WritePart) /\ (OrderInv <=> OrderPart)
  OBVIOUS
<1>1. \A k \in 1 .. Len(handlers) : handlers[k].ok \in BOOLEAN
  BY HandlerFields DEF TypeOK
<1>2. (ReadInv <=> ReadPart)
  BY DEF ReadInv, ReadPart, OneUnderWay, Under, Queued, Has
<1>3. (WriteInv <=> WritePart)
  BY DEF WriteInv, WritePart, OneUnderWay, Under, Queued, Has
<1>4. (Popping <=> Pops(handlers))
  BY <1>1 DEF Popping, Pops, Queued
<1>5. (Base = Start)
  BY <1>4 DEF Base, Start
<1>6. (OrderInv <=> OrderPart)
  BY <1>5 DEF OrderInv, OrderPart, InOrder, Queued
<1> QED BY <1>2, <1>3, <1>6

LEMMA PartsNext ==
    TypeOK' => (ReadInv <=> ReadPart)' /\ (WriteInv <=> WritePart)' /\ (OrderInv <=> OrderPart)'
<1> SUFFICES ASSUME TypeOK'
             PROVE  (ReadInv <=> ReadPart)' /\ (WriteInv <=> WritePart)' /\ (OrderInv <=> OrderPart)'
  OBVIOUS
<1>1. \A k \in 1 .. Len(handlers') : handlers'[k].ok \in BOOLEAN
  BY HandlerFields DEF TypeOK
<1>2. (ReadInv <=> ReadPart)'
  BY DEF ReadInv, ReadPart, OneUnderWay, Under, Queued, Has
<1>3. (WriteInv <=> WritePart)'
  BY DEF WriteInv, WritePart, OneUnderWay, Under, Queued, Has
<1>4. (Popping <=> Pops(handlers))'
  BY <1>1 DEF Popping, Pops, Queued
<1>5. (Base = Start)'
  BY <1>4 DEF Base, Start
<1>6. (OrderInv <=> OrderPart)'
  BY <1>5 DEF OrderInv, OrderPart, InOrder, Queued
<1> QED BY <1>2, <1>3, <1>6

\* While something pops, write_msgs_ has what is to be popped.
LEMMA StartIsNat ==
    ASSUME TypeOK, WritePart
    PROVE  Start \in Int /\ Start + Len(write_msgs_) \in Nat
<1>1. Pops(handlers) => write_msgs_ # <<>>
  BY DEF Pops, WritePart, Has
<1>2. wire \in Seq(Nat) /\ write_msgs_ \in Seq(Nat)
  BY DEF TypeOK
<1> QED BY <1>1, <1>2 DEF Start

-----------------------------------------------------------------------------
(* The main thread.                                                        *)

\* A do_write or do_close is queued: the chains are as they were.
LEMMA PostedParts ==
    ASSUME TypeOK, ReadPart, WritePart, NEW h \in HandlerType,
           h.op \in {"do_write", "do_close"}, handlers' = Append(handlers, h),
           UNCHANGED <<connecting, writes, reads, write_msgs_, wire, shown>>
    PROVE  /\ ReadPart' /\ WritePart' /\ Start' = Start
           /\ handlers' \in Seq(HandlerType)
<1>1. handlers \in Seq(HandlerType) /\ handlers' \in Seq(HandlerType)
  BY DEF TypeOK
<1>2. /\ Len(handlers') = Len(handlers) + 1 /\ Len(handlers) \in Nat
      /\ handlers'[Len(handlers) + 1] = h
      /\ \A k \in 1 .. Len(handlers) : handlers'[k] = handlers[k]
  BY <1>1
<1>3. h.op \notin ReadChain /\ h.op \notin {"handle_write"} /\ h.op # "body"
  BY DEF ReadChain
<1>4. Under(reads, handlers', ReadChain) /\ Under(writes, handlers', {"handle_write"})
  BY <1>1, <1>3, UnderOther DEF ReadPart, WritePart
<1>5. \A ops : h.op \notin ops => (Has(handlers', ops) <=> Has(handlers, ops))
  BY <1>2 DEF Has
<1>6. Pops(handlers') <=> Pops(handlers)
  BY <1>1, <1>3, PopsAppend
<1>7. ReadPart'
  BY <1>2, <1>3, <1>4, <1>5 DEF ReadPart
<1>8. WritePart'
  BY <1>3, <1>4, <1>5 DEF WritePart
<1> QED BY <1>1, <1>6, <1>7, <1>8 DEF Start

LEMMA MainStep == ClientInv /\ Main => ClientInv'
<1> SUFFICES ASSUME ClientInv, Main PROVE ClientInv'
  OBVIOUS
<1> USE MaxLinesAssumption, CopiesAssumption, MaxShownAssumption
<1>1. TypeOK /\ PostInv /\ ReadPart /\ WritePart /\ OrderPart
  BY Parts DEF ClientInv
<1>2. CASE ReadLine
  <2>1. TypeOK'
    BY <1>1, <1>2 DEF Main, ReadLine, ioVars, TypeOK
  <2>2. PostInv'
    <3>1. (lines + 1) * cnt_n = lines * cnt_n + cnt_n
      BY <1>1 DEF TypeOK
    <3> QED BY <1>1, <1>2, <3>1 DEF ReadLine, PostInv, TypeOK
  <2>3. ReadInv' /\ WriteInv' /\ OrderInv'
    BY <1>2 DEF ClientInv, Main, ReadLine, ioVars, ReadInv, WriteInv, OrderInv,
       OneUnderWay,
       Queued, Base, Popping
  <2> QED BY <2>1, <2>2, <2>3 DEF ClientInv
<1>3. CASE Write
  <2> DEFINE h == Handler("do_write", TRUE, posted + 1)
  <2>1. h \in HandlerType /\ h.op = "do_write" /\ h.msg = posted + 1
    BY <1>1 DEF Handler, HandlerType, Ops, TypeOK
  <2>2. handlers' = Append(handlers, h)
    BY <1>3 DEF Write
  <2> HIDE DEF h
  <2>3. ReadPart' /\ WritePart' /\ Start' = Start /\ handlers' \in Seq(HandlerType)
    BY <1>1, <1>3, <2>1, <2>2, PostedParts DEF Main, Write
  <2>4. TypeOK'
    <3>1. /\ left > 0 /\ left' = left - 1 /\ posted' = posted + 1
          /\ UNCHANGED <<mainpc, lines, socket_, connecting, writes, reads, write_msgs_,
                         running, wire, shown>>
      BY <1>3 DEF Main, Write
    <3> QED BY <1>1, <2>3, <3>1 DEF TypeOK
  <2>5. PostInv'
    BY <1>1, <1>3 DEF Main, Write, TypeOK, PostInv
  <2>6. OrderPart'
    <3>1. Start + Len(write_msgs_) \in Nat /\ Start \in Int /\ posted \in Nat
          /\ handlers \in Seq(HandlerType)
      BY <1>1, StartIsNat DEF TypeOK
    <3>2. InOrder(handlers', Start + Len(write_msgs_), posted + 1)
      BY <1>1, <2>1, <2>2, <3>1, OrderPosts DEF OrderPart
    <3>3. Start + Len(write_msgs_) <= posted + 1
      BY <1>1, <3>1 DEF OrderPart
    <3> QED BY <1>1, <1>3, <2>3, <3>2, <3>3 DEF OrderPart, Main, Write
  <2> QED BY <2>3, <2>4, <2>5, <2>6, PartsNext DEF ClientInv
<1>4. CASE Close
  <2> DEFINE h == Handler("do_close", TRUE, 0)
  <2>1. h \in HandlerType /\ h.op = "do_close"
    BY <1>1 DEF Handler, HandlerType, Ops, TypeOK
  <2>2. handlers' = Append(handlers, h)
    BY <1>4 DEF Close
  <2> HIDE DEF h
  <2>3. ReadPart' /\ WritePart' /\ Start' = Start /\ handlers' \in Seq(HandlerType)
    BY <1>1, <1>4, <2>1, <2>2, PostedParts DEF Main, Close
  <2>4. TypeOK'
    BY <1>1, <1>4, <2>3 DEF Main, Close, TypeOK
  <2>5. PostInv'
    BY <1>1, <1>4 DEF Main, Close, TypeOK, PostInv
  <2>6. OrderPart'
    <3>1. Start + Len(write_msgs_) \in Int /\ posted \in Nat /\ handlers \in Seq(HandlerType)
      BY <1>1, StartIsNat DEF TypeOK
    <3>2. InOrder(handlers', Start + Len(write_msgs_), posted)
      BY <1>1, <2>1, <2>2, <3>1, OrderOther DEF OrderPart
    <3> QED BY <1>1, <1>4, <2>3, <3>2 DEF OrderPart, Main, Close
  <2> QED BY <2>3, <2>4, <2>5, <2>6, PartsNext DEF ClientInv
<1>5. CASE Join
  BY <1>5 DEF ClientInv, Main, Join, ioVars, TypeOK, PostInv, ReadInv, WriteInv,
     OrderInv,
     OneUnderWay, Queued, Base, Popping
<1> QED BY <1>2, <1>3, <1>4, <1>5 DEF Main

-----------------------------------------------------------------------------
(* Completion of the operations.                                           *)

\* A handler is queued.
LEMMA QueueGrows ==
    ASSUME NEW s \in Seq(HandlerType), NEW h \in HandlerType
    PROVE  /\ Append(s, h) \in Seq(HandlerType)
           /\ \A k \in 1 .. Len(Append(s, h)) :
                  \/ k \in 1 .. Len(s) /\ Append(s, h)[k] = s[k]
                  \/ Append(s, h)[k] = h
OBVIOUS

LEMMA HasGrows ==
    ASSUME NEW s \in Seq(HandlerType), NEW h \in HandlerType, NEW ops
    PROVE  Has(Append(s, h), ops) <=> Has(s, ops) \/ h.op \in ops
<1> DEFINE t == Append(s, h)
<1>1. /\ Len(t) = Len(s) + 1 /\ Len(s) \in Nat /\ t[Len(s) + 1] = h
      /\ \A k \in 1 .. Len(s) : t[k] = s[k]
  OBVIOUS
<1> HIDE DEF t
<1>2. Has(t, ops) <=> Has(s, ops) \/ h.op \in ops
  BY <1>1 DEF Has
<1> QED BY <1>2 DEF t

LEMMA TailOfOne ==
    ASSUME NEW S, NEW s \in Seq(S), s # <<>>, Len(s) <= 1
    PROVE  Len(s) = 1 /\ Tail(s) = <<>>
<1>1. Len(s) \in Nat \ {0}
  BY EmptySeq
<1>2. Len(s) = 1
  BY <1>1
<1>3. Tail(s) \in Seq(S) /\ Len(Tail(s)) = 0
  BY <1>2
<1> QED BY <1>2, <1>3, EmptySeq

LEMMA ConnectStep ==
    ASSUME ClientInv, NEW ok \in BOOLEAN, ConnectDone(ok)
    PROVE  ClientInv'
<1>1. TypeOK /\ PostInv /\ ReadPart /\ WritePart /\ OrderPart
  BY Parts DEF ClientInv
<1> DEFINE h == Handler("handle_connect", ok, 0)
<1>2. h \in HandlerType /\ h.op = "handle_connect"
  BY HandlerIsTyped DEF Ops
<1>3. /\ handlers' = Append(handlers, h) /\ connecting /\ connecting' = FALSE
      /\ socket_' \in {"connected", "failed"}
      /\ UNCHANGED <<mainVars, running, writes, reads, write_msgs_, wire, shown>>
  BY DEF ConnectDone
<1> HIDE DEF h
<1>4. handlers \in Seq(HandlerType)
  BY <1>1 DEF TypeOK
<1>5. /\ handlers' \in Seq(HandlerType)
      /\ \A ops \in {ReadChain, {"handle_write"}} :
             Has(handlers', ops) <=> Has(handlers, ops) \/ h.op \in ops
      /\ \A k \in 1 .. Len(handlers') :
             (k \in 1 .. Len(handlers) /\ handlers'[k] = handlers[k]) \/ handlers'[k] = h
  BY <1>2, <1>3, <1>4, QueueGrows, HasGrows
<1>6. TypeOK' /\ PostInv'
  BY <1>1, <1>3, <1>5 DEF TypeOK, PostInv, mainVars
<1>7. ReadPart'
  <2>1. reads = <<>> /\ ~Has(handlers, ReadChain)
    BY <1>1, <1>3 DEF ReadPart
  <2>2. Under(reads, handlers', ReadChain)
    BY <1>2, <1>3, <1>4, <2>1, UnderOwn
  <2> QED BY <1>1, <1>2, <1>3, <1>5, <2>2 DEF ReadPart
<1>8. WritePart'
  <2>1. Under(writes, handlers', {"handle_write"})
    BY <1>1, <1>2, <1>3, <1>4, UnderOther DEF WritePart
  <2> QED BY <1>1, <1>2, <1>3, <1>5, <2>1 DEF WritePart
<1>9. OrderPart'
  <2>1. Start' = Start
    BY <1>2, <1>3, <1>4, PopsAppend DEF Start
  <2>2. Start + Len(write_msgs_) \in Int /\ posted \in Nat
    BY <1>1, StartIsNat DEF TypeOK
  <2>3. InOrder(handlers', Start + Len(write_msgs_), posted)
    BY <1>1, <1>2, <1>3, <1>4, <2>2, OrderOther DEF OrderPart
  <2> QED BY <1>1, <1>3, <2>1, <2>3 DEF OrderPart, mainVars
<1> QED BY <1>6, <1>7, <1>8, <1>9, PartsNext DEF ClientInv

LEMMA ReadStep ==
    ASSUME ClientInv, NEW ok \in BOOLEAN, ReadDone(ok)
    PROVE  ClientInv'
<1>1. TypeOK /\ PostInv /\ ReadPart /\ WritePart /\ OrderPart
  BY Parts DEF ClientInv
<1> DEFINE h == Handler(Head(reads), ok, 0)
<1>2. reads # <<>> /\ Len(reads) = 1 /\ reads \in Seq({"header", "body"}) /\ reads' = <<>>
  <2>1. reads # <<>> /\ reads' = Tail(reads)
    BY DEF ReadDone
  <2>2. reads \in Seq({"header", "body"}) /\ Len(reads) <= 1
    BY <1>1 DEF TypeOK, ReadPart, Under
  <2> QED BY <2>1, <2>2, TailOfOne
<1>3. Head(reads) \in {"header", "body"}
  BY <1>2
<1>4. h \in HandlerType /\ h.op \in {"header", "body"} /\ h.ok = ok
  BY <1>3, HandlerIsTyped DEF Ops
<1>5. /\ handlers' = Append(handlers, h) /\ (ok => shown < MaxShown)
      /\ UNCHANGED <<mainVars, running, socket_, connecting, writes, write_msgs_, wire, shown>>
  BY DEF ReadDone
<1> HIDE DEF h
<1>6. handlers \in Seq(HandlerType)
  BY <1>1 DEF TypeOK
<1>7. /\ handlers' \in Seq(HandlerType)
      /\ \A ops \in {ReadChain, {"handle_write"}} :
             Has(handlers', ops) <=> Has(handlers, ops) \/ h.op \in ops
      /\ \A k \in 1 .. Len(handlers') :
             (k \in 1 .. Len(handlers) /\ handlers'[k] = handlers[k]) \/ handlers'[k] = h
  BY <1>4, <1>5, <1>6, QueueGrows, HasGrows
<1>8. TypeOK' /\ PostInv'
  BY <1>1, <1>2, <1>5, <1>7 DEF TypeOK, PostInv, mainVars
<1>9. ReadPart'
  <2>1. ~Has(handlers, ReadChain) /\ ~connecting
    BY <1>1, <1>2 DEF ReadPart, Under
  <2>2. Under(<<>>, handlers', ReadChain)
    BY <1>4, <1>5, <1>6, <2>1, UnderOwn
  <2>3. \A k \in 1 .. Len(handlers') :
            handlers'[k].op = "body" /\ handlers'[k].ok => shown < MaxShown
    BY <1>1, <1>4, <1>5, <1>7 DEF ReadPart
  <2> QED BY <1>2, <1>5, <2>1, <2>2, <2>3 DEF ReadPart
<1>10. WritePart'
  <2>1. Under(writes, handlers', {"handle_write"})
    BY <1>1, <1>4, <1>5, <1>6, UnderOther DEF WritePart
  <2> QED BY <1>1, <1>4, <1>5, <1>7, <2>1 DEF WritePart
<1>11. OrderPart'
  <2>1. Start' = Start
    BY <1>4, <1>5, <1>6, PopsAppend DEF Start
  <2>2. Start + Len(write_msgs_) \in Int /\ posted \in Nat
    BY <1>1, StartIsNat DEF TypeOK
  <2>3. InOrder(handlers', Start + Len(write_msgs_), posted)
    BY <1>1, <1>4, <1>5, <1>6, <2>2, OrderOther DEF OrderPart
  <2> QED BY <1>1, <1>5, <2>1, <2>3 DEF OrderPart, mainVars
<1> QED BY <1>8, <1>9, <1>10, <1>11, PartsNext DEF ClientInv

LEMMA WriteStep ==
    ASSUME ClientInv, NEW ok \in BOOLEAN, WriteDone(ok)
    PROVE  ClientInv'
<1>1. TypeOK /\ PostInv /\ ReadPart /\ WritePart /\ OrderPart
  BY Parts DEF ClientInv
<1> DEFINE h == Handler("handle_write", ok, 0)
<1>2. writes # <<>> /\ Len(writes) = 1 /\ writes \in Seq(Nat) /\ writes' = <<>>
  <2>1. writes # <<>> /\ writes' = Tail(writes)
    BY DEF WriteDone
  <2>2. writes \in Seq(Nat) /\ Len(writes) <= 1
    BY <1>1 DEF TypeOK, WritePart, Under
  <2> QED BY <2>1, <2>2, TailOfOne
<1>3. Head(writes) = write_msgs_[1] /\ Head(writes) \in Nat /\ write_msgs_ # <<>>
      /\ ~Has(handlers, {"handle_write"})
  BY <1>1, <1>2 DEF WritePart, Under
<1>4. h \in HandlerType /\ h.op = "handle_write" /\ h.ok = ok
  BY HandlerIsTyped DEF Ops
<1>5. /\ handlers' = Append(handlers, h)
      /\ wire' = IF ok THEN Append(wire, Head(writes)) ELSE wire
      /\ UNCHANGED <<mainVars, running, socket_, connecting, reads, write_msgs_, shown>>
  BY DEF WriteDone
<1> HIDE DEF h
<1>6. handlers \in Seq(HandlerType) /\ wire \in Seq(Nat) /\ write_msgs_ \in Seq(Nat)
      /\ posted \in Nat
  BY <1>1 DEF TypeOK
<1>7. /\ handlers' \in Seq(HandlerType)
      /\ \A ops \in {ReadChain, {"handle_write"}} :
             Has(handlers', ops) <=> Has(handlers, ops) \/ h.op \in ops
      /\ \A k \in 1 .. Len(handlers') :
             (k \in 1 .. Len(handlers) /\ handlers'[k] = handlers[k]) \/ handlers'[k] = h
  BY <1>4, <1>5, <1>6, QueueGrows, HasGrows
<1>8. TypeOK' /\ PostInv'
  <2>1. wire' \in Seq(Nat)
    BY <1>3, <1>5, <1>6
  <2> QED BY <1>1, <1>2, <1>5, <1>7, <2>1 DEF TypeOK, PostInv, mainVars
<1>9. ReadPart'
  <2>1. Under(reads, handlers', ReadChain)
    BY <1>1, <1>4, <1>5, <1>6, UnderOther DEF ReadPart, ReadChain
  <2>2. h.op \notin ReadChain /\ h.op # "body"
    BY <1>4 DEF ReadChain
  <2> QED BY <1>1, <1>5, <1>7, <2>1, <2>2 DEF ReadPart
<1>10. WritePart'
  <2>1. Under(<<>>, handlers', {"handle_write"})
    BY <1>3, <1>4, <1>5, <1>6, UnderOwn
  <2> QED BY <1>2, <1>3, <1>5, <2>1 DEF WritePart
<1>11. OrderPart'
  <2>1. ~Pops(handlers) /\ Start = Len(wire)
    BY <1>3, <1>6 DEF Pops, Has, Start
  <2>2. Pops(handlers') <=> ok = TRUE
    BY <1>4, <1>5, <1>6, <2>1, PopsAppend
  <2>3. Start' = Start
    BY <1>5, <1>6, <1>3, <2>1, <2>2 DEF Start
  <2>4. Start + Len(write_msgs_) \in Int
    BY <1>6, <2>1
  <2>5. InOrder(handlers', Start + Len(write_msgs_), posted)
    BY <1>1, <1>4, <1>5, <1>6, <2>4, OrderOther DEF OrderPart
  <2>6. \A k \in 1 .. Len(wire') : wire'[k] = k
    <3>1. Head(writes) = Len(wire) + 1
      BY <1>1, <1>3, <1>6, <2>1, SMTT(30) DEF OrderPart
    <3> QED BY <1>1, <1>5, <1>6, <3>1, <1>3 DEF OrderPart
  <2> QED BY <1>1, <1>5, <2>3, <2>5, <2>6 DEF OrderPart, mainVars
<1> QED BY <1>8, <1>9, <1>10, <1>11, PartsNext DEF ClientInv

-----------------------------------------------------------------------------
(* The thread in io_service::run.                                          *)

\* The first handler has run, with these failures queued behind the others.
Moved(extra) ==
    /\ handlers' = Tail(handlers) \o extra
    /\ Failures(extra)
    /\ Under(writes', handlers', {"handle_write"})
    /\ Under(reads', handlers', ReadChain)
    /\ connecting' => reads' = <<>> /\ ~Has(handlers', ReadChain)
    /\ socket_' \in {"connecting", "connected", "failed", "closed"}
    /\ connecting' \in BOOLEAN
    /\ writes' \in Seq(Nat)
    /\ reads' \in Seq({"header", "body"})

LEMMA HasTail ==
    ASSUME NEW s \in Seq(HandlerType), s # <<>>, NEW ops
    PROVE  /\ Has(Tail(s), ops) => Has(s, ops)
           /\ \A started : Under(started, s, ops) /\ s[1].op \in ops
                              => ~Has(Tail(s), ops) /\ started = <<>>
<1>1. /\ Len(s) \in Nat /\ Len(s) >= 1
      /\ Len(Tail(s)) = Len(s) - 1
      /\ \A k \in 1 .. Len(s) - 1 : Tail(s)[k] = s[k + 1]
  OBVIOUS
<1>2. Has(Tail(s), ops) => \E k \in 2 .. Len(s) : s[k].op \in ops
  <2> SUFFICES ASSUME NEW k \in 1 .. Len(Tail(s)), Tail(s)[k].op \in ops
               PROVE  \E i \in 2 .. Len(s) : s[i].op \in ops
    BY DEF Has
  <2>1. k + 1 \in 2 .. Len(s) /\ s[k + 1].op \in ops
    BY <1>1
  <2> QED BY <2>1
<1>3. Has(Tail(s), ops) => Has(s, ops)
  BY <1>1, <1>2 DEF Has
<1>4. ASSUME NEW started, Under(started, s, ops), s[1].op \in ops
      PROVE  ~Has(Tail(s), ops) /\ started = <<>>
  BY <1>1, <1>2, <1>4 DEF Under, Has
<1> QED BY <1>3, <1>4

LEMMA NoExtra ==
    ASSUME NEW s \in Seq(HandlerType), s # <<>>
    PROVE  Tail(s) = Tail(s) \o <<>> /\ <<>> \in Seq(HandlerType) /\ Failures(<<>>)
           /\ \A ops : ~Has(<<>>, ops)
BY DEF Failures, Has

LEMMA OneExtra ==
    ASSUME NEW s \in Seq(HandlerType), s # <<>>,
           NEW op \in {"handle_write", "header", "body"}
    PROVE  /\ Append(Tail(s), Failure(op)) = Tail(s) \o <<Failure(op)>>
           /\ Tail(s) \o Failed(op, 1) = Tail(s) \o <<Failure(op)>>
           /\ <<Failure(op)>> \in Seq(HandlerType)
           /\ Failures(<<Failure(op)>>)
           /\ \A ops : Has(<<Failure(op)>>, ops) <=> op \in ops
<1>1. Failure(op) \in HandlerType /\ Failure(op).op = op /\ Failure(op).ok = FALSE
  BY FailureIsTyped DEF Ops
<1>2. /\ <<Failure(op)>> \in Seq(HandlerType) /\ Len(<<Failure(op)>>) = 1
      /\ <<Failure(op)>>[1] = Failure(op)
  BY <1>1
<1>3. Failed(op, 1) = <<Failure(op)>>
  <2>1. /\ Failed(op, 1) \in Seq(HandlerType) /\ Len(Failed(op, 1)) = 1
        /\ Failed(op, 1)[1] = Failure(op)
    <3>1. op \in Ops
      BY DEF Ops
    <3>2. \A k \in 1 .. 1 : Failed(op, 1)[k] = Failure(op)
      BY <3>1, FailedFacts
    <3>3. Failed(op, 1)[1] = Failure(op)
      BY <3>2
    <3> QED BY <3>1, <3>3, FailedFacts
  <2> QED BY <1>2, <2>1, SeqEqual
<1>4. Tail(s) \in Seq(HandlerType)
  OBVIOUS
<1>5. Append(Tail(s), Failure(op)) = Tail(s) \o <<Failure(op)>>
  BY <1>1, <1>4, AppendIsConcat
<1>6. Failures(<<Failure(op)>>)
  BY <1>1, <1>2 DEF Failures, ReadChain
<1>7. \A ops : Has(<<Failure(op)>>, ops) <=> op \in ops
  BY <1>1, <1>2 DEF Has
<1> QED BY <1>2, <1>3, <1>5, <1>6, <1>7

\* Nothing is written by the handler: what is outstanding stays, or fails.
LEMMA RunOther ==
    ASSUME TypeOK, ReadInv, WriteInv, handlers # <<>>,
           \/ DoClose(Tail(handlers))
           \/ NoFurther(Tail(handlers))
           \/ /\ \E what \in {"header", "body"} : StartRead(Tail(handlers), what)
              /\ handlers[1].op \in ReadChain
    PROVE  \E extra \in Seq(HandlerType) :
               /\ Moved(extra)
               /\ Has(extra, {"handle_write"}) => writes # <<>>
               /\ writes' \in {writes, <<>>}
<1> DEFINE rest == Tail(handlers)
           W == {"handle_write"}
<1>1. /\ handlers \in Seq(HandlerType) /\ rest \in Seq(HandlerType)
      /\ writes \in Seq(Nat) /\ reads \in Seq({"header", "body"})
      /\ connecting \in BOOLEAN
      /\ socket_ \in {"connecting", "connected", "failed", "closed"}
  BY DEF TypeOK
<1>2. ReadPart /\ WritePart
  BY Parts
<1>3. /\ Has(rest, W) => Has(handlers, W)
      /\ Has(rest, ReadChain) => Has(handlers, ReadChain)
  BY <1>1, HasTail
<1>4. /\ Under(writes, handlers, W) /\ (writes # <<>> => ~Has(handlers, W))
      /\ Under(reads, handlers, ReadChain) /\ (reads # <<>> => ~Has(handlers, ReadChain))
      /\ connecting => reads = <<>> /\ ~Has(handlers, ReadChain)
      /\ Len(writes) <= 1 /\ Len(reads) <= 1
  BY <1>2 DEF ReadPart, WritePart, Under
<1>5. \A extra : Failures(extra) =>
          /\ \A j, k \in 1 .. Len(extra) : extra[j].op \in W /\ extra[k].op \in W => j = k
          /\ \A j, k \in 1 .. Len(extra) :
                 extra[j].op \in ReadChain /\ extra[k].op \in ReadChain => j = k
  BY DEF Failures
<1> HIDE DEF rest, W
<1>6. ASSUME NEW extra \in Seq(HandlerType), Failures(extra),
             NEW next, Len(next) <= 1, NEW next2, Len(next2) <= 1,
             Has(extra, W) \/ next # <<>> => ~Has(rest, W),
             next # <<>> => ~Has(extra, W),
             Has(extra, ReadChain) \/ next2 # <<>> => ~Has(rest, ReadChain),
             next2 # <<>> => ~Has(extra, ReadChain)
      PROVE  Under(next, rest \o extra, W) /\ Under(next2, rest \o extra, ReadChain)
  <2>1. Under(next, rest \o extra, W)
    BY <1>1, <1>4, <1>5, <1>6, UnderMoves DEF rest
  <2>2. Under(next2, rest \o extra, ReadChain)
    BY <1>1, <1>4, <1>5, <1>6, UnderMoves DEF rest
  <2> QED BY <2>1, <2>2
<1>7. CASE DoClose(rest)
  <2>1. PICK extra \in Seq(HandlerType) :
            /\ handlers' = rest \o extra
            /\ Failures(extra)
            /\ Has(extra, W) => writes # <<>>
            /\ Has(extra, ReadChain) => connecting \/ reads # <<>>
    BY <1>1, <1>7, CloseFails DEF W
  <2>2. socket_' = "closed" /\ connecting' = FALSE /\ writes' = <<>> /\ reads' = <<>>
    BY <1>7 DEF DoClose
  <2>3. Under(<<>>, handlers', W) /\ Under(<<>>, handlers', ReadChain)
    <3>1. Len(<<>>) <= 1
      OBVIOUS
    <3> QED BY <1>3, <1>4, <1>6, <2>1, <3>1
  <2>4. <<>> \in Seq(Nat) /\ <<>> \in Seq({"header", "body"})
    OBVIOUS
  <2>5. Moved(extra)
    BY <2>1, <2>2, <2>3, <2>4 DEF Moved, rest, W
  <2> QED BY <2>1, <2>2, <2>5 DEF W
<1>8. CASE NoFurther(rest)
  <2>1. handlers' = rest \o <<>> /\ <<>> \in Seq(HandlerType) /\ Failures(<<>>)
        /\ \A ops : ~Has(<<>>, ops)
    BY <1>1, <1>8, NoExtra DEF NoFurther, rest
  <2>2. UNCHANGED <<socket_, connecting, writes, reads>>
    BY <1>8 DEF NoFurther
  <2>3. Under(writes, handlers', W) /\ Under(reads, handlers', ReadChain)
    BY <1>3, <1>4, <1>6, <2>1
  <2>4. connecting => ~Has(handlers', ReadChain)
    BY <1>3, <1>4, <1>8 DEF NoFurther
  <2>5. Moved(<<>>)
    BY <1>1, <1>4, <2>1, <2>2, <2>3, <2>4 DEF Moved, rest, W
  <2> QED BY <2>1, <2>2, <2>5
<1>9. ASSUME NEW what \in {"header", "body"}, StartRead(rest, what),
             handlers[1].op \in ReadChain
      PROVE  \E extra \in Seq(HandlerType) :
                 Moved(extra) /\ (Has(extra, W) => writes # <<>>) /\ writes' \in {writes, <<>>}
  <2>1. ~Has(rest, ReadChain) /\ reads = <<>>
    BY <1>1, <1>4, <1>9, HasTail DEF rest
  <2>2. ~connecting
    <3>1. Has(handlers, ReadChain)
      BY <1>1, <1>9 DEF Has
    <3> QED BY <1>4, <3>1
  <2>3. UNCHANGED <<socket_, connecting, writes>>
    BY <1>9 DEF StartRead
  <2>4. CASE socket_ = "closed"
    <3>1. handlers' = Append(rest, Failure(what)) /\ reads' = reads
      BY <1>9, <2>4 DEF StartRead, Failure
    <3> DEFINE extra == <<Failure(what)>>
    <3>2. handlers' = rest \o extra /\ extra \in Seq(HandlerType) /\ Failures(extra)
          /\ ~Has(extra, W)
      BY <1>1, <3>1, OneExtra DEF rest, W
    <3> HIDE DEF extra
    <3>3. Under(writes, handlers', W) /\ Under(reads, handlers', ReadChain)
      BY <1>3, <1>4, <1>6, <2>1, <3>2
    <3>4. Moved(extra)
      BY <1>1, <2>1, <2>2, <2>3, <3>1, <3>2, <3>3 DEF Moved, rest, W
    <3> QED BY <2>3, <3>2, <3>4
  <2>5. CASE socket_ # "closed"
    <3>1. handlers' = rest /\ reads' = Append(reads, what)
      BY <1>9, <2>5 DEF StartRead
    <3>2. reads' \in Seq({"header", "body"}) /\ Len(reads') <= 1
      BY <1>1, <2>1, <3>1
    <3>3. handlers' = rest \o <<>> /\ <<>> \in Seq(HandlerType) /\ Failures(<<>>)
          /\ \A ops : ~Has(<<>>, ops)
      BY <1>1, <3>1, NoExtra DEF rest
    <3>4. Under(writes, handlers', W) /\ Under(reads', handlers', ReadChain)
      BY <1>3, <1>4, <1>6, <2>1, <3>2, <3>3
    <3>5. Moved(<<>>)
      BY <1>1, <2>2, <2>3, <3>2, <3>3, <3>4 DEF Moved, rest, W
    <3> QED BY <2>3, <3>3, <3>5
  <2> QED BY <2>4, <2>5
<1> QED BY <1>7, <1>8, <1>9 DEF rest, W

\* The handler starts a write, there being none.
LEMMA RunWrite ==
    ASSUME TypeOK, ReadInv, WriteInv, handlers # <<>>, writes = <<>>,
           ~Has(Tail(handlers), {"handle_write"}),
           NEW msg \in Nat, StartWrite(Tail(handlers), msg)
    PROVE  \E extra \in Seq(HandlerType) :
               Moved(extra) /\ (writes' # <<>> => writes'[1] = msg)
<1> DEFINE rest == Tail(handlers)
           W == {"handle_write"}
<1>1. /\ handlers \in Seq(HandlerType) /\ rest \in Seq(HandlerType)
      /\ writes \in Seq(Nat) /\ reads \in Seq({"header", "body"})
      /\ connecting \in BOOLEAN
      /\ socket_ \in {"connecting", "connected", "failed", "closed"}
  BY DEF TypeOK
<1>2. ReadPart /\ WritePart
  BY Parts
<1>3. Has(rest, ReadChain) => Has(handlers, ReadChain)
  BY <1>1, HasTail
<1>4. /\ Under(writes, handlers, W)
      /\ Under(reads, handlers, ReadChain) /\ (reads # <<>> => ~Has(handlers, ReadChain))
      /\ connecting => reads = <<>> /\ ~Has(handlers, ReadChain)
      /\ Len(reads) <= 1
  BY <1>2 DEF ReadPart, WritePart, Under
<1>5. \A extra : Failures(extra) =>
          /\ \A j, k \in 1 .. Len(extra) : extra[j].op \in W /\ extra[k].op \in W => j = k
          /\ \A j, k \in 1 .. Len(extra) :
                 extra[j].op \in ReadChain /\ extra[k].op \in ReadChain => j = k
  BY DEF Failures
<1> HIDE DEF rest, W
<1>6. UNCHANGED <<socket_, connecting, reads>>
  BY DEF StartWrite
<1>7. ASSUME NEW extra \in Seq(HandlerType), Failures(extra), ~Has(extra, ReadChain),
             handlers' = rest \o extra, writes' \in Seq(Nat), Len(writes') <= 1,
             writes' # <<>> => ~Has(extra, W)
      PROVE  Moved(extra)
  <2>1. Under(writes', handlers', W)
    BY <1>1, <1>4, <1>5, <1>7, UnderMoves DEF rest, W
  <2>2. Under(reads, handlers', ReadChain)
    BY <1>1, <1>3, <1>4, <1>5, <1>7, UnderMoves DEF rest
  <2>3. connecting => ~Has(handlers', ReadChain)
    <3>1. connecting => Under(<<Failure("body")>>, handlers', ReadChain)
      <4>1. Len(<<Failure("body")>>) <= 1 /\ <<Failure("body")>> # <<>>
        OBVIOUS
      <4> QED BY <1>1, <1>3, <1>4, <1>5, <1>7, <4>1, UnderMoves DEF rest
    <3> QED BY <3>1 DEF Under
  <2> QED BY <1>1, <1>4, <1>6, <1>7, <2>1, <2>2, <2>3 DEF Moved, rest, W
<1>8. CASE socket_ = "closed"
  <2> DEFINE extra == <<Failure("handle_write")>>
  <2>1. handlers' = rest \o Failed("handle_write", 1) /\ writes' = writes
    BY <1>8 DEF StartWrite, rest
  <2>2. handlers' = rest \o extra /\ extra \in Seq(HandlerType) /\ Failures(extra)
        /\ ~Has(extra, ReadChain)
    BY <1>1, <2>1, OneExtra DEF rest, ReadChain
  <2> HIDE DEF extra
  <2>3. writes' \in Seq(Nat) /\ Len(writes') <= 1 /\ writes' = <<>>
    BY <1>1, <2>1
  <2>4. Moved(extra)
    BY <1>7, <2>2, <2>3
  <2> QED BY <2>2, <2>3, <2>4
<1>9. CASE socket_ # "closed"
  <2>1. handlers' = rest /\ writes' = Append(writes, msg)
    BY <1>9 DEF StartWrite, rest
  <2>2. writes' \in Seq(Nat) /\ Len(writes') <= 1 /\ writes'[1] = msg
    BY <1>1, <2>1
  <2>3. handlers' = rest \o <<>> /\ <<>> \in Seq(HandlerType) /\ Failures(<<>>)
        /\ \A ops : ~Has(<<>>, ops)
    BY <1>1, <2>1, NoExtra DEF rest
  <2>4. Moved(<<>>)
    BY <1>7, <2>2, <2>3
  <2> QED BY <2>2, <2>3, <2>4
<1> QED BY <1>8, <1>9

\* What any handler leaves of the invariant, apart from write_msgs_ and shown.
LEMMA RunKeeps ==
    ASSUME ClientInv, handlers # <<>>, NEW extra \in Seq(HandlerType), Moved(extra),
           UNCHANGED <<mainVars, running, wire>>,
           write_msgs_' \in Seq(Nat),
           shown' \in 0 .. MaxShown,
           shown' = shown \/ handlers[1].op = "body"
    PROVE  /\ TypeOK' /\ PostInv' /\ ReadPart'
           /\ Under(writes', handlers', {"handle_write"})
<1>1. TypeOK /\ PostInv /\ ReadPart
  BY Parts DEF ClientInv
<1>2. handlers \in Seq(HandlerType)
  BY <1>1 DEF TypeOK
<1>3. handlers' = Tail(handlers) \o extra /\ Failures(extra)
  BY DEF Moved
<1>4. handlers' \in Seq(HandlerType)
  BY <1>2, <1>3, QueueMoves
<1>5. TypeOK' /\ PostInv'
  BY <1>1, <1>4 DEF TypeOK, PostInv, Moved, mainVars
<1>6. ASSUME NEW k \in 1 .. Len(handlers'), handlers'[k].op = "body", handlers'[k].ok
      PROVE  shown' < MaxShown
  <2> DEFINE l == Len(handlers) - 1
  <2>1. l \in Nat /\ Len(handlers) = l + 1
    BY <1>2
  <2>2. /\ k <= l => k \in 1 .. l /\ handlers'[k] = handlers[k + 1]
        /\ k > l => k - l \in 1 .. Len(extra) /\ handlers'[k] = extra[k - l]
    BY <1>2, <1>3, QueueMoves
  <2> HIDE DEF l
  <2>3. ~(k > l)
    BY <1>3, <1>6, <2>2 DEF Failures
  <2>4. /\ k \in 1 .. l /\ k + 1 \in 1 .. Len(handlers)
        /\ handlers[k + 1].op = "body" /\ handlers[k + 1].ok
    BY <1>6, <2>1, <2>2, <2>3
  <2>5. shown < MaxShown
    BY <1>1, <2>4 DEF ReadPart
  <2>6. handlers[1].op # "body"
    <3> SUFFICES ASSUME handlers[1].op = "body" PROVE FALSE
      OBVIOUS
    <3>1. 1 = k + 1
      BY <1>1, <2>1, <2>4 DEF ReadPart, Under, ReadChain
    <3> QED BY <2>4, <3>1
  <2> QED BY <2>5, <2>6
<1>7. ReadPart'
  BY <1>6 DEF ReadPart, Moved
<1> QED BY <1>5, <1>7 DEF Moved

\* A handler that leaves write_msgs_ alone.
LEMMA RunOtherKeeps ==
    ASSUME ClientInv, handlers # <<>>, NEW extra \in Seq(HandlerType), Moved(extra),
           UNCHANGED <<mainVars, running, wire, write_msgs_>>,
           shown' \in 0 .. MaxShown, shown' = shown \/ handlers[1].op = "body",
           Has(extra, {"handle_write"}) => writes # <<>>, writes' \in {writes, <<>>},
           handlers[1].op # "do_write",
           handlers[1].op = "handle_write" => handlers[1].ok = FALSE
    PROVE  ClientInv'
<1>1. TypeOK /\ PostInv /\ ReadPart /\ WritePart /\ OrderPart
  BY Parts DEF ClientInv
<1>2. /\ handlers \in Seq(HandlerType) /\ wire \in Seq(Nat) /\ write_msgs_ \in Seq(Nat)
      /\ posted \in Nat
  BY <1>1 DEF TypeOK
<1>3. handlers' = Tail(handlers) \o extra /\ Failures(extra)
  BY DEF Moved
<1>4. TypeOK' /\ PostInv' /\ ReadPart' /\ Under(writes', handlers', {"handle_write"})
  BY <1>2, RunKeeps
<1>5. WritePart'
  <2>1. Has(handlers', {"handle_write"}) => Has(handlers, {"handle_write"}) \/ writes # <<>>
    <3> SUFFICES ASSUME NEW k \in 1 .. Len(handlers'), handlers'[k].op = "handle_write"
                 PROVE  Has(handlers, {"handle_write"}) \/ writes # <<>>
      BY DEF Has
    <3> DEFINE l == Len(handlers) - 1
    <3>1. l \in Nat /\ Len(handlers) = l + 1
      BY <1>2
    <3>2. /\ k <= l => k \in 1 .. l /\ handlers'[k] = handlers[k + 1]
          /\ k > l => k - l \in 1 .. Len(extra) /\ handlers'[k] = extra[k - l]
      BY <1>2, <1>3, QueueMoves
    <3> HIDE DEF l
    <3>3. CASE k <= l
      <4>1. k + 1 \in 1 .. Len(handlers) /\ handlers[k + 1].op = "handle_write"
        BY <3>1, <3>2, <3>3
      <4> QED BY <4>1 DEF Has
    <3>4. CASE k > l
      BY <3>2, <3>4 DEF Has
    <3> QED BY <3>1, <3>3, <3>4
  <2> QED BY <1>1, <1>4, <2>1 DEF WritePart
<1>6. OrderPart'
  <2>1. Pops(handlers') <=> Pops(handlers)
    <3>1. Under(writes, handlers, {"handle_write"})
      BY <1>1 DEF WritePart
    <3>2. /\ handlers[1].op = "handle_write" =>
                 ~Pops(handlers') /\ (Pops(handlers) <=> handlers[1].ok = TRUE)
          /\ handlers[1].op # "handle_write" => (Pops(handlers') <=> Pops(handlers))
      BY <1>2, <1>3, <3>1, PopsMoves
    <3> QED BY <3>2
  <2>2. Start' = Start
    BY <2>1 DEF Start
  <2>3. Start + Len(write_msgs_) \in Nat
    BY <1>1, StartIsNat
  <2>4. InOrder(handlers', Start + Len(write_msgs_), posted)
    BY <1>1, <1>2, <1>3, <2>3, OrderMoves DEF OrderPart
  <2> QED BY <1>1, <2>2, <2>4 DEF OrderPart, mainVars
<1> QED BY <1>4, <1>5, <1>6, PartsNext DEF ClientInv

\* do_write: the message joins write_msgs_ behind the others.
LEMMA DoWriteKeeps ==
    ASSUME ClientInv, handlers # <<>>, handlers[1].op = "do_write",
           DoWrite(Tail(handlers), handlers[1].msg),
           UNCHANGED <<mainVars, running, wire>>
    PROVE  ClientInv'
<1>1. TypeOK /\ PostInv /\ ReadPart /\ WritePart /\ OrderPart
  BY Parts DEF ClientInv
<1>2. /\ handlers \in Seq(HandlerType) /\ wire \in Seq(Nat) /\ write_msgs_ \in Seq(Nat)
      /\ posted \in Nat /\ shown \in 0 .. MaxShown /\ handlers[1] \in HandlerType
  BY <1>1 DEF TypeOK
<1> DEFINE msg == handlers[1].msg
<1>3. msg \in Nat
  BY <1>2, HandlerFields
<1>4. write_msgs_' = Append(write_msgs_, msg) /\ shown' = shown
  BY DEF DoWrite
<1> HIDE DEF msg
<1>5. write_msgs_' \in Seq(Nat) /\ Len(write_msgs_') = Len(write_msgs_) + 1
      /\ write_msgs_'[Len(write_msgs_) + 1] = msg
      /\ \A k \in 1 .. Len(write_msgs_) : write_msgs_'[k] = write_msgs_[k]
  BY <1>2, <1>3, <1>4
<1>6. \E extra \in Seq(HandlerType) :
          Moved(extra) /\ (writes' # <<>> => writes'[1] = write_msgs_'[1])
  <2>1. CASE write_msgs_ = <<>>
    <3>1. writes = <<>> /\ ~Has(handlers, {"handle_write"})
      BY <1>1, <2>1 DEF WritePart
    <3>2. ~Has(Tail(handlers), {"handle_write"})
      BY <1>2, <3>1, HasTail
    <3>3. StartWrite(Tail(handlers), msg)
      BY <2>1 DEF DoWrite, msg
    <3>4. write_msgs_'[1] = msg
      BY <1>5, <2>1
    <3> QED BY <1>3, <3>1, <3>2, <3>3, <3>4, RunWrite DEF ClientInv
  <2>2. CASE write_msgs_ # <<>>
    <3>1. NoFurther(Tail(handlers)) /\ writes' = writes
      BY <2>2 DEF DoWrite, NoFurther
    <3>2. write_msgs_'[1] = write_msgs_[1]
      BY <1>2, <1>5, <2>2
    <3>3. \E extra \in Seq(HandlerType) : Moved(extra)
      BY <3>1, RunOther DEF ClientInv
    <3> QED BY <1>1, <3>1, <3>2, <3>3 DEF WritePart
  <2> QED BY <2>1, <2>2
<1>7. PICK extra \in Seq(HandlerType) :
          Moved(extra) /\ (writes' # <<>> => writes'[1] = write_msgs_'[1])
  BY <1>6
<1>8. handlers' = Tail(handlers) \o extra /\ Failures(extra)
  BY <1>7 DEF Moved
<1>9. TypeOK' /\ PostInv' /\ ReadPart' /\ Under(writes', handlers', {"handle_write"})
  BY <1>2, <1>4, <1>5, <1>7, RunKeeps
<1>10. WritePart'
  <2>1. write_msgs_' # <<>>
    BY <1>2, <1>5
  <2> QED BY <1>7, <1>9, <2>1 DEF WritePart
<1>11. OrderPart'
  <2>1. Start' = Start
    <3>1. Under(writes, handlers, {"handle_write"})
      BY <1>1 DEF WritePart
    <3>2. Pops(handlers') <=> Pops(handlers)
      BY <1>2, <1>8, <3>1, PopsMoves
    <3> QED BY <3>2 DEF Start
  <2>2. Start \in Int /\ Start + Len(write_msgs_) \in Nat /\ Len(write_msgs_) \in Nat
    BY <1>1, <1>2, StartIsNat
  <2> DEFINE n == Start + Len(write_msgs_)
  <2>3. n \in Nat /\ n <= posted /\ InOrder(handlers, n, posted)
    BY <1>1, <2>2 DEF OrderPart
  <2> HIDE DEF n
  <2>4. msg = n + 1 /\ n < posted /\ InOrder(handlers', n + 1, posted)
    BY <1>2, <1>8, <2>3, OrderMoves DEF msg
  <2>5. Start + Len(write_msgs_') = n + 1
    BY <1>5, <2>2 DEF n
  <2>6. \A k \in 1 .. Len(write_msgs_') : write_msgs_'[k] = Start + k
    <3> SUFFICES ASSUME NEW k \in 1 .. Len(write_msgs_')
                 PROVE  write_msgs_'[k] = Start + k
      OBVIOUS
    <3>1. CASE k = Len(write_msgs_) + 1
      BY <1>5, <2>2, <2>4, <3>1 DEF n
    <3>2. CASE k \in 1 .. Len(write_msgs_)
      BY <1>1, <1>5, <3>2 DEF OrderPart
    <3> QED BY <1>5, <2>2, <3>1, <3>2
  <2>7. wire' = wire /\ posted' = posted /\ \A k \in 1 .. Len(wire) : wire[k] = k
    BY <1>1 DEF OrderPart, mainVars
  <2>8. n + 1 <= posted
    BY <1>2, <2>3, <2>4
  <2> QED BY <2>1, <2>4, <2>5, <2>6, <2>7, <2>8 DEF OrderPart
<1> QED BY <1>9, <1>10, <1>11, PartsNext DEF ClientInv

\* handle_write after a write that succeeded: the front is popped, and the next
\* message is written, if there is one.
LEMMA WrittenKeeps ==
    ASSUME ClientInv, handlers # <<>>, handlers[1].op = "handle_write", handlers[1].ok = TRUE,
           write_msgs_' = Tail(write_msgs_),
           IF Len(write_msgs_) > 1 THEN StartWrite(Tail(handlers), write_msgs_[2])
                                   ELSE NoFurther(Tail(handlers)),
           UNCHANGED <<mainVars, running, wire, shown>>
    PROVE  ClientInv'
<1>1. TypeOK /\ PostInv /\ ReadPart /\ WritePart /\ OrderPart
  BY Parts DEF ClientInv
<1>2. /\ handlers \in Seq(HandlerType) /\ wire \in Seq(Nat) /\ write_msgs_ \in Seq(Nat)
      /\ posted \in Nat /\ shown \in 0 .. MaxShown
  BY <1>1 DEF TypeOK
<1>3. /\ Under(writes, handlers, {"handle_write"})
      /\ ~Has(Tail(handlers), {"handle_write"}) /\ writes = <<>>
  BY <1>1, <1>2, HasTail DEF WritePart
<1>4. write_msgs_ # <<>>
  BY <1>1, <1>2 DEF WritePart, Has
<1>5. /\ write_msgs_' \in Seq(Nat) /\ Len(write_msgs_') = Len(write_msgs_) - 1
      /\ Len(write_msgs_) \in Nat /\ Len(write_msgs_) >= 1
      /\ \A k \in 1 .. Len(write_msgs_) - 1 : write_msgs_'[k] = write_msgs_[k + 1]
  BY <1>2, <1>4
<1>6. PICK extra \in Seq(HandlerType) :
          /\ Moved(extra)
          /\ writes' # <<>> \/ Has(handlers', {"handle_write"}) => write_msgs_' # <<>>
          /\ writes' # <<>> => writes'[1] = write_msgs_'[1]
  <2>1. CASE Len(write_msgs_) > 1
    <3>1. write_msgs_[2] \in Nat /\ write_msgs_'[1] = write_msgs_[2] /\ write_msgs_' # <<>>
      <4>1. 2 \in 1 .. Len(write_msgs_) /\ 1 \in 1 .. Len(write_msgs_) - 1 /\ 1 + 1 = 2
        BY <1>5, <2>1
      <4>2. write_msgs_[2] \in Nat
        BY <1>2, <4>1, SMTT(30)
      <4>3. write_msgs_'[1] = write_msgs_[2]
        BY <1>5, <4>1
      <4>4. Len(write_msgs_') # 0 /\ Len(<<>>) = 0
        BY <1>5, <2>1
      <4> QED BY <4>2, <4>3, <4>4
    <3>2. StartWrite(Tail(handlers), write_msgs_[2])
      BY <2>1
    <3> QED BY <1>3, <3>1, <3>2, RunWrite DEF ClientInv
  <2>2. CASE ~(Len(write_msgs_) > 1)
    <3>1. NoFurther(Tail(handlers)) /\ writes' = writes /\ handlers' = Tail(handlers)
      BY <2>2 DEF NoFurther
    <3>2. \E extra \in Seq(HandlerType) : Moved(extra)
      BY <3>1, RunOther DEF ClientInv
    <3> QED BY <1>3, <3>1, <3>2
  <2> QED BY <2>1, <2>2
<1>7. handlers' = Tail(handlers) \o extra /\ Failures(extra)
  BY <1>6 DEF Moved
<1>8. TypeOK' /\ PostInv' /\ ReadPart' /\ Under(writes', handlers', {"handle_write"})
  BY <1>2, <1>5, <1>6, RunKeeps
<1>9. WritePart'
  BY <1>6, <1>8 DEF WritePart
<1>10. OrderPart'
  <2>1. Pops(handlers) /\ ~Pops(handlers')
    BY <1>2, <1>3, <1>7, PopsMoves
  <2>2. Start = Len(wire) - 1 /\ Start' = Len(wire) /\ Len(wire) \in Nat
    BY <1>2, <2>1 DEF Start
  <2> DEFINE n == Start + Len(write_msgs_)
  <2>3. n \in Nat /\ n <= posted /\ InOrder(handlers, n, posted)
    BY <1>1, <1>5, <2>2 DEF OrderPart
  <2>4. Start' + Len(write_msgs_') = n
    BY <1>5, <2>2
  <2> HIDE DEF n
  <2>5. InOrder(handlers', n, posted)
    BY <1>2, <1>7, <2>3, OrderMoves
  <2>6. \A k \in 1 .. Len(write_msgs_') : write_msgs_'[k] = Start' + k
    <3> SUFFICES ASSUME NEW k \in 1 .. Len(write_msgs_')
                 PROVE  write_msgs_'[k] = Start' + k
      OBVIOUS
    <3>1. write_msgs_'[k] = write_msgs_[k + 1] /\ k + 1 \in 1 .. Len(write_msgs_)
      BY <1>5
    <3>2. write_msgs_[k + 1] = Start + (k + 1)
      BY <1>1, <3>1 DEF OrderPart
    <3> QED BY <1>5, <2>2, <3>1, <3>2
  <2>7. wire' = wire /\ posted' = posted /\ \A k \in 1 .. Len(wire) : wire[k] = k
    BY <1>1 DEF OrderPart, mainVars
  <2> QED BY <2>3, <2>4, <2>5, <2>6, <2>7 DEF OrderPart
<1> QED BY <1>8, <1>9, <1>10, PartsNext DEF ClientInv

\* Every handler that io_service::run calls keeps the invariant.
LEMMA RunStep == ClientInv /\ RunHandler => ClientInv'
<1> SUFFICES ASSUME ClientInv, RunHandler PROVE ClientInv'
  OBVIOUS
<1> DEFINE rest == Tail(handlers)
           h == handlers[1]
<1>1. /\ TypeOK /\ ReadInv /\ WriteInv /\ ReadPart /\ handlers \in Seq(HandlerType)
      /\ handlers # <<>> /\ Head(handlers) = h /\ h \in HandlerType
      /\ shown \in 0 .. MaxShown
      /\ UNCHANGED <<mainVars, running, wire>>
  BY Parts DEF ClientInv, TypeOK, RunHandler
<1>2. h.ok \in BOOLEAN
  BY <1>1, HandlerFields
<1>3. CASE h.op = "do_write" /\ DoWrite(rest, h.msg)
  BY <1>1, <1>3, DoWriteKeeps
<1>4. ASSUME h.op \in {"do_close"} \cup ReadChain \/ (h.op = "handle_write" /\ ~h.ok),
             \/ DoClose(rest) \/ NoFurther(rest)
             \/ h.op \in ReadChain /\ \E what \in {"header", "body"} : StartRead(rest, what),
             write_msgs_' = write_msgs_, shown' \in 0 .. MaxShown,
             shown' = shown \/ h.op = "body"
      PROVE  ClientInv'
  <2>1. PICK extra \in Seq(HandlerType) :
            /\ Moved(extra)
            /\ Has(extra, {"handle_write"}) => writes # <<>>
            /\ writes' \in {writes, <<>>}
    BY <1>1, <1>4, RunOther
  <2>2. h.op # "do_write" /\ (h.op = "handle_write" => h.ok = FALSE)
    BY <1>2, <1>4 DEF ReadChain
  <2> QED BY <1>1, <1>4, <2>1, <2>2, RunOtherKeeps
<1>5. CASE h.op = "do_close" /\ DoClose(rest) /\ UNCHANGED <<write_msgs_, shown>>
  BY <1>1, <1>4, <1>5
<1>6. CASE h.op = "handle_connect" /\ HandleConnect(rest, h.ok)
  <2>1. /\ NoFurther(rest) \/ \E what \in {"header", "body"} : StartRead(rest, what)
        /\ UNCHANGED <<write_msgs_, shown>>
    BY <1>6 DEF HandleConnect
  <2> QED BY <1>1, <1>4, <1>6, <2>1 DEF ReadChain
<1>7. CASE h.op = "handle_write" /\ HandleWrite(rest, h.ok)
  <2>1. CASE h.ok
    <3>1. /\ write_msgs_' = Tail(write_msgs_)
          /\ IF Len(write_msgs_) > 1 THEN StartWrite(rest, write_msgs_[2])
                                     ELSE NoFurther(rest)
          /\ shown' = shown
      BY <1>7, <2>1 DEF HandleWrite
    <3> QED BY <1>1, <1>2, <1>7, <2>1, <3>1, WrittenKeeps
  <2>2. CASE ~h.ok
    <3>1. DoClose(rest) /\ UNCHANGED <<write_msgs_, shown>>
      BY <1>7, <2>2 DEF HandleWrite
    <3> QED BY <1>1, <1>4, <1>7, <2>2, <3>1
  <2> QED BY <2>1, <2>2
<1>8. CASE h.op = "header" /\ HandleReadHeader(rest, h.ok)
  <2>1. /\ DoClose(rest) \/ \E what \in {"header", "body"} : StartRead(rest, what)
        /\ UNCHANGED <<write_msgs_, shown>>
    BY <1>8 DEF HandleReadHeader
  <2> QED BY <1>1, <1>4, <1>8, <2>1 DEF ReadChain
<1>9. CASE h.op = "body" /\ HandleReadBody(rest, h.ok)
  <2>1. /\ DoClose(rest) \/ \E what \in {"header", "body"} : StartRead(rest, what)
        /\ write_msgs_' = write_msgs_
        /\ shown' = shown \/ (h.ok /\ shown' = shown + 1)
    BY <1>9 DEF HandleReadBody
  <2>2. h.ok => shown < MaxShown
    BY <1>1, <1>9 DEF ReadPart
  <2>3. shown' \in 0 .. MaxShown
    BY <1>1, <2>1, <2>2, MaxShownAssumption
  <2> QED BY <1>1, <1>4, <1>9, <2>1, <2>3 DEF ReadChain
<1> QED
  BY <1>1, <1>3, <1>5, <1>6, <1>7, <1>8, <1>9 DEF RunHandler

-----------------------------------------------------------------------------
LEMMA ClientInvInit == Init => ClientInv
<1> SUFFICES ASSUME Init PROVE ClientInv
  OBVIOUS
<1>1. /\ <<>> \in Seq(HandlerType) /\ <<>> \in Seq(Nat) /\ <<>> \in Seq({"header", "body"})
      /\ Len(<<>>) = 0
  OBVIOUS
<1>2. TypeOK
  BY <1>1, MaxLinesAssumption, CopiesAssumption, MaxShownAssumption DEF Init, TypeOK
<1>3. PostInv
  BY CopiesAssumption DEF Init, PostInv
<1>4. ReadInv /\ WriteInv
  BY <1>1 DEF Init, ReadInv, WriteInv, OneUnderWay, Queued
<1>5. OrderInv
  BY <1>1 DEF Init, OrderInv, Base, Popping, Queued
<1> QED BY <1>2, <1>3, <1>4, <1>5 DEF ClientInv

LEMMA ClientInvStep == ClientInv /\ [Next]_vars => ClientInv'
<1> SUFFICES ASSUME ClientInv, [Next]_vars PROVE ClientInv'
  OBVIOUS
<1>1. CASE RunReturns
  <2>1. running' = FALSE /\ UNCHANGED <<mainpc, lines, left, posted, handlers, socket_,
            connecting, writes, reads, write_msgs_, wire, shown>>
    BY <1>1 DEF RunReturns, mainVars, ioVars
  <2>2. TypeOK'
    BY <2>1 DEF ClientInv, TypeOK
  <2>3. PostInv' /\ ReadInv' /\ WriteInv'
    BY <2>1 DEF ClientInv, PostInv, ReadInv, WriteInv, OneUnderWay, Queued
  <2>4. OrderInv'
    BY <2>1 DEF ClientInv, OrderInv, Queued, Base, Popping
  <2> QED BY <2>2, <2>3, <2>4 DEF ClientInv
<1>2. CASE UNCHANGED vars
  <2>1. UNCHANGED <<mainpc, lines, left, posted, handlers, socket_, running,
            connecting, writes, reads, write_msgs_, wire, shown>>
    BY <1>2 DEF vars, mainVars, ioVars
  <2>2. TypeOK'
    BY <2>1 DEF ClientInv, TypeOK
  <2>3. PostInv' /\ ReadInv' /\ WriteInv'
    BY <2>1 DEF ClientInv, PostInv, ReadInv, WriteInv, OneUnderWay, Queued
  <2>4. OrderInv'
    BY <2>1 DEF ClientInv, OrderInv, Queued, Base, Popping
  <2> QED BY <2>2, <2>3, <2>4 DEF ClientInv
<1> QED
  BY <1>1, <1>2, MainStep, RunStep, ConnectStep, WriteStep, ReadStep DEF Next, IoThread

\* For any input: the chain of writes and the chain of reads stay single, what
\* is being written is in front of write_msgs_, and messages keep their places
\* in the order of typing.
THEOREM ClientInvariant == Spec => []ClientInv
BY ClientInvInit, ClientInvStep, PTL DEF Spec

\* Never are two writes under way on the socket of the client, nor two reads.
THEOREM OneOfEachHolds == Spec => []OneOfEach
<1>1. ClientInv => OneOfEach
  <2> SUFFICES ASSUME ClientInv PROVE OneOfEach
    OBVIOUS
  <2>1. OneUnderWay(reads, {"header", "body"})
    BY DEF ClientInv, ReadInv, OneUnderWay, Queued, ReadChain
  <2>2. writes # <<>> => Head(write_msgs_) = Head(writes)
    BY DEF ClientInv, TypeOK, WriteInv
  <2> QED BY <2>1, <2>2 DEF ClientInv, WriteInv, OneOfEach
<1> QED BY <1>1, ClientInvariant, PTL

\* Two sequences that are numbered on from each other make one.
LEMMA NumberedOn ==
    ASSUME NEW s \in Seq(Nat), NEW t \in Seq(Nat),
           \A k \in 1 .. Len(s) : s[k] = k,
           \A k \in 1 .. Len(t) : t[k] = Len(s) + k
    PROVE  /\ Len(s \o t) = Len(s) + Len(t)
           /\ \A k \in 1 .. Len(s \o t) : (s \o t)[k] = k
<1>1. Len(s \o t) = Len(s) + Len(t) /\ Len(s) \in Nat /\ Len(t) \in Nat
  OBVIOUS
<1>2. ASSUME NEW k \in 1 .. Len(s \o t) PROVE (s \o t)[k] = k
  <2>1. CASE k <= Len(s)
    BY <1>1, <2>1
  <2>2. CASE ~(k <= Len(s))
    <3>1. k - Len(s) \in 1 .. Len(t) /\ Len(s) + (k - Len(s)) = k
      BY <1>1, <2>2
    <3>2. (s \o t)[k] = t[k - Len(s)]
      BY <1>1, <2>2
    <3>3. t[k - Len(s)] = Len(s) + (k - Len(s))
      BY <3>1
    <3> QED BY <3>1, <3>2, <3>3
  <2> QED BY <2>1, <2>2
<1> QED BY <1>1, <1>2

\* Nothing that was typed is lost, repeated or overtaken before it is on the
\* wire, whatever fails and whenever the client is closed.
THEOREM TypedIsConserved == Spec => []Conservation
<1>1. ClientInv => Conservation
  <2> SUFFICES ASSUME ClientInv PROVE Conservation
    OBVIOUS
  <2> DEFINE begun == wire \o Unsent
             waiting == Queued({"do_write"})
  <2>1. wire \in Seq(Nat) /\ write_msgs_ \in Seq(Nat) /\ posted \in Nat
    BY DEF ClientInv, TypeOK
  <2>2. Popping => write_msgs_ # <<>>
    BY DEF ClientInv, WriteInv, Popping
  <2>3. /\ Len(begun) = Base + Len(write_msgs_)
        /\ \A k \in 1 .. Len(begun) : begun[k] = k
    <3>1. CASE Popping
      <4>1. Unsent = Tail(write_msgs_) /\ Base = Len(wire) - 1
        BY <3>1 DEF Unsent, Base
      <4>2. \A k \in 1 .. Len(write_msgs_) : write_msgs_[k] = Len(wire) - 1 + k
        BY <4>1 DEF ClientInv, OrderInv
      <4>3. /\ Unsent \in Seq(Nat) /\ Len(Unsent) = Len(write_msgs_) - 1
            /\ Len(wire) \in Nat /\ Len(write_msgs_) \in Nat
            /\ \A k \in 1 .. Len(write_msgs_) - 1 : Unsent[k] = write_msgs_[k + 1]
        BY <2>1, <2>2, <3>1, <4>1
      <4>4. ASSUME NEW k \in 1 .. Len(Unsent) PROVE Unsent[k] = Len(wire) + k
        <5>1. k + 1 \in 1 .. Len(write_msgs_) /\ k \in 1 .. Len(write_msgs_) - 1
          BY <4>3
        <5>2. Unsent[k] = write_msgs_[k + 1]
          BY <4>3, <5>1
        <5>3. write_msgs_[k + 1] = Len(wire) - 1 + (k + 1)
          BY <4>2, <5>1
        <5> QED BY <4>3, <5>2, <5>3
      <4>5. \A k \in 1 .. Len(wire) : wire[k] = k
        BY DEF ClientInv, OrderInv
      <4>6. /\ Len(begun) = Len(wire) + Len(Unsent)
            /\ \A k \in 1 .. Len(begun) : begun[k] = k
        BY <2>1, <4>3, <4>4, <4>5, NumberedOn
      <4>7. Len(wire) + (Len(write_msgs_) - 1) = Len(wire) - 1 + Len(write_msgs_)
        BY <4>3
      <4> HIDE DEF begun
      <4> QED BY <4>1, <4>3, <4>6, <4>7
    <3>2. CASE ~Popping
      <4>1. Unsent = write_msgs_ /\ Base = Len(wire)
        BY <2>1, <3>2 DEF Unsent, Base
      <4>2. /\ \A k \in 1 .. Len(write_msgs_) : write_msgs_[k] = Len(wire) + k
            /\ \A k \in 1 .. Len(wire) : wire[k] = k
        BY <4>1 DEF ClientInv, OrderInv
      <4>3. /\ Len(begun) = Len(wire) + Len(write_msgs_)
            /\ \A k \in 1 .. Len(begun) : begun[k] = k
        BY <2>1, <4>1, <4>2, NumberedOn
      <4> HIDE DEF begun
      <4> QED BY <4>1, <4>3
    <3> QED BY <3>1, <3>2
  <2> HIDE DEF begun
  <2>4. Len(begun) <= posted
    BY <2>3 DEF ClientInv, OrderInv
  <2>5. {handlers[k].msg : k \in waiting} = Len(begun) + 1 .. posted
    BY <2>3 DEF ClientInv, OrderInv
  <2>6. \A j, k \in waiting : j < k => handlers[j].msg < handlers[k].msg
    BY DEF ClientInv, OrderInv
  <2> QED BY <2>3, <2>4, <2>5, <2>6 DEF Conservation, begun
<1> QED BY <1>1, ClientInvariant, PTL
=============================================================================
