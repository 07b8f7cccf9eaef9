----------------------- MODULE IPCMessageQueueProofs -----------------------
(***************************************************************************)
(* Theorems about IPCMessageQueue, for queues of any size and any number   *)
(* of messages, sender threads and heartbeats, with processes that may     *)
(* die: the types, what is in transit, and the channel it implements.      *)
(***************************************************************************)
EXTENDS IPCMessageQueue, SequenceTheorems, WellFoundedInduction, TLAPS

\* A set of natural numbers has a least one: a statement about all numbers is
\* proved by looking at the first for which it fails.
Less == {pair \in Nat \X Nat : pair[1] < pair[2]}

LEMMA LeastNumber ==
  ASSUME NEW T, T \subseteq Nat, T # {}
  PROVE  \E n \in T : \A m \in T : n <= m
<1>1. OpToRel(<, Nat) = Less
  BY Zenon DEF OpToRel, Less
<1>2. \E n \in T : \A m \in T : ~ (<<m, n>> \in Less)
  BY <1>1, WFMin, NatLessThanWellFounded, Zenon
<1>3. \A m, n \in Nat : m < n => <<m, n>> \in Less
  BY DEF Less
<1>4. \A m, n \in Nat : ~ (m < n) => n <= m
  OBVIOUS
<1> QED
  BY <1>2, <1>3, <1>4

-----------------------------------------------------------------------------
\* The recursion of Users.
IsUser(m) == m.type = "USER_PAYLOAD"

Filters(f, s, n) ==
  f = [k \in 0 .. n |-> IF k = 0 THEN <<>>
                        ELSE IF IsUser(s[k]) THEN Append(f[k - 1], s[k])
                        ELSE f[k - 1]]

LEMMA FilterValue ==
  ASSUME NEW f, NEW s, NEW n, Filters(f, s, n), NEW k \in 0 .. n
  PROVE  f[k] = IF k = 0 THEN <<>>
                ELSE IF IsUser(s[k]) THEN Append(f[k - 1], s[k])
                ELSE f[k - 1]
  BY DEF Filters

\* There is a function that satisfies it.
LEMMA FilterExists ==
  ASSUME NEW s, NEW n \in Nat
  PROVE  \E f : Filters(f, s, n)
<1> DEFINE T == {m \in Nat : ~ \E f : Filters(f, s, m)}
<1>1. SUFFICES ASSUME T # {} PROVE FALSE
  OBVIOUS
<1>2. PICK m \in T : \A k \in T : m <= k
  BY <1>1, LeastNumber
<1>3. CASE m = 0
  <2>1. Filters([k \in 0 .. 0 |-> <<>>], s, 0)
    BY DEF Filters
  <2> QED
    BY <1>2, <1>3, <2>1
<1>4. CASE m # 0
  <2>1. m - 1 \in Nat /\ m - 1 \notin T
    BY <1>2, <1>4
  <2>2. PICK f : Filters(f, s, m - 1)
    BY <2>1
  <2> DEFINE g == [k \in 0 .. m |-> IF k < m THEN f[k]
                                    ELSE IF IsUser(s[m]) THEN Append(f[m - 1], s[m]) ELSE f[m - 1]]
  <2>3. \A k \in 0 .. m - 1 : f[k] = IF k = 0 THEN <<>>
                                     ELSE IF IsUser(s[k]) THEN Append(f[k - 1], s[k])
                                     ELSE f[k - 1]
    BY <2>2, FilterValue
  <2>4. \A k \in 0 .. m : g[k] = IF k = 0 THEN <<>>
                                 ELSE IF IsUser(s[k]) THEN Append(g[k - 1], s[k])
                                 ELSE g[k - 1]
    BY <2>1, <2>3, <1>4
  <2> HIDE DEF g
  <2>5. DOMAIN g = 0 .. m /\ g = [k \in 0 .. m |-> g[k]]
    BY DEF g
  <2>6. Filters(g, s, m)
    BY <2>4, <2>5 DEF Filters
  <2> QED
    BY <1>2, <2>6
<1> QED
  BY <1>3, <1>4

\* There is one, and it only looks at the first elements.
Agree(s, t, n) == \A k \in 1 .. n : s[k] = t[k]

LEMMA FilterUnique ==
  ASSUME NEW s, NEW t, NEW n \in Nat, NEW m \in Nat, n <= m, NEW f, NEW g,
         Filters(f, s, n), Filters(g, t, m), Agree(s, t, n)
  PROVE  \A k \in 0 .. n : f[k] = g[k]
<1> DEFINE T == {k \in 0 .. n : f[k] # g[k]}
<1>1. SUFFICES ASSUME T # {} PROVE FALSE
  OBVIOUS
<1>2. PICK k \in T : \A j \in T : k <= j
  <2>1. T \subseteq Nat
    OBVIOUS
  <2> QED
    BY <1>1, <2>1, LeastNumber
<1>3. /\ f[k] = IF k = 0 THEN <<>> ELSE IF IsUser(s[k]) THEN Append(f[k - 1], s[k]) ELSE f[k - 1]
      /\ g[k] = IF k = 0 THEN <<>> ELSE IF IsUser(t[k]) THEN Append(g[k - 1], t[k]) ELSE g[k - 1]
  BY <1>2, FilterValue
<1>4. CASE k = 0
  BY <1>2, <1>3, <1>4
<1>5. CASE k # 0
  <2>1. k \in 1 .. n /\ k - 1 \in 0 .. n /\ ~ (k <= k - 1)
    BY <1>2, <1>5
  <2>2. f[k - 1] = g[k - 1] /\ s[k] = t[k]
    BY <1>2, <2>1 DEF Agree
  <2> QED
    BY <1>2, <1>3, <1>5, <2>2
<1> QED
  BY <1>4, <1>5

\* Users, without its recursion.
LEMMA UsersIsFilter ==
  ASSUME NEW s, Len(s) \in Nat
  PROVE  \E f : Filters(f, s, Len(s)) /\ Users(s) = f[Len(s)]
<1> DEFINE F == CHOOSE f : Filters(f, s, Len(s))
<1>1. Filters(F, s, Len(s))
  BY FilterExists
<1>2. Users(s) = F[Len(s)]
  BY Zenon DEF Users, Filters, IsUser
<1> QED
  BY <1>1, <1>2

LEMMA UsersOfEmpty == Users(<<>>) = <<>>
<1>1. Len(<<>>) = 0
  OBVIOUS
<1>2. PICK f : Filters(f, <<>>, 0) /\ Users(<<>>) = f[0]
  BY <1>1, UsersIsFilter
<1> QED
  BY <1>2, FilterValue

\* What a further message adds.
Kept(m) == IF IsUser(m) THEN <<m>> ELSE <<>>

LEMMA UsersOfAppend ==
  ASSUME NEW S, NEW s \in Seq(S), NEW m \in S
  PROVE  Users(Append(s, m)) = IF IsUser(m) THEN Append(Users(s), m) ELSE Users(s)
<1> DEFINE t == Append(s, m)
<1>1. /\ Len(s) \in Nat /\ Len(t) = Len(s) + 1
      /\ \A k \in 1 .. Len(s) : s[k] = t[k]
      /\ t[Len(s) + 1] = m
  OBVIOUS
<1> HIDE DEF t
<1>2. PICK f : Filters(f, s, Len(s)) /\ Users(s) = f[Len(s)]
  BY <1>1, UsersIsFilter
<1>3. PICK g : Filters(g, t, Len(s) + 1) /\ Users(t) = g[Len(s) + 1]
  BY <1>1, UsersIsFilter
<1>4. f[Len(s)] = g[Len(s)]
  <2>1. PICK n \in Nat, l \in Nat : n = Len(s) /\ l = Len(s) + 1 /\ n <= l /\ n \in 0 .. n
    BY <1>1
  <2>2. Filters(f, s, n) /\ Filters(g, t, l) /\ Agree(s, t, n)
    BY <1>1, <1>2, <1>3, <2>1 DEF Agree
  <2>3. \A k \in 0 .. n : f[k] = g[k]
    BY <2>1, <2>2, FilterUnique
  <2> QED
    BY <2>1, <2>3
<1>5. g[Len(s) + 1] = IF IsUser(m) THEN Append(g[Len(s)], m) ELSE g[Len(s)]
  BY <1>1, <1>3, FilterValue
<1> QED
  BY <1>2, <1>3, <1>4, <1>5 DEF t

\* Induction over the prefixes of a sequence.
LEMMA PrefixGrows ==
  ASSUME NEW S, NEW s \in Seq(S), NEW n \in 1 .. Len(s)
  PROVE  /\ SubSeq(s, 1, n - 1) \in Seq(S) /\ SubSeq(s, 1, n) \in Seq(S) /\ s[n] \in S
         /\ SubSeq(s, 1, n) = Append(SubSeq(s, 1, n - 1), s[n])
  OBVIOUS

LEMMA UsersIsSeq ==
  ASSUME NEW S, NEW U, \A m \in S : IsUser(m) => m \in U, NEW s \in Seq(S)
  PROVE  Users(s) \in Seq(U)
<1> DEFINE P(n) == SubSeq(s, 1, n)
           T == {n \in 0 .. Len(s) : Users(P(n)) \notin Seq(U)}
<1>1. P(0) = <<>> /\ P(Len(s)) = s /\ Len(s) \in Nat
  OBVIOUS
<1>2. \A n \in 1 .. Len(s) : P(n - 1) \in Seq(S) /\ s[n] \in S /\ P(n) = Append(P(n - 1), s[n])
  BY PrefixGrows
<1> HIDE DEF P
<1>3. ASSUME T # {} PROVE FALSE
  <2>1. PICK n \in T : \A k \in T : n <= k
    <3>1. T \subseteq Nat
      OBVIOUS
    <3> QED
      BY <1>3, <3>1, LeastNumber
  <2>2. Users(P(0)) \in Seq(U)
    <3>1. Users(P(0)) = <<>>
      BY <1>1, UsersOfEmpty, Zenon
    <3> QED
      BY <3>1, EmptySeq
  <2>3. n \in 1 .. Len(s) /\ n - 1 \in 0 .. Len(s) /\ ~ (n <= n - 1)
    BY <2>1, <2>2
  <2>4. Users(P(n - 1)) \in Seq(U)
    BY <2>1, <2>3
  <2>5. Users(P(n)) \in Seq(U)
    <3>1. P(n - 1) \in Seq(S) /\ s[n] \in S /\ P(n) = Append(P(n - 1), s[n])
      BY <1>2, <2>3
    <3>2. Users(Append(P(n - 1), s[n]))
            = IF IsUser(s[n]) THEN Append(Users(P(n - 1)), s[n]) ELSE Users(P(n - 1))
      BY <3>1, UsersOfAppend
    <3>3. IsUser(s[n]) => Append(Users(P(n - 1)), s[n]) \in Seq(U)
      BY <2>4, <3>1, AppendProperties
    <3> QED
      BY <2>4, <3>1, <3>2, <3>3, Zenon
  <2> QED
    BY <2>1, <2>5
<1>4. Len(s) \notin T /\ Len(s) \in 0 .. Len(s)
  BY <1>1, <1>3
<1> QED
  BY <1>1, <1>4

\* Users, message by message.
LEMMA UsersOfConcat ==
  ASSUME NEW S, NEW s \in Seq(S), NEW t \in Seq(S)
  PROVE  Users(s \o t) = Users(s) \o Users(t)
<1> DEFINE P(n) == SubSeq(t, 1, n)
           T == {n \in 0 .. Len(t) : Users(s \o P(n)) # Users(s) \o Users(P(n))}
<1>1. P(0) = <<>> /\ P(Len(t)) = t /\ Len(t) \in Nat
  OBVIOUS
<1>2. \A n \in 1 .. Len(t) : P(n - 1) \in Seq(S) /\ t[n] \in S /\ P(n) = Append(P(n - 1), t[n])
  BY PrefixGrows
<1> HIDE DEF P
<1>3. Users(s) \in Seq(S) /\ \A r \in Seq(S) : Users(r) \in Seq(S)
  <2>1. \A m \in S : IsUser(m) => m \in S
    OBVIOUS
  <2> QED
    BY <2>1, UsersIsSeq
<1>4. \A r \in Seq(S), q \in Seq(S), m \in S : r \o Append(q, m) = Append(r \o q, m)
  OBVIOUS
<1>5. ASSUME T # {} PROVE FALSE
  <2>1. PICK n \in T : \A k \in T : n <= k
    <3>1. T \subseteq Nat
      OBVIOUS
    <3> QED
      BY <1>5, <3>1, LeastNumber
  <2>2. Users(s \o P(0)) = Users(s) \o Users(P(0))
    <3>1. s \o <<>> = s /\ Users(s) \o <<>> = Users(s)
      BY <1>3
    <3> QED
      BY <1>1, <3>1, UsersOfEmpty, Zenon
  <2>3. n \in 1 .. Len(t) /\ n - 1 \in 0 .. Len(t) /\ ~ (n <= n - 1)
    BY <2>1, <2>2
  <2>4. Users(s \o P(n - 1)) = Users(s) \o Users(P(n - 1))
    BY <2>1, <2>3
  <2>5. P(n - 1) \in Seq(S) /\ t[n] \in S /\ P(n) = Append(P(n - 1), t[n])
    BY <1>2, <2>3
  <2>6. s \o P(n) = Append(s \o P(n - 1), t[n]) /\ s \o P(n - 1) \in Seq(S)
    <3>1. s \o Append(P(n - 1), t[n]) = Append(s \o P(n - 1), t[n])
      BY <1>4, <2>5
    <3> QED
      BY <2>5, <3>1, ConcatProperties
  <2>7. Users(Append(P(n - 1), t[n]))
          = IF IsUser(t[n]) THEN Append(Users(P(n - 1)), t[n]) ELSE Users(P(n - 1))
    BY <2>5, UsersOfAppend
  <2>8. Users(Append(s \o P(n - 1), t[n]))
          = IF IsUser(t[n]) THEN Append(Users(s \o P(n - 1)), t[n]) ELSE Users(s \o P(n - 1))
    BY <2>5, <2>6, UsersOfAppend
  <2>9. Users(s) \o Append(Users(P(n - 1)), t[n]) = Append(Users(s) \o Users(P(n - 1)), t[n])
    BY <1>3, <1>4, <2>5
  <2>10. Users(s \o P(n)) = Users(s) \o Users(P(n))
    BY <2>4, <2>5, <2>6, <2>7, <2>8, <2>9, Zenon
  <2> QED
    BY <2>1, <2>10
<1>6. Len(t) \notin T /\ Len(t) \in 0 .. Len(t)
  BY <1>1, <1>5
<1> QED
  BY <1>1, <1>6

LEMMA UsersOfTail ==
  ASSUME NEW S, NEW s \in Seq(S), s # <<>>
  PROVE  Users(s) = Kept(Head(s)) \o Users(Tail(s))
<1>1. Head(s) \in S /\ Tail(s) \in Seq(S) /\ s = <<Head(s)>> \o Tail(s) /\ <<Head(s)>> \in Seq(S)
  OBVIOUS
<1>2. <<Head(s)>> = Append(<<>>, Head(s)) /\ <<>> \in Seq(S)
  OBVIOUS
<1>3. Users(<<Head(s)>>) = IF IsUser(Head(s)) THEN Append(<<>>, Head(s)) ELSE <<>>
  BY <1>1, <1>2, UsersOfAppend, UsersOfEmpty
<1>4. Users(<<Head(s)>>) = Kept(Head(s))
  BY <1>2, <1>3 DEF Kept
<1> QED
  BY <1>1, <1>4, UsersOfConcat

-----------------------------------------------------------------------------
\* What is in a sequence, and whether it is there once.
Has(s, m)  == \E k \in DOMAIN s : s[k] = m
Once(s, m) == \A j, k \in DOMAIN s : s[j] = m /\ s[k] = m => j = k

LEMMA HasAppend ==
  ASSUME NEW S, NEW s \in Seq(S), NEW e \in S, NEW m
  PROVE  /\ Has(Append(s, e), m) <=> Has(s, m) \/ m = e
         /\ Once(s, m) /\ ~ (m = e /\ Has(s, m)) => Once(Append(s, e), m)
<1> DEFINE t == Append(s, e)
<1>1. /\ Len(s) \in Nat /\ DOMAIN s = 1 .. Len(s) /\ DOMAIN t = 1 .. (Len(s) + 1)
      /\ t[Len(s) + 1] = e /\ \A k \in 1 .. Len(s) : t[k] = s[k]
  OBVIOUS
<1> HIDE DEF t
<1>2. \A k : k \in DOMAIN t <=> k \in DOMAIN s \/ k = Len(s) + 1
  BY <1>1
<1>3. Has(t, m) <=> Has(s, m) \/ m = e
  BY <1>1, <1>2 DEF Has
<1>4. Once(s, m) /\ ~ (m = e /\ Has(s, m)) => Once(t, m)
  BY <1>1, <1>2 DEF Has, Once
<1> QED
  BY <1>3, <1>4 DEF t

LEMMA HasTail ==
  ASSUME NEW S, NEW s \in Seq(S), s # <<>>, NEW m
  PROVE  /\ Has(s, Head(s))
         /\ Has(Tail(s), m) => Has(s, m)
         /\ m # Head(s) => (Has(Tail(s), m) <=> Has(s, m))
         /\ Once(s, m) => Once(Tail(s), m)
         /\ Once(s, Head(s)) => ~ Has(Tail(s), Head(s))
<1> DEFINE t == Tail(s)
<1>1. /\ Len(s) \in Nat \ {0} /\ DOMAIN s = 1 .. Len(s) /\ DOMAIN t = 1 .. (Len(s) - 1)
      /\ s[1] = Head(s) /\ \A k \in 1 .. (Len(s) - 1) : t[k] = s[k + 1]
  OBVIOUS
<1> HIDE DEF t
<1>2. \A k \in DOMAIN s : k # 1 => k - 1 \in DOMAIN t /\ t[k - 1] = s[k]
  BY <1>1
<1>3. \A k \in DOMAIN t : k + 1 \in DOMAIN s /\ t[k] = s[k + 1] /\ k + 1 # 1
  BY <1>1
<1>4. 1 \in DOMAIN s /\ s[1] = Head(s)
  BY <1>1
<1>5. \A j, k \in DOMAIN t : j + 1 = k + 1 => j = k
  BY <1>1
<1> QED
  BY <1>2, <1>3, <1>4, <1>5 DEF Has, Once, t

LEMMA HasSuffix ==
  ASSUME NEW S, NEW s \in Seq(S), NEW t \in Seq(S), NEW m
  PROVE  /\ Has(t, m) => Has(s \o t, m)
         /\ Once(s \o t, m) => Once(t, m)
<1> DEFINE c == s \o t
<1>1. /\ Len(s) \in Nat /\ Len(t) \in Nat /\ DOMAIN t = 1 .. Len(t)
      /\ DOMAIN c = 1 .. (Len(s) + Len(t))
      /\ \A k \in 1 .. Len(t) : c[k + Len(s)] = t[k]
  OBVIOUS
<1> HIDE DEF c
<1>2. \A k \in DOMAIN t : k + Len(s) \in DOMAIN c /\ c[k + Len(s)] = t[k]
  BY <1>1
<1>3. \A j, k \in DOMAIN t : j + Len(s) = k + Len(s) => j = k
  BY <1>1
<1> QED
  BY <1>2, <1>3 DEF Has, Once, c

-----------------------------------------------------------------------------
\* The types, with sequences as sequences.
OutMessages == UserMessages \cup {ShutdownQueues}

Shape ==
  /\ wire \in [Peers -> Seq(WireMessages)]
  /\ out \in [Peers -> Seq(OutMessages)]
  /\ reader \in [Peers -> {"receive", "emplace", "exited"}]
  /\ pending \in [Peers -> Seq(UserMessages)]
  /\ shutdown \in [Peers -> BOOLEAN]
  /\ inTransit \in [Peers -> SUBSET Ids]
  /\ sent \in [Peers -> Nat]
  /\ sending \in [Peers -> SUBSET UserMessages]
  /\ held \in [Peers -> SUBSET UserMessages]
  /\ acking \in [Peers -> SUBSET Ids]
  /\ hb \in [Peers -> {"waiting", "sending", "exited"}]
  /\ life \in [Peers -> {"open", "stop_heartbeat", "send_shutdown", "join", "closed"}]
  /\ alive \in [Peers -> BOOLEAN]
  /\ \A p \in Peers : /\ Len(wire[p]) <= MaxQueueSize
                      /\ Len(out[p]) <= MaxQueueSize
                      /\ Len(pending[p]) <= 1
                      /\ pending[p] # <<>> <=> reader[p] = "emplace"
                      /\ sent[p] <= MaxMessages[p]

LEMMA UpTo ==
  ASSUME NEW S, NEW n \in Nat, NEW s \in Seq(S), Len(s) <= n
  PROVE  s \in SeqsUpTo(S, n)
<1>1. Len(s) \in 0 .. n /\ s \in [1 .. Len(s) -> S]
  BY LenProperties
<1> QED
  BY <1>1 DEF SeqsUpTo

LEMMA ShapeIsTyped == Shape => TypeOK
<1> SUFFICES ASSUME Shape, NEW p \in Peers
             PROVE  TypeOK!(p)
  BY DEF TypeOK
<1>1. /\ wire[p] \in SeqsUpTo(WireMessages, MaxQueueSize)
      /\ out[p] \in SeqsUpTo(UserMessages \cup {ShutdownQueues}, MaxQueueSize)
      /\ pending[p] \in SeqsUpTo(UserMessages, 1)
  BY UpTo, QueueSizeAssumption DEF Shape, OutMessages
<1>2. sent[p] \in 0 .. MaxMessages[p]
  BY MessagesAssumption DEF Shape
<1> QED
  BY <1>1, <1>2 DEF Shape

LEMMA InitShape == Init => Shape
  BY QueueSizeAssumption, MessagesAssumption, EmptySeq DEF Init, Shape

\* What is on the wire.
LEMMA MessageKinds ==
  \A i, j, d, e : /\ IsUser(User(i, d)) /\ ~ IsUser(Done(i))
                  /\ ~ IsUser(Heartbeat) /\ ~ IsUser(ShutdownQueues)
                  /\ User(i, d).id = i /\ User(i, d).done = d /\ Done(i).id = i
                  /\ User(i, d) = User(j, e) => i = j /\ d = e
                  /\ Done(i) = Done(j) => i = j
                  /\ User(i, d) # Done(j) /\ User(i, d) # Heartbeat /\ User(i, d) # ShutdownQueues
                  /\ Done(i) # Heartbeat /\ Done(i) # ShutdownQueues /\ Heartbeat # ShutdownQueues
  BY DEF IsUser, User, Done, Heartbeat, ShutdownQueues, Msg

LEMMA UserMessageIs ==
  /\ \A m \in UserMessages : /\ IsUser(m) /\ m.id \in Ids /\ m.done \in BOOLEAN
                             /\ m = User(m.id, m.done)
                             /\ m # Heartbeat /\ m # ShutdownQueues
  /\ \A i \in Ids, d \in BOOLEAN : User(i, d) \in UserMessages
  BY DEF UserMessages, IsUser, User, Heartbeat, ShutdownQueues, Msg

LEMMA WireMessageIs ==
  /\ UserMessages \subseteq WireMessages /\ OutMessages \subseteq WireMessages
  /\ Heartbeat \in WireMessages /\ ShutdownQueues \in WireMessages
  /\ \A i \in Ids : Done(i) \in WireMessages
  /\ \A m \in WireMessages :
       /\ IsUser(m) <=> m \in UserMessages
       /\ m.type = "USER_PAYLOAD" => m \in UserMessages
       /\ m.type = "DONE" => m.id \in Ids /\ m = Done(m.id)
       /\ m.type = "HEARTBEAT" => m = Heartbeat
       /\ m.type = "SHUTDOWN_QUEUES" => m = ShutdownQueues
<1>1. /\ UserMessages \subseteq WireMessages /\ OutMessages \subseteq WireMessages
      /\ Heartbeat \in WireMessages /\ ShutdownQueues \in WireMessages
      /\ \A i \in Ids : Done(i) \in WireMessages
  BY DEF WireMessages, OutMessages
<1>2. ASSUME NEW m \in UserMessages
      PROVE  m.type = "USER_PAYLOAD"
  BY DEF UserMessages, User, Msg
<1>3. ASSUME NEW i
      PROVE  /\ Done(i).type = "DONE" /\ Done(i).id = i
             /\ Heartbeat.type = "HEARTBEAT" /\ ShutdownQueues.type = "SHUTDOWN_QUEUES"
  BY DEF Done, Heartbeat, ShutdownQueues, Msg
<1>4. ASSUME NEW m \in WireMessages
      PROVE  \/ m \in UserMessages
             \/ m = Heartbeat
             \/ m = ShutdownQueues
             \/ \E i \in Ids : m = Done(i)
  BY DEF WireMessages
<1> QED
  BY <1>1, <1>2, <1>3, <1>4 DEF IsUser

LEMMA Others == \A p \in Peers : /\ Other(p) \in Peers /\ Other(p) # p /\ Other(Other(p)) = p
                                 /\ \A q \in Peers : q # p => q = Other(p)
  BY DEF Peers, Other

\* A message that fits, put where q receives.
LEMMA PutIsTyped ==
  ASSUME Shape, NEW q \in Peers, NEW m \in WireMessages, Put(q, m)
  PROVE  /\ wire' \in [Peers -> Seq(WireMessages)]
         /\ \A p \in Peers : Len(wire'[p]) <= MaxQueueSize
         /\ wire'[q] = Append(wire[q], m)
         /\ \A p \in Peers : p # q => wire'[p] = wire[p]
<1>1. wire' = [wire EXCEPT ![q] = Append(wire[q], m)] /\ Len(wire[q]) < MaxQueueSize
  BY DEF Put, Set
<1>2. /\ Append(wire[q], m) \in Seq(WireMessages)
      /\ Len(Append(wire[q], m)) = Len(wire[q]) + 1 /\ Len(wire[q]) \in Nat
  BY AppendProperties, LenProperties DEF Shape
<1>3. \A p \in Peers : wire'[p] = IF p = q THEN Append(wire[q], m) ELSE wire[p]
  BY <1>1 DEF Shape
<1>4. \A p \in Peers : Len(wire'[p]) <= MaxQueueSize
  BY <1>1, <1>2, <1>3, QueueSizeAssumption DEF Shape
<1> QED
  BY <1>1, <1>2, <1>3, <1>4 DEF Shape

\* A user lets go of everything before the destructor starts.
Quiet(p) == life[p] # "open" => sending[p] = {} /\ held[p] = {} /\ acking[p] = {}

\* SHUTDOWN_QUEUES comes from the destructor of the endpoint it goes to.
Asked(p) == Has(wire[p], ShutdownQueues) \/ Has(out[p], ShutdownQueues) \/ shutdown[p]
              => life[p] \in {"join", "closed"}

\* The reader leaves when nothing is in transit, and the destructor waits for it.
Exits(p)  == reader[p] = "exited" => shutdown[p] /\ inTransit[p] = {}
Closes(p) == life[p] = "closed" => reader[p] = "exited" /\ out[p] = <<>>

Lives == \A p \in Peers : Quiet(p) /\ Asked(p) /\ Exits(p) /\ Closes(p)

\* What an open endpoint receives is a user message.
LEMMA ReceivesUser ==
  ASSUME Shape, Lives, NEW p \in Peers, life[p] = "open", out[p] # <<>>
  PROVE  Head(out[p]) \in UserMessages /\ Tail(out[p]) \in Seq(OutMessages)
         /\ Len(Tail(out[p])) = Len(out[p]) - 1 /\ Len(out[p]) \in Nat
<1>1. out[p] \in Seq(OutMessages) /\ ~ Has(out[p], ShutdownQueues)
  BY DEF Shape, Lives, Asked
<1>2. Has(out[p], Head(out[p])) /\ Head(out[p]) \in OutMessages
  BY <1>1, HasTail, HeadTailProperties
<1> QED
  BY <1>1, <1>2, HeadTailProperties, LenProperties DEF OutMessages

\* The steps of an endpoint, and what they leave alone.
Step(p) == \/ UserStep(p) \/ ReaderStep(p) \/ HeartbeatStep(p)
           \/ Destroy(p) \/ DestructorStep(p) \/ Crash(p)

Only(p) == \A q \in Peers \ {p} :
             /\ out'[q] = out[q] /\ reader'[q] = reader[q] /\ pending'[q] = pending[q]
             /\ shutdown'[q] = shutdown[q] /\ inTransit'[q] = inTransit[q] /\ sent'[q] = sent[q]
             /\ sending'[q] = sending[q] /\ held'[q] = held[q] /\ acking'[q] = acking[q]
             /\ hb'[q] = hb[q] /\ life'[q] = life[q] /\ alive'[q] = alive[q]

\* The steps of an endpoint keep the types.
LEMMA ShapeStep ==
  ASSUME Shape, Lives, NEW p \in Peers, Step(p)
  PROVE  Shape' /\ Only(p)
<1>1. ASSUME NEW d \in BOOLEAN, SendBegin(p, d) PROVE Shape' /\ Only(p)
  <2> DEFINE i == sent[p] + 1
  <2>1. i \in Nat /\ i <= MaxMessages[p] /\ i \in Ids /\ User(i, d) \in UserMessages
    <3>1. i \in Nat /\ i <= MaxMessages[p] /\ i \in 1 .. MaxMessages[p]
      BY <1>1, MessagesAssumption DEF Shape, SendBegin
    <3> QED
      BY <3>1, UserMessageIs DEF Ids
  <2>2. sent' = Set(sent, p, i) /\ sent' \in [Peers -> Nat]
        /\ \A q \in Peers : sent'[q] = IF q = p THEN i ELSE sent[q]
    BY <1>1, <2>1 DEF Set, Shape, SendBegin
  <2>3. sending' \in [Peers -> SUBSET UserMessages] /\ \A q \in Peers \ {p} : sending'[q] = sending[q]
    BY <1>1, <2>1 DEF Shape, SendBegin, Set
  <2>4. inTransit' \in [Peers -> SUBSET Ids] /\ \A q \in Peers \ {p} : inTransit'[q] = inTransit[q]
    BY <1>1, <2>1 DEF Shape, SendBegin, Set
  <2>5. \A q \in Peers : sent'[q] <= MaxMessages[q]
    BY <2>1, <2>2 DEF Shape
  <2> QED
    BY <1>1, <2>2, <2>3, <2>4, <2>5 DEF Shape, Only, SendBegin
<1>2. ASSUME NEW m \in UserMessages, Send(p, m) PROVE Shape' /\ Only(p)
  <2>1. Put(Other(p), m) /\ m \in WireMessages /\ Other(p) \in Peers
    BY <1>2, WireMessageIs, Others DEF Send
  <2>2. /\ wire' \in [Peers -> Seq(WireMessages)]
        /\ \A q \in Peers : Len(wire'[q]) <= MaxQueueSize
    BY <2>1, PutIsTyped
  <2>3. /\ sending' \in [Peers -> SUBSET UserMessages]
        /\ \A q \in Peers \ {p} : sending'[q] = sending[q]
    BY <1>2 DEF Shape, Send, Set
  <2> QED
    BY <1>2, <2>2, <2>3 DEF Shape, Only, Send
<1>3. ASSUME Recv(p) PROVE Shape' /\ Only(p)
  <2>1. /\ Head(out[p]) \in UserMessages /\ Tail(out[p]) \in Seq(OutMessages)
        /\ Len(Tail(out[p])) = Len(out[p]) - 1 /\ Len(out[p]) \in Nat
    BY <1>3, ReceivesUser DEF Recv
  <2>2. held' \in [Peers -> SUBSET UserMessages] /\ \A q \in Peers \ {p} : held'[q] = held[q]
    BY <1>3, <2>1 DEF Shape, Recv, Set
  <2>3. /\ out' \in [Peers -> Seq(OutMessages)]
        /\ \A q \in Peers : out'[q] = IF q = p THEN Tail(out[p]) ELSE out[q]
    BY <1>3, <2>1 DEF Set, Shape, Recv
  <2>4. \A q \in Peers : Len(out'[q]) <= MaxQueueSize
    <3>1. \A q \in Peers : Len(out[q]) <= MaxQueueSize
      BY DEF Shape
    <3>2. Len(Tail(out[p])) <= MaxQueueSize
      BY <2>1, <3>1, QueueSizeAssumption
    <3> QED
      BY <2>3, <3>1, <3>2, Zenon
  <2> QED
    BY <1>3, <2>2, <2>3, <2>4 DEF Shape, Only, Recv
<1>4. ASSUME NEW m \in UserMessages, Release(p, m) PROVE Shape' /\ Only(p)
  BY <1>4, UserMessageIs DEF Shape, Only, Release, Set, user
<1>5. ASSUME NEW i \in Ids, Ack(p, i) PROVE Shape' /\ Only(p)
  <2>1. Put(Other(p), Done(i)) /\ Done(i) \in WireMessages /\ Other(p) \in Peers
    BY <1>5, WireMessageIs, Others DEF Ack
  <2>2. /\ wire' \in [Peers -> Seq(WireMessages)]
        /\ \A q \in Peers : Len(wire'[q]) <= MaxQueueSize
    BY <2>1, PutIsTyped
  <2>3. /\ acking' \in [Peers -> SUBSET Ids]
        /\ \A q \in Peers \ {p} : acking'[q] = acking[q]
    BY <1>5 DEF Shape, Ack, Set
  <2> QED
    BY <1>5, <2>2, <2>3 DEF Shape, Only, Ack
<1>6. ASSUME Read(p) PROVE Shape' /\ Only(p)
  <2> DEFINE m == Head(wire[p])
  <2>1. /\ wire[p] \in Seq(WireMessages) /\ wire[p] # <<>>
        /\ m \in WireMessages /\ Tail(wire[p]) \in Seq(WireMessages)
        /\ Len(Tail(wire[p])) = Len(wire[p]) - 1 /\ Len(wire[p]) \in Nat
    BY <1>6, HeadTailProperties, LenProperties DEF Shape, Read
  <2>2. /\ wire' \in [Peers -> Seq(WireMessages)]
        /\ \A q \in Peers : wire'[q] = IF q = p THEN Tail(wire[p]) ELSE wire[q]
    BY <1>6, <2>1 DEF Set, Shape, Read
  <2>3. \A q \in Peers : Len(wire'[q]) <= MaxQueueSize
    <3>1. \A q \in Peers : Len(wire[q]) <= MaxQueueSize
      BY DEF Shape
    <3>2. Len(Tail(wire[p])) <= MaxQueueSize
      BY <2>1, <3>1, QueueSizeAssumption
    <3> QED
      BY <2>2, <3>1, <3>2, Zenon
  <2>4. reader[p] = "receive" /\ pending[p] = <<>>
    BY <1>6 DEF Shape, Read
  <2>5. CASE m.type = "HEARTBEAT"
    BY <1>6, <2>2, <2>3, <2>5 DEF Shape, Only, Read, user
  <2>6. CASE m.type = "DONE"
    <3>1. inTransit' = Set(inTransit, p, inTransit[p] \ {m.id})
      BY <1>6, <2>6 DEF Read
    <3>2. inTransit' \in [Peers -> SUBSET Ids] /\ \A q \in Peers \ {p} : inTransit'[q] = inTransit[q]
      BY <3>1 DEF Set, Shape
    <3>3. PICK v \in {"receive", "exited"} : reader' = Set(reader, p, v)
      BY <1>6, <2>6 DEF Read, NextRead
    <3>4. /\ reader' \in [Peers -> {"receive", "emplace", "exited"}]
          /\ reader'[p] = v /\ \A q \in Peers \ {p} : reader'[q] = reader[q]
      BY <3>3 DEF Set, Shape
    <3> QED
      <4>1. UNCHANGED <<out, pending, shutdown, user, hb, life, alive>>
        BY <1>6, <2>6 DEF Read
      <4> QED
        BY <2>2, <2>3, <2>4, <3>2, <3>3, <3>4, <4>1 DEF Shape, Only, user
  <2>7. CASE m.type = "SHUTDOWN_QUEUES"
    <3>1. /\ TryPushed(p, m) \in Seq(OutMessages) /\ Len(TryPushed(p, m)) <= MaxQueueSize
      <4>1. m \in OutMessages /\ out[p] \in Seq(OutMessages) /\ Len(out[p]) <= MaxQueueSize
        BY <2>1, <2>7, WireMessageIs DEF OutMessages, Shape
      <4>2. Append(out[p], m) \in Seq(OutMessages) /\ Len(Append(out[p], m)) = Len(out[p]) + 1
        BY <4>1, AppendProperties
      <4>3. Len(out[p]) < MaxQueueSize => Len(out[p]) + 1 <= MaxQueueSize
        BY <4>1, LenProperties, QueueSizeAssumption
      <4> QED
        BY <4>1, <4>2, <4>3 DEF TryPushed
    <3>2. /\ out' = Set(out, p, TryPushed(p, m)) /\ shutdown' = Set(shutdown, p, TRUE)
          /\ UNCHANGED <<pending, inTransit, user, hb, life, alive>>
      BY <1>6, <2>7 DEF Read
    <3>3. /\ out' \in [Peers -> Seq(OutMessages)]
          /\ out'[p] = TryPushed(p, m) /\ \A q \in Peers \ {p} : out'[q] = out[q]
          /\ shutdown' \in [Peers -> BOOLEAN] /\ \A q \in Peers \ {p} : shutdown'[q] = shutdown[q]
      BY <3>1, <3>2 DEF Set, Shape
    <3>4. PICK v \in {"receive", "exited"} : reader' = Set(reader, p, v)
      BY <1>6, <2>7 DEF Read, NextRead
    <3>5. /\ reader' \in [Peers -> {"receive", "emplace", "exited"}]
          /\ reader'[p] = v /\ \A q \in Peers \ {p} : reader'[q] = reader[q]
      BY <3>4 DEF Set, Shape
    <3>6. \A q \in Peers : Len(out'[q]) <= MaxQueueSize
      BY <3>1, <3>3 DEF Shape
    <3> QED
      BY <2>2, <2>3, <2>4, <3>2, <3>3, <3>5, <3>6 DEF Shape, Only, user
  <2>8. CASE m.type = "USER_PAYLOAD"
    <3>1. <<m>> \in Seq(UserMessages) /\ Len(<<m>>) <= 1 /\ <<m>> # <<>>
      BY <2>1, <2>8, WireMessageIs
    <3>2. /\ pending' = Set(pending, p, <<m>>) /\ reader' = Set(reader, p, "emplace")
          /\ UNCHANGED <<out, shutdown, inTransit, user, hb, life, alive>>
      BY <1>6, <2>8 DEF Read
    <3>3. /\ pending' \in [Peers -> Seq(UserMessages)]
          /\ pending'[p] = <<m>> /\ \A q \in Peers \ {p} : pending'[q] = pending[q]
          /\ reader' \in [Peers -> {"receive", "emplace", "exited"}]
          /\ reader'[p] = "emplace" /\ \A q \in Peers \ {p} : reader'[q] = reader[q]
      BY <3>1, <3>2 DEF Set, Shape
    <3> QED
      <4>1. \A q \in Peers : Len(pending'[q]) <= 1
        <5>1. \A q \in Peers : pending'[q] = <<m>> \/ (pending'[q] = pending[q] /\ Len(pending[q]) <= 1)
          BY <3>3 DEF Shape
        <5> QED
          BY <3>1, <5>1, Zenon
      <4>2. \A q \in Peers : pending'[q] # <<>> <=> reader'[q] = "emplace"
        BY <3>1, <3>3 DEF Shape
      <4> QED
        BY <2>2, <2>3, <3>2, <3>3, <4>1, <4>2 DEF Shape, Only, user
  <2> QED
    BY <1>6, <2>5, <2>6, <2>7, <2>8 DEF Read
<1>7. ASSUME Emplace(p) PROVE Shape' /\ Only(p)
  <2>1. /\ pending[p] \in Seq(UserMessages) /\ Len(pending[p]) <= 1
        /\ out[p] \in Seq(OutMessages) /\ Len(out[p]) < MaxQueueSize
    BY <1>7 DEF Shape, Emplace
  <2>2. pending[p] \in Seq(OutMessages)
    BY <2>1, SeqMonotonic DEF OutMessages
  <2>3. /\ out[p] \o pending[p] \in Seq(OutMessages)
        /\ Len(out[p] \o pending[p]) = Len(out[p]) + Len(pending[p])
    BY <2>1, <2>2, ConcatProperties
  <2>4. Len(out[p] \o pending[p]) <= MaxQueueSize
    <3>1. Len(out[p]) \in Nat /\ Len(pending[p]) \in Nat /\ MaxQueueSize \in Nat
      BY <2>1, LenProperties, QueueSizeAssumption
    <3>2. ASSUME NEW a \in Nat, NEW b \in Nat, a < MaxQueueSize, b <= 1
          PROVE  a + b <= MaxQueueSize
      BY <3>1, <3>2
    <3> QED
      BY <2>1, <2>3, <3>1, <3>2, Zenon
  <2>5. /\ out' \in [Peers -> Seq(OutMessages)]
        /\ out'[p] = out[p] \o pending[p] /\ \A q \in Peers \ {p} : out'[q] = out[q]
    BY <1>7, <2>3 DEF Set, Shape, Emplace
  <2>6. /\ pending' \in [Peers -> Seq(UserMessages)]
        /\ pending'[p] = <<>> /\ \A q \in Peers \ {p} : pending'[q] = pending[q]
    BY <1>7, EmptySeq DEF Set, Shape, Emplace
  <2>7. PICK v \in {"receive", "exited"} : reader' = Set(reader, p, v)
    BY <1>7 DEF Emplace, NextRead
  <2>8. /\ reader' \in [Peers -> {"receive", "emplace", "exited"}]
        /\ reader'[p] = v /\ \A q \in Peers \ {p} : reader'[q] = reader[q]
    BY <2>7 DEF Set, Shape
  <2>9. \A q \in Peers : Len(out'[q]) <= MaxQueueSize /\ Len(pending'[q]) <= 1
    <3>1. Len(<<>>) <= 1
      OBVIOUS
    <3>2. ASSUME NEW q \in Peers PROVE Len(out'[q]) <= MaxQueueSize /\ Len(pending'[q]) <= 1
      <4>1. \/ out'[q] = out[p] \o pending[p] /\ pending'[q] = <<>>
            \/ out'[q] = out[q] /\ pending'[q] = pending[q]
        BY <2>5, <2>6, Zenon
      <4>2. Len(out[q]) <= MaxQueueSize /\ Len(pending[q]) <= 1
        BY DEF Shape
      <4> QED
        BY <2>4, <3>1, <4>1, <4>2, Zenon
    <3> QED
      BY <3>2
  <2> QED
    BY <1>7, <2>5, <2>6, <2>8, <2>9 DEF Shape, Only, Emplace, user
<1>8. ASSUME Timeout(p) PROVE Shape' /\ Only(p)
  BY <1>8, UserMessageIs DEF Shape, Only, Timeout, Set, user
<1>9. ASSUME HeartbeatWake(p) PROVE Shape' /\ Only(p)
  <2>1. PICK v \in {"sending", "exited"} : hb' = Set(hb, p, v)
    BY <1>9 DEF HeartbeatWake
  <2>2. /\ hb' \in [Peers -> {"waiting", "sending", "exited"}]
        /\ \A q \in Peers \ {p} : hb'[q] = hb[q]
    BY <2>1 DEF Set, Shape
  <2> QED
    BY <1>9, <2>2 DEF Shape, Only, HeartbeatWake, user
<1>10. ASSUME HeartbeatSend(p) PROVE Shape' /\ Only(p)
  <2>1. Put(Other(p), Heartbeat) /\ Heartbeat \in WireMessages /\ Other(p) \in Peers
    BY <1>10, WireMessageIs, Others DEF HeartbeatSend
  <2>2. /\ wire' \in [Peers -> Seq(WireMessages)]
        /\ \A q \in Peers : Len(wire'[q]) <= MaxQueueSize
    BY <2>1, PutIsTyped
  <2>3. /\ hb' \in [Peers -> {"waiting", "sending", "exited"}]
        /\ \A q \in Peers \ {p} : hb'[q] = hb[q]
    BY <1>10 DEF Shape, HeartbeatSend, Set
  <2> QED
    BY <1>10, <2>2, <2>3 DEF Shape, Only, HeartbeatSend, user
<1>11. ASSUME Destroy(p) PROVE Shape' /\ Only(p)
  BY <1>11, UserMessageIs DEF Shape, Only, Destroy, Set, user
<1>12. ASSUME JoinHeartbeat(p) PROVE Shape' /\ Only(p)
  BY <1>12, UserMessageIs DEF Shape, Only, JoinHeartbeat, Set, user
<1>13. ASSUME SendShutdown(p) PROVE Shape' /\ Only(p)
  <2>1. Put(p, ShutdownQueues) /\ ShutdownQueues \in WireMessages /\ p \in Peers
    BY <1>13, WireMessageIs, Others DEF SendShutdown
  <2>2. /\ wire' \in [Peers -> Seq(WireMessages)]
        /\ \A q \in Peers : Len(wire'[q]) <= MaxQueueSize
    BY <2>1, PutIsTyped
  <2>3. /\ life' \in [Peers -> {"open", "stop_heartbeat", "send_shutdown", "join", "closed"}]
        /\ \A q \in Peers \ {p} : life'[q] = life[q]
    BY <1>13 DEF Shape, SendShutdown, Set
  <2> QED
    BY <1>13, <2>2, <2>3 DEF Shape, Only, SendShutdown, user
<1>14. ASSUME JoinReader(p) PROVE Shape' /\ Only(p)
  <2>1. /\ out' \in [Peers -> Seq(OutMessages)]
        /\ out'[p] = <<>> /\ \A q \in Peers \ {p} : out'[q] = out[q]
    BY <1>14, EmptySeq DEF Set, Shape, JoinReader
  <2>2. /\ life' \in [Peers -> {"open", "stop_heartbeat", "send_shutdown", "join", "closed"}]
        /\ \A q \in Peers \ {p} : life'[q] = life[q]
    BY <1>14 DEF Set, Shape, JoinReader
  <2>3. \A q \in Peers : Len(out'[q]) <= MaxQueueSize
    <3>1. Len(<<>>) <= MaxQueueSize
      BY QueueSizeAssumption
    <3>2. ASSUME NEW q \in Peers PROVE Len(out'[q]) <= MaxQueueSize
      <4>1. out'[q] = <<>> \/ (out'[q] = out[q] /\ Len(out[q]) <= MaxQueueSize)
        BY <2>1 DEF Shape
      <4> QED
        BY <3>1, <4>1, Zenon
    <3> QED
      BY <3>2
  <2> QED
    BY <1>14, <2>1, <2>2, <2>3 DEF Shape, Only, JoinReader, user
<1>15. ASSUME Crash(p) PROVE Shape' /\ Only(p)
  BY <1>15, UserMessageIs DEF Shape, Only, Crash, Set, user
<1> QED
  BY <1>1, <1>2, <1>3, <1>4, <1>5, <1>6, <1>7, <1>8, <1>9, <1>10, <1>11, <1>12, <1>13, <1>14, <1>15
     DEF Step, UserStep, ReaderStep, HeartbeatStep, DestructorStep

\* What a step does to one of the two wires: nothing, a message of the actor,
\* or the first message is taken.
WireStep(p, x) ==
  \/ wire'[x] = wire[x]
  \/ \E m \in WireMessages : /\ wire'[x] = Append(wire[x], m)
                             /\ \/ x = Other(p) /\ m # ShutdownQueues
                                \/ x = p /\ m = ShutdownQueues /\ SendShutdown(p)
  \/ x = p /\ Read(p)

LEMMA WireSteps ==
  ASSUME Shape, NEW p \in Peers, NEW x \in Peers, Step(p)
  PROVE  WireStep(p, x)
<1>1. ASSUME NEW q \in Peers, NEW m \in WireMessages, Put(q, m)
      PROVE  wire'[q] = Append(wire[q], m) /\ (x # q => wire'[x] = wire[x])
  BY <1>1, PutIsTyped
<1>2. Other(p) \in Peers /\ (x # Other(p) => x = p) /\ (x # p => x = Other(p))
  BY Others
<1>3. ASSUME NEW m \in WireMessages, Put(Other(p), m), m # ShutdownQueues
      PROVE  WireStep(p, x)
  BY <1>1, <1>2, <1>3 DEF WireStep
<1>4. CASE wire' = wire
  BY <1>4 DEF WireStep
<1>5. ASSUME NEW m \in UserMessages, Send(p, m) PROVE WireStep(p, x)
  BY <1>3, <1>5, WireMessageIs, UserMessageIs DEF Send
<1>6. ASSUME NEW i \in Ids, Ack(p, i) PROVE WireStep(p, x)
  BY <1>3, <1>6, WireMessageIs, MessageKinds DEF Ack
<1>7. CASE HeartbeatSend(p)
  BY <1>3, <1>7, WireMessageIs, MessageKinds DEF HeartbeatSend
<1>8. CASE SendShutdown(p)
  <2>1. Put(p, ShutdownQueues) /\ ShutdownQueues \in WireMessages
    BY <1>8, WireMessageIs DEF SendShutdown
  <2>2. wire'[p] = Append(wire[p], ShutdownQueues) /\ (x # p => wire'[x] = wire[x])
    BY <1>1, <2>1
  <2> QED
    BY <1>2, <1>8, <2>1, <2>2 DEF WireStep
<1>9. CASE Read(p)
  <2>1. x # p => wire'[x] = wire[x]
    BY <1>9 DEF Read, Set, Shape
  <2> QED
    BY <1>9, <2>1 DEF WireStep
<1>10. CASE \/ \E d \in BOOLEAN : SendBegin(p, d)
            \/ \E m \in UserMessages : Release(p, m)
            \/ Recv(p)
  BY <1>4, <1>10 DEF SendBegin, Release, Recv
<1>11. CASE \/ Emplace(p) \/ Timeout(p) \/ HeartbeatWake(p) \/ Destroy(p) \/ JoinHeartbeat(p)
           \/ JoinReader(p) \/ Crash(p)
  BY <1>4, <1>11 DEF Emplace, Timeout, HeartbeatWake, Destroy, JoinHeartbeat, JoinReader, Crash
<1> QED
  BY <1>5, <1>6, <1>7, <1>8, <1>9, <1>10, <1>11 DEF Step, UserStep, ReaderStep, HeartbeatStep, DestructorStep

LEMMA InitLives == Init => Lives
<1>1. ~ Has(<<>>, ShutdownQueues)
  BY DEF Has
<1> QED
  BY <1>1 DEF Init, Lives, Quiet, Asked, Exits, Closes

LEMMA QuietStep ==
  ASSUME Shape, Lives, NEW p \in Peers, Step(p)
  PROVE  Quiet(p)'
<1>1. Quiet(p)
  BY DEF Lives
<1>2. CASE \E d \in BOOLEAN : SendBegin(p, d)
  BY <1>2 DEF Quiet, SendBegin
<1>3. CASE Recv(p)
  BY <1>3 DEF Quiet, Recv
<1>4. CASE \E m \in UserMessages : Send(p, m) \/ Release(p, m)
  BY <1>1, <1>4 DEF Quiet, Send, Release
<1>5. CASE \E i \in Ids : Ack(p, i)
  BY <1>1, <1>5 DEF Quiet, Ack
<1>6. CASE Destroy(p)
  BY <1>6 DEF Quiet, Destroy, user
<1>7. CASE \/ Read(p) \/ Emplace(p) \/ Timeout(p) \/ HeartbeatWake(p) \/ HeartbeatSend(p) \/ Crash(p)
  BY <1>1, <1>7 DEF Quiet, Read, Emplace, Timeout, HeartbeatWake, HeartbeatSend, Crash, user
<1>8. CASE JoinHeartbeat(p) \/ SendShutdown(p) \/ JoinReader(p)
  BY <1>1, <1>8 DEF Quiet, JoinHeartbeat, SendShutdown, JoinReader, user
<1> QED
  BY <1>2, <1>3, <1>4, <1>5, <1>6, <1>7, <1>8
     DEF Step, UserStep, ReaderStep, HeartbeatStep, DestructorStep

LEMMA AskedStep ==
  ASSUME Shape, Shape', Lives, NEW p \in Peers, Step(p), Only(p), NEW x \in Peers
  PROVE  Asked(x)'
<1>1. Asked(x)
  BY DEF Lives
<1>2. life[x] \in {"join", "closed"} => life'[x] \in {"join", "closed"}
  <2>1. CASE x # p
    BY <2>1 DEF Only
  <2>2. CASE x = p
    <3>1. CASE life' = life
      BY <3>1
    <3>2. CASE Destroy(p) \/ JoinHeartbeat(p) \/ SendShutdown(p) \/ JoinReader(p)
      BY <2>2, <3>2 DEF Destroy, JoinHeartbeat, SendShutdown, JoinReader, Set, Shape
    <3>3. CASE UserStep(p) \/ ReaderStep(p) \/ HeartbeatStep(p) \/ Crash(p)
      BY <3>1, <3>3 DEF UserStep, ReaderStep, HeartbeatStep, SendBegin, Send, Release, Ack, Recv,
                        Read, Emplace, Timeout, HeartbeatWake, HeartbeatSend, Crash
    <3> QED
      BY <3>2, <3>3 DEF Step, DestructorStep
  <2> QED
    BY <2>1, <2>2
<1>3. Has(wire'[x], ShutdownQueues) => Has(wire[x], ShutdownQueues) \/ life'[x] = "join"
  <2>1. wire[x] \in Seq(WireMessages)
    BY DEF Shape
  <2>2. ASSUME NEW m \in WireMessages, wire'[x] = Append(wire[x], m), m # ShutdownQueues
        PROVE  Has(wire'[x], ShutdownQueues) => Has(wire[x], ShutdownQueues)
    BY <2>1, <2>2, HasAppend
  <2>3. ASSUME x = p, SendShutdown(p)
        PROVE  life'[x] = "join"
    BY <2>3 DEF SendShutdown, Set, Shape
  <2>4. ASSUME x = p, Read(p)
        PROVE  Has(wire'[x], ShutdownQueues) => Has(wire[x], ShutdownQueues)
    <3>1. wire'[x] = Tail(wire[x]) /\ wire[x] # <<>>
      BY <2>4 DEF Read, Set, Shape
    <3> QED
      BY <2>1, <3>1, HasTail
  <2> QED
    BY <2>2, <2>3, <2>4, WireSteps DEF WireStep
<1>4. /\ Has(out'[x], ShutdownQueues) => Has(out[x], ShutdownQueues) \/ Has(wire[x], ShutdownQueues)
      /\ shutdown'[x] => shutdown[x] \/ Has(wire[x], ShutdownQueues)
  <2>1. CASE x # p
    BY <2>1 DEF Only
  <2>2. CASE x = p /\ Read(p)
    <3>1. wire[p] \in Seq(WireMessages) /\ out[p] \in Seq(OutMessages)
      BY DEF Shape
    <3>2. Has(wire[p], Head(wire[p])) /\ Head(wire[p]) \in WireMessages
      BY <2>2, <3>1, HasTail, HeadTailProperties DEF Read
    <3>3. \/ shutdown' = shutdown /\ out' = out
          \/ Head(wire[p]).type = "SHUTDOWN_QUEUES"
      BY <2>2 DEF Read
    <3>4. Head(wire[p]).type = "SHUTDOWN_QUEUES" => Has(wire[p], ShutdownQueues)
      BY <3>2, WireMessageIs, Zenon
    <3> QED
      BY <2>2, <3>3, <3>4
  <2>3. CASE x = p /\ Emplace(p)
    <3>1. /\ out'[p] = out[p] \o pending[p] /\ shutdown' = shutdown
          /\ pending[p] # <<>> /\ Len(pending[p]) <= 1
          /\ pending[p] \in Seq(UserMessages) /\ out[p] \in Seq(OutMessages)
      BY <2>3 DEF Emplace, Set, Shape
    <3>2. PICK m \in UserMessages : pending[p] = <<m>>
      <4>1. pending[p] = <<Head(pending[p])>> /\ Head(pending[p]) \in UserMessages
        BY <3>1
      <4> QED
        BY <4>1
    <3>3. m \in OutMessages /\ out[p] \o <<m>> = Append(out[p], m) /\ m # ShutdownQueues
      BY <3>1, UserMessageIs DEF OutMessages
    <3>4. out'[p] = Append(out[p], m)
      BY <3>1, <3>2, <3>3, Zenon
    <3>5. Has(out'[p], ShutdownQueues) => Has(out[p], ShutdownQueues)
      BY <3>1, <3>3, <3>4, HasAppend
    <3> QED
      BY <2>3, <3>1, <3>5
  <2>4. CASE x = p /\ Recv(p)
    <3>1. /\ out'[p] = Tail(out[p]) /\ shutdown' = shutdown
          /\ out[p] # <<>> /\ out[p] \in Seq(OutMessages)
      BY <2>4 DEF Recv, Set, Shape
    <3> QED
      BY <2>4, <3>1, HasTail
  <2>5. CASE x = p /\ JoinReader(p)
    <3>1. out'[p] = <<>> /\ shutdown' = shutdown
      BY <2>5 DEF JoinReader, Set, Shape
    <3> QED
      BY <2>5, <3>1 DEF Has
  <2>6. CASE UNCHANGED <<out, shutdown>>
    BY <2>6
  <2>7. CASE \/ \E d \in BOOLEAN : SendBegin(p, d)
             \/ \E m \in UserMessages : Send(p, m) \/ Release(p, m)
             \/ \E i \in Ids : Ack(p, i)
    BY <2>6, <2>7 DEF SendBegin, Send, Release, Ack
  <2>8. CASE \/ Timeout(p) \/ HeartbeatStep(p) \/ Destroy(p) \/ JoinHeartbeat(p)
             \/ SendShutdown(p) \/ Crash(p)
    BY <2>6, <2>8 DEF Timeout, HeartbeatStep, HeartbeatWake, HeartbeatSend, Destroy, JoinHeartbeat,
                      SendShutdown, Crash
  <2> QED
    BY <2>1, <2>2, <2>3, <2>4, <2>5, <2>7, <2>8 DEF Step, UserStep, ReaderStep, DestructorStep
<1> QED
  BY <1>1, <1>2, <1>3, <1>4 DEF Asked

LEMMA ExitsStep ==
  ASSUME Shape, Lives, NEW p \in Peers, Step(p)
  PROVE  Exits(p)' /\ Closes(p)'
<1>1. Asked(p) /\ Exits(p) /\ Closes(p)
  BY DEF Lives
<1>2. CASE \E d \in BOOLEAN : SendBegin(p, d)
  <2>1. reader[p] # "exited" /\ UNCHANGED <<reader, shutdown, life, out>> /\ life[p] = "open"
    BY <1>1, <1>2 DEF Asked, Exits, SendBegin
  <2> QED
    BY <2>1 DEF Exits, Closes
<1>3. CASE Recv(p)
  BY <1>1, <1>3 DEF Exits, Closes, Recv
<1>4. CASE \E m \in UserMessages : Send(p, m) \/ Release(p, m)
  BY <1>1, <1>4 DEF Exits, Closes, Send, Release
<1>5. CASE \E i \in Ids : Ack(p, i)
  BY <1>1, <1>5 DEF Exits, Closes, Ack
<1>6. CASE Read(p)
  <2>1. reader[p] = "receive" /\ life[p] # "closed" /\ life' = life
    BY <1>1, <1>6 DEF Closes, Read
  <2>2. \/ reader' = reader
        \/ /\ reader'[p] = NextRead(shutdown[p], inTransit'[p]) /\ shutdown' = shutdown
        \/ /\ reader'[p] = NextRead(TRUE, inTransit[p]) /\ inTransit' = inTransit /\ shutdown'[p] = TRUE
        \/ reader'[p] = "emplace"
    BY <1>6 DEF Read, Set, Shape
  <2> QED
    BY <2>1, <2>2 DEF Exits, Closes, NextRead
<1>7. CASE Emplace(p)
  <2>1. reader[p] = "emplace" /\ life[p] # "closed" /\ life' = life
    BY <1>1, <1>7 DEF Closes, Emplace
  <2>2. reader'[p] = NextRead(shutdown[p], inTransit[p]) /\ UNCHANGED <<shutdown, inTransit>>
    BY <1>7 DEF Emplace, Set, Shape
  <2> QED
    BY <2>1, <2>2 DEF Exits, Closes, NextRead
<1>8. CASE Timeout(p) \/ HeartbeatWake(p) \/ HeartbeatSend(p) \/ Crash(p)
  BY <1>1, <1>8 DEF Exits, Closes, Timeout, HeartbeatWake, HeartbeatSend, Crash
<1>9. CASE Destroy(p) \/ JoinHeartbeat(p) \/ SendShutdown(p)
  BY <1>1, <1>9 DEF Exits, Closes, Destroy, JoinHeartbeat, SendShutdown, Set, Shape
<1>10. CASE JoinReader(p)
  BY <1>1, <1>10 DEF Exits, Closes, JoinReader, Set, Shape
<1> QED
  BY <1>2, <1>3, <1>4, <1>5, <1>6, <1>7, <1>8, <1>9, <1>10
     DEF Step, UserStep, ReaderStep, HeartbeatStep, DestructorStep

LEMMA LivesStep ==
  ASSUME Shape, Lives, NEW p \in Peers, Step(p)
  PROVE  Lives'
<1>1. Shape' /\ Only(p)
  BY ShapeStep
<1>2. ASSUME NEW x \in Peers PROVE Quiet(x)' /\ Asked(x)' /\ Exits(x)' /\ Closes(x)'
  <2>1. Asked(x)'
    BY <1>1, AskedStep
  <2>2. CASE x = p
    BY <2>1, <2>2, QuietStep, ExitsStep
  <2>3. CASE x # p
    BY <1>1, <2>1, <2>3 DEF Only, Lives, Quiet, Exits, Closes
  <2> QED
    BY <2>2, <2>3
<1> QED
  BY <1>2 DEF Lives

LEMMA NextIs == Next => \E p \in Peers : Step(p)
  BY DEF Next, Step

-----------------------------------------------------------------------------
\* What is on its way to x, in its three places.
LEMMA UnreadParts ==
  ASSUME Shape, NEW x \in Peers
  PROVE  /\ Users(out[x]) \in Seq(UserMessages) /\ pending[x] \in Seq(UserMessages)
         /\ Users(wire[x]) \in Seq(UserMessages) /\ Unread(x) \in Seq(UserMessages)
<1>1. wire[x] \in Seq(WireMessages) /\ out[x] \in Seq(OutMessages) /\ pending[x] \in Seq(UserMessages)
  BY DEF Shape
<1>2. /\ \A m \in WireMessages : IsUser(m) => m \in UserMessages
      /\ \A m \in OutMessages : IsUser(m) => m \in UserMessages
  BY WireMessageIs
<1>3. Users(out[x]) \in Seq(UserMessages) /\ Users(wire[x]) \in Seq(UserMessages)
  BY <1>1, <1>2, UsersIsSeq
<1> QED
  BY <1>1, <1>3, ConcatProperties DEF Unread

LEMMA Grouped ==
  ASSUME NEW S, NEW a \in Seq(S), NEW b \in Seq(S), NEW c \in Seq(S)
  PROVE  /\ a \o b \in Seq(S) /\ a \o (b \o c) = (a \o b) \o c
         /\ a \o <<>> = a /\ <<>> \o a = a
  BY ConcatProperties, ConcatAssociative, ConcatEmptySeq

LEMMA UnreadOfWire ==
  ASSUME Shape, NEW x \in Peers, NEW m \in WireMessages, wire'[x] = Append(wire[x], m),
         out'[x] = out[x], pending'[x] = pending[x]
  PROVE  Unread(x)' = IF IsUser(m) THEN Append(Unread(x), m) ELSE Unread(x)
<1>1. wire[x] \in Seq(WireMessages)
  BY DEF Shape
<1>2. Users(Append(wire[x], m)) = IF IsUser(m) THEN Append(Users(wire[x]), m) ELSE Users(wire[x])
  BY <1>1, UsersOfAppend
<1>3. Unread(x)' = Users(out[x]) \o pending[x] \o Users(Append(wire[x], m))
  BY Zenon DEF Unread
<1>4. IsUser(m) => m \in UserMessages
  BY WireMessageIs
<1>5. ASSUME NEW a \in Seq(UserMessages), NEW b \in Seq(UserMessages), m \in UserMessages
      PROVE  a \o Append(b, m) = Append(a \o b, m)
  BY <1>5
<1>6. Users(out[x]) \o pending[x] \in Seq(UserMessages) /\ Users(wire[x]) \in Seq(UserMessages)
  BY UnreadParts, Grouped
<1>7. CASE IsUser(m)
  BY <1>2, <1>3, <1>4, <1>5, <1>6, <1>7, Zenon DEF Unread
<1>8. CASE ~ IsUser(m)
  BY <1>2, <1>3, <1>8, Zenon DEF Unread
<1> QED
  BY <1>7, <1>8

LEMMA UnreadSame ==
  ASSUME NEW x \in Peers, wire'[x] = wire[x], out'[x] = out[x], pending'[x] = pending[x]
  PROVE  Unread(x)' = Unread(x)
  BY Zenon DEF Unread

LEMMA UnreadOfRead ==
  ASSUME Shape, NEW p \in Peers, Read(p)
  PROVE  Unread(p)' = Unread(p)
<1> DEFINE m == Head(wire[p])
           a == Users(out[p])
           b == Users(Tail(wire[p]))
<1>1. /\ wire[p] \in Seq(WireMessages) /\ wire[p] # <<>> /\ wire'[p] = Tail(wire[p])
      /\ Tail(wire[p]) \in Seq(WireMessages) /\ m \in WireMessages
      /\ out[p] \in Seq(OutMessages) /\ pending[p] = <<>>
  BY HeadTailProperties DEF Read, Set, Shape
<1>2. Users(wire[p]) = Kept(m) \o b
  BY <1>1, UsersOfTail
<1>3. \A n \in WireMessages : IsUser(n) => n \in UserMessages
  BY WireMessageIs
<1>4. a \in Seq(UserMessages) /\ b \in Seq(UserMessages)
  BY <1>1, <1>3, UsersIsSeq, UnreadParts
<1>5. a \o <<>> = a /\ <<>> \o b = b
  BY <1>4, Grouped
<1>6. CASE m.type = "USER_PAYLOAD"
  <2>1. pending'[p] = <<m>> /\ out'[p] = out[p]
    BY <1>6 DEF Read, Set, Shape
  <2>2. Kept(m) = <<m>> /\ <<m>> \in Seq(UserMessages)
    BY <1>1, <1>6, WireMessageIs DEF Kept
  <2>3. a \o (<<m>> \o b) = (a \o <<m>>) \o b
    BY <1>4, <2>2, Grouped
  <2> HIDE DEF m
  <2> QED
    BY <1>1, <1>2, <1>5, <2>1, <2>2, <2>3, Zenon DEF Unread
<1>7. CASE m.type # "USER_PAYLOAD"
  <2>1. pending'[p] = <<>>
    BY <1>1, <1>7 DEF Read
  <2>2. Kept(m) = <<>>
    BY <1>7 DEF Kept, IsUser
  <2>3. Users(out'[p]) = a
    <3>1. \/ out'[p] = out[p]
          \/ m.type = "SHUTDOWN_QUEUES" /\ out'[p] = Append(out[p], m)
      BY <1>7 DEF Read, Set, Shape, TryPushed
    <3>2. m.type = "SHUTDOWN_QUEUES" => m \in OutMessages
      BY <1>1, WireMessageIs DEF OutMessages
    <3>3. m.type = "SHUTDOWN_QUEUES" => Users(Append(out[p], m)) = a
      BY <1>1, <1>7, <3>2, UsersOfAppend DEF IsUser
    <3> QED
      BY <3>1, <3>3
  <2> HIDE DEF m
  <2> QED
    BY <1>1, <1>2, <1>5, <2>1, <2>2, <2>3, Zenon DEF Unread
<1> QED
  BY <1>6, <1>7

LEMMA UnreadOfEmplace ==
  ASSUME Shape, NEW p \in Peers, Emplace(p)
  PROVE  Unread(p)' = Unread(p)
<1> DEFINE a == Users(out[p])
           b == Users(wire[p])
<1>1. /\ out[p] \in Seq(OutMessages) /\ pending[p] \in Seq(UserMessages) /\ Len(pending[p]) <= 1
      /\ pending[p] # <<>> /\ out'[p] = out[p] \o pending[p] /\ pending'[p] = <<>>
      /\ wire'[p] = wire[p]
  BY DEF Emplace, Set, Shape
<1>2. PICK m \in UserMessages : pending[p] = <<m>>
  <2>1. pending[p] = <<Head(pending[p])>> /\ Head(pending[p]) \in UserMessages
    BY <1>1
  <2> QED
    BY <2>1
<1>3. m \in OutMessages /\ IsUser(m) /\ out[p] \o <<m>> = Append(out[p], m)
  BY <1>1, UserMessageIs DEF OutMessages
<1>4. Users(out'[p]) = Append(a, m)
  <2>1. Users(Append(out[p], m)) = Append(a, m)
    BY <1>1, <1>3, UsersOfAppend
  <2> QED
    BY <1>1, <1>2, <1>3, <2>1, Zenon
<1>5. a \in Seq(UserMessages) /\ b \in Seq(UserMessages) /\ Append(a, m) \in Seq(UserMessages)
  BY UnreadParts, AppendProperties
<1>6. Append(a, m) = a \o <<m>> /\ Append(a, m) \o <<>> = Append(a, m)
  BY <1>5
<1> QED
  BY <1>1, <1>2, <1>4, <1>6, Zenon DEF Unread

LEMMA UnreadOfRecv ==
  ASSUME Shape, Lives, NEW p \in Peers, Recv(p)
  PROVE  /\ Unread(p) # <<>> /\ Head(Unread(p)) = Head(out[p]) /\ Unread(p)' = Tail(Unread(p))
         /\ Head(out[p]) \in UserMessages
<1> DEFINE m == Head(out[p])
           a == Users(Tail(out[p]))
           b == pending[p]
           c == Users(wire[p])
<1>1. /\ out[p] \in Seq(OutMessages) /\ out[p] # <<>> /\ out'[p] = Tail(out[p])
      /\ pending'[p] = pending[p] /\ wire'[p] = wire[p]
  BY DEF Recv, Set, Shape
<1>2. m \in UserMessages /\ Tail(out[p]) \in Seq(OutMessages)
  BY ReceivesUser DEF Recv
<1>3. Users(out[p]) = <<m>> \o a
  BY <1>1, <1>2, UsersOfTail, UserMessageIs DEF Kept
<1>4. a \in Seq(UserMessages) /\ b \in Seq(UserMessages) /\ c \in Seq(UserMessages)
  <2>1. \A n \in OutMessages : IsUser(n) => n \in UserMessages
    BY WireMessageIs
  <2> QED
    BY <1>2, <2>1, UsersIsSeq, UnreadParts
<1>5. Unread(p) = <<m>> \o a \o b \o c /\ Unread(p)' = a \o b \o c
  <2> HIDE DEF m
  <2> QED
    BY <1>1, <1>3, Zenon DEF Unread
<1> HIDE DEF a, b, c, m
<1>6. <<m>> \o a \o b \o c = <<m>> \o (a \o b \o c) /\ a \o b \o c \in Seq(UserMessages)
  <2>1. <<m>> \in Seq(UserMessages)
    BY <1>2
  <2> QED
    BY <1>4, <2>1, Grouped
<1>7. ASSUME NEW s \in Seq(UserMessages)
      PROVE  <<m>> \o s # <<>> /\ Head(<<m>> \o s) = m /\ Tail(<<m>> \o s) = s
  BY <1>2
<1>8. PICK s \in Seq(UserMessages) : Unread(p) = <<m>> \o s /\ Unread(p)' = s
  BY <1>5, <1>6, Zenon
<1>9. Unread(p) # <<>> /\ Head(Unread(p)) = m /\ Unread(p)' = Tail(Unread(p))
  BY <1>7, <1>8, Zenon
<1> QED
  BY <1>2, <1>9 DEF m

LEMMA UnreadOfJoin ==
  ASSUME Shape, Lives, NEW p \in Peers, JoinReader(p)
  PROVE  Unread(p)' \in Seq(UserMessages) /\ Unread(p) = Users(out[p]) \o Unread(p)'
<1>1. /\ pending[p] = <<>> /\ out'[p] = <<>> /\ pending'[p] = pending[p] /\ wire'[p] = wire[p]
  BY DEF JoinReader, Set, Shape
<1>2. Users(out[p]) \in Seq(UserMessages) /\ Users(wire[p]) \in Seq(UserMessages)
  BY UnreadParts
<1>3. <<>> \o <<>> \o Users(wire[p]) = Users(wire[p]) /\ Users(out[p]) \o <<>> = Users(out[p])
  BY <1>2
<1>4. Unread(p)' = Users(wire[p])
  BY <1>1, <1>3, UsersOfEmpty, Zenon DEF Unread
<1> QED
  BY <1>1, <1>2, <1>3, <1>4, Zenon DEF Unread

\* A step either sends, receives, closes or moves messages along unseen.
Unseen(p) == \/ \E d \in BOOLEAN : SendBegin(p, d)
             \/ \E m \in UserMessages : Release(p, m)
             \/ \E i \in Ids : Ack(p, i)
             \/ ReaderStep(p) \/ HeartbeatStep(p) \/ Destroy(p)
             \/ JoinHeartbeat(p) \/ SendShutdown(p) \/ Crash(p)

LEMMA StepIs ==
  ASSUME NEW p, Step(p)
  PROVE  Unseen(p) \/ (\E m \in UserMessages : Send(p, m)) \/ Recv(p) \/ JoinReader(p)
  BY DEF Unseen, Step, UserStep, DestructorStep

LEMMA PutUnread ==
  ASSUME Shape, NEW q \in Peers, NEW m \in WireMessages, Put(q, m), UNCHANGED <<out, pending>>,
         NEW x \in Peers
  PROVE  Unread(x)' = IF x = q /\ IsUser(m) THEN Append(Unread(x), m) ELSE Unread(x)
<1>1. wire'[q] = Append(wire[q], m) /\ (x # q => wire'[x] = wire[x])
  BY PutIsTyped
<1>2. out'[x] = out[x] /\ pending'[x] = pending[x]
  OBVIOUS
<1>3. CASE x = q
  BY <1>1, <1>2, <1>3, UnreadOfWire
<1>4. CASE x # q
  BY <1>1, <1>2, <1>4, UnreadSame
<1> QED
  BY <1>3, <1>4

LEMMA UnreadKept ==
  ASSUME Shape, NEW p \in Peers, Unseen(p), NEW x \in Peers
  PROVE  Unread(x)' = Unread(x)
<1>1. CASE UNCHANGED <<wire, out, pending>>
  BY <1>1, UnreadSame
<1>2. CASE (\E d \in BOOLEAN : SendBegin(p, d)) \/ \E m \in UserMessages : Release(p, m)
  BY <1>1, <1>2 DEF SendBegin, Release
<1>3. CASE Timeout(p) \/ HeartbeatWake(p) \/ Destroy(p) \/ JoinHeartbeat(p) \/ Crash(p)
  BY <1>1, <1>3 DEF Timeout, HeartbeatWake, Destroy, JoinHeartbeat, Crash
<1>4. ASSUME NEW q \in Peers, NEW m \in WireMessages, ~ IsUser(m), Put(q, m), UNCHANGED <<out, pending>>
      PROVE  Unread(x)' = Unread(x)
  BY <1>4, PutUnread
<1>5. ASSUME NEW i \in Ids, Ack(p, i) PROVE Unread(x)' = Unread(x)
  BY <1>4, <1>5, Others, WireMessageIs, MessageKinds DEF Ack
<1>6. CASE HeartbeatSend(p)
  BY <1>4, <1>6, Others, WireMessageIs, MessageKinds DEF HeartbeatSend
<1>7. CASE SendShutdown(p)
  BY <1>4, <1>7, WireMessageIs, MessageKinds DEF SendShutdown
<1>8. CASE Read(p)
  <2>1. x # p => wire'[x] = wire[x] /\ out'[x] = out[x] /\ pending'[x] = pending[x]
    BY <1>8 DEF Read, Set, Shape
  <2> QED
    BY <1>8, <2>1, UnreadOfRead, UnreadSame
<1>9. CASE Emplace(p)
  <2>1. x # p => wire'[x] = wire[x] /\ out'[x] = out[x] /\ pending'[x] = pending[x]
    BY <1>9 DEF Emplace, Set, Shape
  <2> QED
    BY <1>9, <2>1, UnreadOfEmplace, UnreadSame
<1> QED
  BY <1>2, <1>3, <1>5, <1>6, <1>7, <1>8, <1>9 DEF Unseen, ReaderStep, HeartbeatStep

LEMMA UnreadOfSend ==
  ASSUME Shape, NEW p \in Peers, NEW m \in UserMessages, Send(p, m)
  PROVE  Unread(Other(p))' = Append(Unread(Other(p)), m) /\ Unread(p)' = Unread(p)
<1>1. /\ Put(Other(p), m) /\ m \in WireMessages /\ IsUser(m) /\ UNCHANGED <<out, pending>>
      /\ Other(p) \in Peers /\ Other(p) # p
  BY Others, WireMessageIs, UserMessageIs DEF Send
<1> QED
  BY <1>1, PutUnread

LEMMA UnreadElsewhere ==
  ASSUME Shape, NEW p \in Peers, Recv(p) \/ JoinReader(p), NEW x \in Peers, x # p
  PROVE  Unread(x)' = Unread(x)
<1>1. wire'[x] = wire[x] /\ out'[x] = out[x] /\ pending'[x] = pending[x]
  BY DEF Recv, JoinReader, Set, Shape
<1> QED
  BY <1>1, UnreadSame

-----------------------------------------------------------------------------
\* Where a message of p that moved something can be, with its DONE.
Moved(i)      == User(i, TRUE)
Waits(p, i)   == Moved(i) \in sending[p]
Comes(p, i)   == Has(Unread(Other(p)), Moved(i))
InUse(p, i)   == Moved(i) \in held[Other(p)]
Acked(p, i)   == i \in acking[Other(p)]
Returns(p, i) == Has(wire[p], Done(i))

Somewhere(p, i) == Waits(p, i) \/ Comes(p, i) \/ InUse(p, i) \/ Acked(p, i) \/ Returns(p, i)

InOnePlace(p, i) ==
  /\ Waits(p, i) => ~ (Comes(p, i) \/ InUse(p, i) \/ Acked(p, i) \/ Returns(p, i))
  /\ Comes(p, i) => ~ (InUse(p, i) \/ Acked(p, i) \/ Returns(p, i))
  /\ InUse(p, i) => ~ (Acked(p, i) \/ Returns(p, i))
  /\ Acked(p, i) => ~ Returns(p, i)
  /\ Once(Unread(Other(p)), Moved(i))
  /\ Once(wire[p], Done(i))

\* Something is in the table while its message or its DONE is somewhere, and
\* while the receiver is there, only then.
Tracked(p, i) ==
  /\ Somewhere(p, i) => i \in inTransit[p]
  /\ i \in inTransit[p] /\ life[Other(p)] # "closed" => Somewhere(p, i)
  /\ i \in inTransit[p] => i <= sent[p]
  /\ InOnePlace(p, i)

Transit == \A p \in Peers : \A i \in Ids : Tracked(p, i)

\* A step that a message is indifferent to.
Indifferent(p, i) ==
  /\ Waits(p, i)' <=> Waits(p, i)
  /\ Comes(p, i)' <=> Comes(p, i)
  /\ InUse(p, i)' <=> InUse(p, i)
  /\ Acked(p, i)' <=> Acked(p, i)
  /\ Returns(p, i)' <=> Returns(p, i)
  /\ Once(Unread(Other(p)), Moved(i)) => Once(Unread(Other(p)), Moved(i))'
  /\ Once(wire[p], Done(i)) => Once(wire[p], Done(i))'
  /\ i \in inTransit'[p] <=> i \in inTransit[p]

LEMMA SentGrows ==
  ASSUME Shape, NEW r \in Peers, Step(r), NEW p \in Peers
  PROVE  /\ sent[p] \in Nat /\ sent'[p] \in Nat /\ sent[p] <= sent'[p]
         /\ life'[p] # "closed" => life[p] # "closed"
<1>1. sent[p] \in Nat
  BY DEF Shape
<1>2. CASE \E d \in BOOLEAN : SendBegin(r, d)
  <2>1. life' = life /\ (sent'[p] = sent[p] + 1 \/ sent'[p] = sent[p])
    BY <1>2 DEF SendBegin, Set, Shape
  <2> QED
    BY <1>1, <2>1
<1>3. CASE (\E m \in UserMessages : Send(r, m) \/ Release(r, m)) \/ (\E i \in Ids : Ack(r, i)) \/ Recv(r)
  <2>1. UNCHANGED <<sent, life>>
    BY <1>3 DEF Send, Release, Ack, Recv
  <2> QED
    BY <1>1, <2>1
<1>4. CASE ReaderStep(r) \/ HeartbeatStep(r) \/ Crash(r)
  <2>1. UNCHANGED <<sent, life>>
    BY <1>4 DEF ReaderStep, HeartbeatStep, Read, Emplace, Timeout, HeartbeatWake, HeartbeatSend,
                Crash, user
  <2> QED
    BY <1>1, <2>1
<1>5. CASE Destroy(r) \/ DestructorStep(r)
  BY <1>1, <1>5 DEF Destroy, DestructorStep, JoinHeartbeat, SendShutdown, JoinReader, user, Set, Shape
<1> QED
  BY <1>2, <1>3, <1>4, <1>5 DEF Step, UserStep

LEMMA IndifferentIsTracked ==
  ASSUME Shape, NEW r \in Peers, Step(r), NEW p \in Peers, NEW i \in Ids,
         Tracked(p, i), Indifferent(p, i)
  PROVE  Tracked(p, i)'
<1>1. sent[p] \in Nat /\ sent'[p] \in Nat /\ sent[p] <= sent'[p] /\ i \in Nat
  BY SentGrows, MessagesAssumption DEF Ids
<1>2. life'[Other(p)] # "closed" => life[Other(p)] # "closed"
  BY Others, SentGrows
<1>3. i \in inTransit[p] => i <= sent'[p]
  BY <1>1 DEF Tracked
<1> QED
  BY <1>2, <1>3 DEF Tracked, Indifferent, Somewhere, InOnePlace

\* The wire that DONE messages come back on.
LEMMA PutDone ==
  ASSUME Shape, NEW y \in Peers, NEW m \in WireMessages, Put(y, m), NEW p \in Peers, NEW i \in Ids
  PROVE  /\ ~ (p = y /\ m = Done(i))
              => /\ Has(wire'[p], Done(i)) <=> Has(wire[p], Done(i))
                 /\ Once(wire[p], Done(i)) => Once(wire'[p], Done(i))
         /\ p = y /\ m = Done(i)
              => /\ Has(wire'[p], Done(i))
                 /\ Once(wire[p], Done(i)) /\ ~ Has(wire[p], Done(i)) => Once(wire'[p], Done(i))
<1>1. wire'[y] = Append(wire[y], m) /\ (p # y => wire'[p] = wire[p]) /\ wire[y] \in Seq(WireMessages)
  BY PutIsTyped DEF Shape
<1>2. /\ Has(Append(wire[y], m), Done(i)) <=> Has(wire[y], Done(i)) \/ Done(i) = m
      /\ Once(wire[y], Done(i)) /\ ~ (Done(i) = m /\ Has(wire[y], Done(i)))
           => Once(Append(wire[y], m), Done(i))
  BY <1>1, HasAppend
<1> QED
  BY <1>1, <1>2

\* A step of the sender itself.
LEMMA TrackedBySender ==
  ASSUME Shape, Lives, NEW p \in Peers, Step(p), NEW i \in Ids, Tracked(p, i)
  PROVE  Tracked(p, i)'
<1> DEFINE q == Other(p)
<1>1. q \in Peers /\ q # p /\ Only(p) /\ Shape'
  BY Others, ShapeStep
<1>2. InUse(p, i)' = InUse(p, i) /\ Acked(p, i)' = Acked(p, i)
  BY <1>1 DEF Only, InUse, Acked
<1>3. ASSUME Unseen(p) \/ Recv(p) \/ JoinReader(p)
      PROVE  Unread(q)' = Unread(q)
  BY <1>1, <1>3, UnreadKept, UnreadElsewhere
<1>4. ASSUME Unread(q)' = Unread(q)
      PROVE  /\ Comes(p, i)' <=> Comes(p, i)
             /\ Once(Unread(q), Moved(i))' <=> Once(Unread(q), Moved(i))
  BY <1>4 DEF Comes, Has, Once
<1>5. ASSUME wire'[p] = wire[p]
      PROVE  /\ Returns(p, i)' <=> Returns(p, i)
             /\ Once(wire[p], Done(i))' <=> Once(wire[p], Done(i))
  BY <1>5 DEF Returns
<1>6. ASSUME NEW d \in BOOLEAN, SendBegin(p, d) PROVE Tracked(p, i)'
  <2>1. Unread(q)' = Unread(q) /\ wire' = wire /\ life' = life
    BY <1>3, <1>6 DEF Unseen, SendBegin
  <2>2. /\ sending'[p] = sending[p] \cup {User(sent[p] + 1, d)} /\ sent'[p] = sent[p] + 1
        /\ inTransit'[p] = IF d THEN inTransit[p] \cup {sent[p] + 1} ELSE inTransit[p]
    BY <1>6 DEF SendBegin, Set, Shape
  <2>3. CASE d /\ i = sent[p] + 1
    <3>1. sent[p] \in Nat /\ ~ (sent[p] + 1 <= sent[p]) /\ sent[p] + 1 <= sent[p] + 1
      BY DEF Shape
    <3>2. i \notin inTransit[p] /\ i <= sent'[p]
      BY <2>2, <2>3, <3>1 DEF Tracked
    <3>3. ~ Somewhere(p, i)
      BY <3>2 DEF Tracked
    <3>4. Waits(p, i)' /\ i \in inTransit'[p]
      BY <2>2, <2>3 DEF Waits, Moved
    <3> QED
      BY <1>2, <1>4, <1>5, <2>1, <3>2, <3>3, <3>4 DEF Tracked, Somewhere, InOnePlace
  <2>4. CASE ~ (d /\ i = sent[p] + 1)
    <3>1. Moved(i) # User(sent[p] + 1, d)
      <4>1. Moved(i).id = i /\ Moved(i).done = TRUE
        BY DEF Moved, User, Msg
      <4>2. User(sent[p] + 1, d).id = sent[p] + 1 /\ User(sent[p] + 1, d).done = d
        BY DEF User, Msg
      <4> QED
        BY <2>4, <4>1, <4>2
    <3>2. Waits(p, i)' <=> Waits(p, i)
      BY <2>2, <3>1 DEF Waits
    <3>3. i \in inTransit'[p] <=> i \in inTransit[p]
      BY <2>2, <2>4
    <3>4. Indifferent(p, i)
      BY <1>2, <1>4, <1>5, <2>1, <3>2, <3>3 DEF Indifferent
    <3> QED
      BY <3>4, IndifferentIsTracked
  <2> QED
    BY <2>3, <2>4
<1>7. ASSUME NEW m \in UserMessages, Send(p, m) PROVE Tracked(p, i)'
  <2>1. Unread(q)' = Append(Unread(q), m) /\ Unread(q) \in Seq(UserMessages)
    BY <1>1, <1>7, UnreadOfSend, UnreadParts
  <2>2. wire'[p] = wire[p]
    BY <1>1, <1>7, PutIsTyped, WireMessageIs DEF Send
  <2>3. /\ sending'[p] = sending[p] \ {m} /\ m \in sending[p]
        /\ UNCHANGED <<inTransit, sent, life>>
    BY <1>7 DEF Send, Set, Shape
  <2>4. /\ Has(Append(Unread(q), m), Moved(i)) <=> Has(Unread(q), Moved(i)) \/ Moved(i) = m
        /\ Once(Unread(q), Moved(i)) /\ ~ (Moved(i) = m /\ Has(Unread(q), Moved(i)))
             => Once(Append(Unread(q), m), Moved(i))
    BY <2>1, HasAppend
  <2>5. CASE m = Moved(i)
    <3>1. Waits(p, i) /\ ~ Waits(p, i)' /\ Comes(p, i)'
      BY <2>1, <2>3, <2>4, <2>5 DEF Waits, Comes
    <3>2. ~ Comes(p, i) /\ Once(Unread(q), Moved(i))'
      BY <2>1, <2>4, <3>1 DEF Tracked, InOnePlace, Comes
    <3> QED
      BY <1>2, <1>5, <2>2, <2>3, <3>1, <3>2 DEF Tracked, Somewhere, InOnePlace
  <2>6. CASE m # Moved(i)
    <3>1. Waits(p, i)' <=> Waits(p, i)
      BY <2>3, <2>6 DEF Waits
    <3>2. /\ Comes(p, i)' <=> Comes(p, i)
          /\ Once(Unread(q), Moved(i)) => Once(Unread(q), Moved(i))'
      BY <2>1, <2>4, <2>6 DEF Comes
    <3>3. Indifferent(p, i)
      BY <1>2, <1>5, <2>2, <2>3, <3>1, <3>2 DEF Indifferent
    <3> QED
      BY <3>3, IndifferentIsTracked
  <2> QED
    BY <2>5, <2>6
<1>8. ASSUME wire'[p] = wire[p], Unread(q)' = Unread(q), UNCHANGED <<inTransit, sending>>
      PROVE  Tracked(p, i)'
  <2>1. Indifferent(p, i)
    BY <1>2, <1>4, <1>5, <1>8 DEF Indifferent, Waits
  <2> QED
    BY <2>1, IndifferentIsTracked
<1>9. ASSUME NEW j \in Ids, Ack(p, j) PROVE Tracked(p, i)'
  <2>1. wire'[p] = wire[p]
    BY <1>1, <1>9, PutIsTyped, WireMessageIs DEF Ack
  <2> QED
    BY <1>3, <1>8, <1>9, <2>1 DEF Unseen, Ack
<1>10. CASE HeartbeatSend(p)
  <2>1. wire'[p] = wire[p]
    BY <1>1, <1>10, PutIsTyped, WireMessageIs DEF HeartbeatSend
  <2> QED
    BY <1>3, <1>8, <1>10, <2>1 DEF Unseen, HeartbeatStep, HeartbeatSend, user
<1>11. CASE SendShutdown(p)
  <2>1. /\ Has(wire'[p], Done(i)) <=> Has(wire[p], Done(i))
        /\ Once(wire[p], Done(i)) => Once(wire'[p], Done(i))
    BY <1>11, PutDone, WireMessageIs, MessageKinds DEF SendShutdown
  <2>2. Indifferent(p, i)
    BY <1>2, <1>3, <1>4, <1>11, <2>1 DEF Indifferent, Waits, Returns, Unseen, SendShutdown, user
  <2> QED
    BY <2>2, IndifferentIsTracked
<1>12. CASE Read(p)
  <2> DEFINE h == Head(wire[p])
  <2>1. /\ wire[p] \in Seq(WireMessages) /\ wire[p] # <<>> /\ wire'[p] = Tail(wire[p])
        /\ h \in WireMessages /\ UNCHANGED <<sent, sending, life>>
    BY <1>12, HeadTailProperties DEF Read, Set, Shape, user
  <2>2. Unread(q)' = Unread(q)
    BY <1>3, <1>12 DEF Unseen, ReaderStep
  <2>3. /\ Has(wire[p], h)
        /\ Done(i) # h => (Has(Tail(wire[p]), Done(i)) <=> Has(wire[p], Done(i)))
        /\ Once(wire[p], Done(i)) => Once(Tail(wire[p]), Done(i))
        /\ Once(wire[p], h) => ~ Has(Tail(wire[p]), h)
    BY <2>1, HasTail
  <2>4. Waits(p, i)' <=> Waits(p, i)
    BY <2>1 DEF Waits
  <2>5. CASE h = Done(i)
    <3>1. Returns(p, i) /\ ~ Returns(p, i)' /\ Once(wire[p], Done(i))'
      BY <2>1, <2>3, <2>5 DEF Returns, Tracked, InOnePlace
    <3>2. ~ (Waits(p, i) \/ Comes(p, i) \/ InUse(p, i) \/ Acked(p, i))
      BY <3>1 DEF Tracked, InOnePlace
    <3>3. inTransit'[p] = inTransit[p] \ {i}
      <4>1. h.type = "DONE" /\ h.id = i
        BY <2>5 DEF Done, Msg
      <4> QED
        BY <1>12, <4>1 DEF Read, Set, Shape
    <3> QED
      BY <1>2, <1>4, <2>2, <2>4, <3>1, <3>2, <3>3 DEF Tracked, Somewhere, InOnePlace
  <2>6. CASE h # Done(i)
    <3>1. i \in inTransit'[p] <=> i \in inTransit[p]
      <4>1. h.type = "DONE" => h.id # i
        BY <2>1, <2>6, WireMessageIs
      <4>2. \/ inTransit' = inTransit
            \/ h.type = "DONE" /\ inTransit'[p] = inTransit[p] \ {h.id}
        BY <1>12 DEF Read, Set, Shape
      <4> QED
        BY <4>1, <4>2
    <3>2. Indifferent(p, i)
      BY <1>2, <1>4, <2>1, <2>2, <2>3, <2>4, <2>6, <3>1 DEF Indifferent, Returns
    <3> QED
      BY <3>2, IndifferentIsTracked
  <2> QED
    BY <2>5, <2>6
<1>13. CASE (\E m \in UserMessages : Release(p, m)) \/ Recv(p)
  BY <1>3, <1>8, <1>13 DEF Unseen, Release, Recv
<1>14. CASE Emplace(p) \/ Timeout(p) \/ HeartbeatWake(p)
  <2>1. Unseen(p)
    BY <1>14 DEF Unseen, ReaderStep, HeartbeatStep
  <2> QED
    BY <1>3, <1>8, <1>14, <2>1 DEF Emplace, Timeout, HeartbeatWake, user
<1>15. CASE Destroy(p) \/ JoinHeartbeat(p) \/ JoinReader(p) \/ Crash(p)
  <2>1. Unseen(p) \/ JoinReader(p)
    BY <1>15 DEF Unseen
  <2> QED
    BY <1>3, <1>8, <1>15, <2>1 DEF Destroy, JoinHeartbeat, JoinReader, Crash, user
<1> QED
  BY <1>6, <1>7, <1>9, <1>10, <1>11, <1>12, <1>13, <1>14, <1>15
     DEF Step, UserStep, ReaderStep, HeartbeatStep, DestructorStep

\* A step of the receiver.
LEMMA TrackedByReceiver ==
  ASSUME Shape, Lives, NEW p \in Peers, Step(Other(p)), NEW i \in Ids, Tracked(p, i)
  PROVE  Tracked(p, i)'
<1> DEFINE q == Other(p)
<1>1. q \in Peers /\ q # p /\ Other(q) = p /\ Only(q) /\ Shape'
  BY Others, ShapeStep
<1>2. /\ Waits(p, i)' = Waits(p, i) /\ inTransit'[p] = inTransit[p] /\ sent'[p] = sent[p]
  BY <1>1 DEF Only, Waits
<1>3. ASSUME Unseen(q)
      PROVE  Unread(q)' = Unread(q)
  BY <1>1, <1>3, UnreadKept
<1>4. ASSUME Unread(q)' = Unread(q)
      PROVE  /\ Comes(p, i)' <=> Comes(p, i)
             /\ Once(Unread(q), Moved(i))' <=> Once(Unread(q), Moved(i))
  BY <1>4 DEF Comes, Has, Once
<1>5. ASSUME wire'[p] = wire[p]
      PROVE  /\ Returns(p, i)' <=> Returns(p, i)
             /\ Once(wire[p], Done(i))' <=> Once(wire[p], Done(i))
  BY <1>5 DEF Returns
<1>6. ASSUME UNCHANGED <<held, acking>>
      PROVE  InUse(p, i)' = InUse(p, i) /\ Acked(p, i)' = Acked(p, i)
  BY <1>6 DEF InUse, Acked
<1>7. ASSUME wire'[p] = wire[p], Unread(q)' = Unread(q), UNCHANGED <<held, acking>>
      PROVE  Tracked(p, i)'
  <2>1. Indifferent(p, i)
    BY <1>2, <1>4, <1>5, <1>6, <1>7 DEF Indifferent
  <2> QED
    BY <1>1, <2>1, IndifferentIsTracked
<1>8. ASSUME NEW m \in WireMessages, m # Done(i), Put(p, m), Unread(q)' = Unread(q),
             UNCHANGED <<held, acking>>
      PROVE  Tracked(p, i)'
  <2>1. /\ Has(wire'[p], Done(i)) <=> Has(wire[p], Done(i))
        /\ Once(wire[p], Done(i)) => Once(wire'[p], Done(i))
    BY <1>8, PutDone
  <2>2. Indifferent(p, i)
    BY <1>2, <1>4, <1>6, <1>8, <2>1 DEF Indifferent, Returns
  <2> QED
    BY <1>1, <2>2, IndifferentIsTracked
<1>9. ASSUME NEW m \in UserMessages, Send(q, m) PROVE Tracked(p, i)'
  <2>1. m \in WireMessages /\ m # Done(i)
    BY WireMessageIs, UserMessageIs, MessageKinds
  <2>2. Unread(q)' = Unread(q)
    BY <1>1, <1>9, UnreadOfSend
  <2> QED
    BY <1>1, <1>8, <1>9, <2>1, <2>2 DEF Send
<1>10. CASE HeartbeatSend(q)
  <2>1. Heartbeat \in WireMessages /\ Heartbeat # Done(i)
    BY WireMessageIs, MessageKinds
  <2> QED
    BY <1>1, <1>3, <1>8, <1>10, <2>1 DEF Unseen, HeartbeatStep, HeartbeatSend, user
<1>11. CASE SendShutdown(q)
  <2>1. wire'[p] = wire[p]
    BY <1>1, <1>11, PutIsTyped, WireMessageIs DEF SendShutdown
  <2> QED
    BY <1>3, <1>7, <1>11, <2>1 DEF Unseen, SendShutdown, user
<1>12. ASSUME NEW j \in Ids, Ack(q, j) PROVE Tracked(p, i)'
  <2>1. /\ Put(p, Done(j)) /\ Done(j) \in WireMessages /\ Unread(q)' = Unread(q)
        /\ j \in acking[q] /\ acking'[q] = acking[q] \ {j} /\ UNCHANGED <<held, life>>
    BY <1>1, <1>3, <1>12, WireMessageIs DEF Unseen, Ack, Set, Shape
  <2>2. InUse(p, i)' <=> InUse(p, i)
    BY <2>1 DEF InUse
  <2>3. CASE j = i
    <3>1. Acked(p, i) /\ ~ Acked(p, i)'
      BY <2>1, <2>3 DEF Acked
    <3>2. ~ Returns(p, i) /\ Once(wire[p], Done(i))
      BY <3>1 DEF Tracked, InOnePlace
    <3>3. Returns(p, i)' /\ Once(wire[p], Done(i))'
      BY <2>1, <2>3, <3>2, PutDone DEF Returns
    <3> QED
      BY <1>2, <1>4, <2>1, <2>2, <3>1, <3>3 DEF Tracked, Somewhere, InOnePlace
  <2>4. CASE j # i
    <3>1. Done(j) # Done(i)
      BY <2>4, MessageKinds
    <3>2. /\ Has(wire'[p], Done(i)) <=> Has(wire[p], Done(i))
          /\ Once(wire[p], Done(i)) => Once(wire'[p], Done(i))
      BY <2>1, <3>1, PutDone
    <3>3. Acked(p, i)' <=> Acked(p, i)
      BY <2>1, <2>4 DEF Acked
    <3>4. Indifferent(p, i)
      BY <1>2, <1>4, <2>1, <2>2, <3>2, <3>3 DEF Indifferent, Returns
    <3> QED
      BY <1>1, <3>4, IndifferentIsTracked
  <2> QED
    BY <2>3, <2>4
<1>13. ASSUME NEW m \in UserMessages, Release(q, m) PROVE Tracked(p, i)'
  <2>1. /\ wire'[p] = wire[p] /\ Unread(q)' = Unread(q) /\ life' = life
        /\ m \in held[q] /\ held'[q] = held[q] \ {m}
        /\ acking'[q] = IF m.done THEN acking[q] \cup {m.id} ELSE acking[q]
    BY <1>1, <1>3, <1>13 DEF Unseen, Release, Set, Shape
  <2>2. CASE m = Moved(i)
    <3>1. m.done /\ m.id = i
      BY <2>2 DEF Moved, User, Msg
    <3>2. InUse(p, i) /\ ~ InUse(p, i)' /\ Acked(p, i)'
      BY <2>1, <2>2, <3>1 DEF InUse, Acked
    <3> QED
      BY <1>2, <1>4, <1>5, <2>1, <3>2 DEF Tracked, Somewhere, InOnePlace
  <2>3. CASE m # Moved(i)
    <3>1. m.done => m.id # i
      BY <2>3, UserMessageIs, Zenon DEF Moved
    <3>2. (InUse(p, i)' <=> InUse(p, i)) /\ (Acked(p, i)' <=> Acked(p, i))
      BY <2>1, <2>3, <3>1 DEF InUse, Acked
    <3>3. Indifferent(p, i)
      BY <1>2, <1>4, <1>5, <2>1, <3>2 DEF Indifferent
    <3> QED
      BY <1>1, <3>3, IndifferentIsTracked
  <2> QED
    BY <2>2, <2>3
<1>14. CASE Recv(q)
  <2> DEFINE h == Head(out[q])
  <2>1. /\ wire'[p] = wire[p] /\ life' = life /\ acking' = acking
        /\ held'[q] = held[q] \cup {h}
    BY <1>1, <1>14 DEF Recv, Set, Shape
  <2>2. /\ Unread(q) # <<>> /\ Head(Unread(q)) = h /\ Unread(q)' = Tail(Unread(q))
        /\ Unread(q) \in Seq(UserMessages)
    BY <1>1, <1>14, UnreadOfRecv, UnreadParts
  <2>3. /\ Has(Unread(q), Head(Unread(q)))
        /\ Moved(i) # Head(Unread(q)) => (Has(Tail(Unread(q)), Moved(i)) <=> Has(Unread(q), Moved(i)))
        /\ Once(Unread(q), Moved(i)) => Once(Tail(Unread(q)), Moved(i))
        /\ Once(Unread(q), Head(Unread(q))) => ~ Has(Tail(Unread(q)), Head(Unread(q)))
    BY <2>2, HasTail
  <2>4. Acked(p, i)' <=> Acked(p, i)
    BY <2>1 DEF Acked
  <2> HIDE DEF h
  <2>5. CASE h = Moved(i)
    <3>1. Comes(p, i) /\ ~ Comes(p, i)' /\ Once(Unread(q), Moved(i))'
      BY <2>2, <2>3, <2>5, Zenon DEF Comes, Tracked, InOnePlace
    <3>2. InUse(p, i)'
      BY <2>1, <2>5 DEF InUse
    <3> QED
      BY <1>2, <1>5, <2>1, <2>4, <3>1, <3>2 DEF Tracked, Somewhere, InOnePlace
  <2>6. CASE h # Moved(i)
    <3>1. /\ Comes(p, i)' <=> Comes(p, i)
          /\ Once(Unread(q), Moved(i)) => Once(Unread(q), Moved(i))'
      BY <2>2, <2>3, <2>6, Zenon DEF Comes
    <3>2. InUse(p, i)' <=> InUse(p, i)
      BY <2>1, <2>6 DEF InUse
    <3>3. Indifferent(p, i)
      BY <1>2, <1>5, <2>1, <2>4, <3>1, <3>2 DEF Indifferent
    <3> QED
      BY <1>1, <3>3, IndifferentIsTracked
  <2> QED
    BY <2>5, <2>6
<1>15. CASE JoinReader(q)
  <2>1. wire'[p] = wire[p] /\ UNCHANGED <<held, acking>> /\ life'[q] = "closed"
    BY <1>1, <1>15 DEF JoinReader, Set, Shape, user
  <2>2. /\ Users(out[q]) \in Seq(UserMessages) /\ Unread(q)' \in Seq(UserMessages)
        /\ Unread(q) = Users(out[q]) \o Unread(q)'
    BY <1>1, <1>15, UnreadOfJoin, UnreadParts
  <2>3. /\ Comes(p, i)' => Comes(p, i)
        /\ Once(Unread(q), Moved(i)) => Once(Unread(q), Moved(i))'
    <3>1. PICK a \in Seq(UserMessages), b \in Seq(UserMessages) : a = Users(out[q]) /\ b = Unread(q)'
      BY <2>2
    <3>2. Unread(q) = a \o b
      BY <2>2, <3>1, Zenon
    <3>3. /\ Has(b, Moved(i)) => Has(a \o b, Moved(i))
          /\ Once(a \o b, Moved(i)) => Once(b, Moved(i))
      BY HasSuffix
    <3> QED
      BY <3>1, <3>2, <3>3, Zenon DEF Comes
  <2> QED
    BY <1>2, <1>5, <1>6, <2>1, <2>3 DEF Tracked, Somewhere, InOnePlace
<1>16. CASE Read(q)
  <2>1. wire'[p] = wire[p] /\ UNCHANGED <<held, acking>> /\ Unseen(q)
    BY <1>1, <1>16 DEF Read, Set, Shape, user, Unseen, ReaderStep
  <2> QED
    BY <1>3, <1>7, <2>1
<1>17. CASE (\E d \in BOOLEAN : SendBegin(q, d)) \/ Emplace(q) \/ Timeout(q) \/ HeartbeatWake(q)
  <2>1. Unseen(q)
    BY <1>17 DEF Unseen, ReaderStep, HeartbeatStep
  <2> QED
    BY <1>3, <1>7, <1>17, <2>1 DEF SendBegin, Emplace, Timeout, HeartbeatWake, user
<1>18. CASE Destroy(q) \/ JoinHeartbeat(q) \/ Crash(q)
  BY <1>3, <1>7, <1>18 DEF Unseen, Destroy, JoinHeartbeat, Crash, user
<1> QED
  BY <1>1, <1>9, <1>10, <1>11, <1>12, <1>13, <1>14, <1>15, <1>16, <1>17, <1>18
     DEF Step, UserStep, ReaderStep, HeartbeatStep, DestructorStep

LEMMA TransitStep ==
  ASSUME Shape, Lives, Transit, NEW r \in Peers, Step(r)
  PROVE  Transit'
<1>1. ASSUME NEW p \in Peers, NEW i \in Ids
      PROVE  Tracked(p, i)'
  <2>1. Tracked(p, i) /\ (r = p \/ r = Other(p))
    BY Others DEF Transit
  <2> QED
    BY <2>1, TrackedBySender, TrackedByReceiver
<1> QED
  BY <1>1 DEF Transit

LEMMA InitTransit == Init => Transit
<1> SUFFICES ASSUME Init, NEW p \in Peers, NEW i \in Ids
             PROVE  Tracked(p, i)
  BY DEF Transit
<1>1. Other(p) \in Peers
  BY Others
<1>2. /\ wire[p] = <<>> /\ wire[Other(p)] = <<>> /\ out[Other(p)] = <<>> /\ pending[Other(p)] = <<>>
      /\ sending[p] = {} /\ held[Other(p)] = {} /\ acking[Other(p)] = {} /\ inTransit[p] = {}
  BY <1>1 DEF Init
<1>3. <<>> \o <<>> \o <<>> = <<>>
  OBVIOUS
<1>4. Unread(Other(p)) = <<>>
  BY <1>2, <1>3, UsersOfEmpty, Zenon DEF Unread
<1>5. \A m : ~ Has(<<>>, m) /\ Once(<<>>, m)
  BY DEF Has, Once
<1> QED
  BY <1>2, <1>4, <1>5 DEF Tracked, Somewhere, InOnePlace, Waits, Comes, InUse, Acked, Returns

\* What the theorems follow from.
IInv == Shape /\ Lives /\ Transit

LEMMA Invariant == SafeSpec => []IInv
<1>1. Init => IInv
  BY InitShape, InitLives, InitTransit DEF IInv
<1>2. IInv /\ [Next]_vars => IInv'
  <2>1. ASSUME IInv, NEW p \in Peers, Step(p) PROVE IInv'
    BY <2>1, ShapeStep, LivesStep, TransitStep DEF IInv
  <2>2. ASSUME UNCHANGED vars PROVE IInv' = IInv
    BY <2>2 DEF vars, user, IInv, Shape, Lives, Quiet, Asked, Exits, Closes, Transit, Tracked, Somewhere,
                InOnePlace, Waits, Comes, InUse, Acked, Returns, Unread
  <2> QED
    BY <2>1, <2>2, NextIs
<1> QED
  BY <1>1, <1>2, PTL DEF SafeSpec

\* Every variable stays in its type: no queue holds more than MaxQueueSize
\* messages, and only user messages get to users.
THEOREM TypeCorrect == SafeSpec => []TypeOK
<1>1. IInv => TypeOK
  BY ShapeIsTyped DEF IInv
<1> QED
  BY <1>1, Invariant, PTL

\* The sets that the properties speak of.
LEMMA Places ==
  ASSUME Shape, NEW p \in Peers
  PROVE  /\ Unsent(p) = {i \in Ids : Waits(p, i)}
         /\ Arriving(Other(p)) = {i \in Ids : Comes(p, i)}
         /\ Using(Other(p)) = {i \in Ids : InUse(p, i)}
         /\ acking[Other(p)] = {i \in Ids : Acked(p, i)}
         /\ DonesTo(p) = {i \in Ids : Returns(p, i)}
<1>1. /\ sending[p] \in SUBSET UserMessages /\ held[Other(p)] \in SUBSET UserMessages
      /\ acking[Other(p)] \in SUBSET Ids
  BY Others DEF Shape
<1>2. ASSUME NEW H \in SUBSET UserMessages
      PROVE  {m.id : m \in {n \in H : n.done}} = {i \in Ids : Moved(i) \in H}
  <2>1. ASSUME NEW m \in H, m.done PROVE m.id \in Ids /\ Moved(m.id) = m
    <3>1. m.id \in Ids /\ m.done = TRUE /\ m = User(m.id, m.done)
      BY <2>1, UserMessageIs
    <3> QED
      BY <3>1 DEF Moved
  <2>2. ASSUME NEW i \in Ids, Moved(i) \in H
        PROVE  Moved(i) \in {n \in H : n.done} /\ Moved(i).id = i
    BY <2>2 DEF Moved, User, Msg
  <2> QED
    BY <2>1, <2>2
<1>3. Unsent(p) = {i \in Ids : Waits(p, i)} /\ Using(Other(p)) = {i \in Ids : InUse(p, i)}
  BY <1>1, <1>2, Zenon DEF Unsent, Using, Waits, InUse
<1>4. Arriving(Other(p)) = {i \in Ids : Comes(p, i)} /\ DonesTo(p) = {i \in Ids : Returns(p, i)}
  BY Zenon DEF Arriving, DonesTo, Comes, Returns, Has, Moved
<1> QED
  BY <1>1, <1>3, <1>4 DEF Acked

LEMMA PlacesAreTracked ==
  ASSUME IInv, NEW p \in Peers, NEW i \in Ids
  PROVE  Tracked(p, i)
  BY DEF IInv, Transit

\* What a message moves stays in scope in the sending process while the
\* message waits, is on its way or is held by the other side.
THEOREM PayloadsHeld == SafeSpec => []PayloadsStayInScope
<1>1. ASSUME IInv PROVE PayloadsStayInScope
  <2>1. ASSUME NEW p \in Peers, NEW i \in Ids, Waits(p, i) \/ Comes(p, i) \/ InUse(p, i)
        PROVE  i \in inTransit[p]
    BY <1>1, <2>1, PlacesAreTracked DEF Tracked, Somewhere
  <2> QED
    BY <1>1, <2>1, Places DEF IInv, PayloadsStayInScope
<1> QED
  BY <1>1, Invariant, PTL

\* While its receiver is there, everything in transit is in exactly one place
\* between the two processes: nothing is kept that no DONE will free.
THEOREM TransitAccounted == SafeSpec => []TransitIsAccounted
<1>1. ASSUME IInv PROVE TransitIsAccounted
  <2> SUFFICES ASSUME NEW p \in Peers, life[Other(p)] # "closed"
               PROVE  LET q == Other(p)
                          places == <<Unsent(p), Arriving(q), Using(q), acking[q], DonesTo(p)>>
                      IN /\ inTransit[p] = UNION {places[k] : k \in DOMAIN places}
                         /\ \A j, k \in DOMAIN places : j # k => places[j] \cap places[k] = {}
    BY DEF TransitIsAccounted
  <2> DEFINE q == Other(p)
             places == <<Unsent(p), Arriving(q), Using(q), acking[q], DonesTo(p)>>
  <2>1. /\ inTransit[p] = Unsent(p) \cup Arriving(q) \cup Using(q) \cup acking[q] \cup DonesTo(p)
    <3>1. \A i \in Ids : i \in inTransit[p] <=> Somewhere(p, i)
      BY <1>1, PlacesAreTracked DEF Tracked
    <3>2. inTransit[p] \subseteq Ids
      BY <1>1 DEF IInv, Shape
    <3> QED
      BY <1>1, <3>1, <3>2, Places DEF IInv, Somewhere
  <2>2. /\ Unsent(p) \cap (Arriving(q) \cup Using(q) \cup acking[q] \cup DonesTo(p)) = {}
        /\ Arriving(q) \cap (Using(q) \cup acking[q] \cup DonesTo(p)) = {}
        /\ Using(q) \cap (acking[q] \cup DonesTo(p)) = {}
        /\ acking[q] \cap DonesTo(p) = {}
    <3>1. \A i \in Ids : InOnePlace(p, i)
      BY <1>1, PlacesAreTracked DEF Tracked
    <3> QED
      BY <1>1, <3>1, Places DEF IInv, InOnePlace
  <2>3. /\ DOMAIN places = {1, 2, 3, 4, 5}
        /\ places[1] = Unsent(p) /\ places[2] = Arriving(q) /\ places[3] = Using(q)
        /\ places[4] = acking[q] /\ places[5] = DonesTo(p)
    OBVIOUS
  <2> HIDE DEF places
  <2>4. inTransit[p] = UNION {places[k] : k \in DOMAIN places}
    BY <2>1, <2>3
  <2>5. ASSUME NEW j \in DOMAIN places, NEW k \in DOMAIN places, j # k
        PROVE  places[j] \cap places[k] = {}
    BY <2>2, <2>3, <2>5
  <2> QED
    BY <2>4, <2>5 DEF places
<1> QED
  BY <1>1, Invariant, PTL

\* When an endpoint's destructor has returned, the other process neither holds
\* nor will receive a message whose payload is gone with it: the destructor
\* has waited for the reader, and the reader for the last DONE.
THEOREM NothingOutlives == SafeSpec => []NothingOutlivesItsSender
<1>1. ASSUME IInv PROVE NothingOutlivesItsSender
  <2>1. ASSUME NEW p \in Peers, life[p] = "closed"
        PROVE  inTransit[p] = {}
    BY <1>1, <2>1 DEF IInv, Lives, Closes, Exits
  <2>2. ASSUME NEW p \in Peers, NEW i \in Ids, Comes(p, i) \/ InUse(p, i)
        PROVE  i \in inTransit[p]
    BY <1>1, <2>2, PlacesAreTracked DEF Tracked, Somewhere
  <2> QED
    BY <1>1, <2>1, <2>2, Places DEF IInv, NothingOutlivesItsSender
<1> QED
  BY <1>1, Invariant, PTL

-----------------------------------------------------------------------------
\* The channel that an endpoint's users see.
Closed     == {p \in Peers : life[p] = "closed"}
ToReceive  == [p \in Peers |-> IF life[p] = "closed" THEN <<>> ELSE Unread(p)]

LEMMA ChannelOther == \A p \in Peers : Channel!Other(p) = Other(p)
  BY Others DEF Channel!Other

LEMMA InitChannel == Init => Channel!Init
<1> SUFFICES ASSUME Init PROVE Channel!Init
  OBVIOUS
<1>1. <<>> \o <<>> \o <<>> = <<>>
  OBVIOUS
<1>2. ASSUME NEW p \in Peers
      PROVE  life[p] = "open" /\ Unread(p) = <<>>
  <2>1. wire[p] = <<>> /\ out[p] = <<>> /\ pending[p] = <<>> /\ life[p] = "open"
    BY DEF Init
  <2> QED
    BY <1>1, <2>1, UsersOfEmpty, Zenon DEF Unread
<1> QED
  BY <1>2 DEF Init, Channel!Init

\* Nobody closes but in JoinReader.
LEMMA ClosedKept ==
  ASSUME Shape, NEW p \in Peers, Step(p), ~ JoinReader(p)
  PROVE  \A x \in Peers : life'[x] = "closed" <=> life[x] = "closed"
<1>1. CASE life' = life
  BY <1>1
<1>2. CASE UserStep(p) \/ ReaderStep(p) \/ HeartbeatStep(p) \/ Crash(p)
  BY <1>1, <1>2 DEF UserStep, SendBegin, Send, Release, Ack, Recv, ReaderStep, Read, Emplace, Timeout,
                    HeartbeatStep, HeartbeatWake, HeartbeatSend, Crash
<1>3. CASE Destroy(p) \/ JoinHeartbeat(p) \/ SendShutdown(p)
  BY <1>3 DEF Destroy, JoinHeartbeat, SendShutdown, Set, Shape
<1> QED
  BY <1>2, <1>3 DEF Step, DestructorStep

LEMMA SeenKept ==
  ASSUME \A x \in Peers : life'[x] = "closed" <=> life[x] = "closed",
         \A x \in Peers : Unread(x)' = Unread(x)
  PROVE  Closed' = Closed /\ ToReceive' = ToReceive
  BY DEF Closed, ToReceive

LEMMA ChannelStep ==
  ASSUME IInv, NEW p \in Peers, Step(p)
  PROVE  Channel!Next \/ UNCHANGED Channel!vars
<1> DEFINE q == Other(p)
<1> USE DEF Channel!vars
<1>1. Shape /\ Lives /\ Transit /\ q \in Peers /\ q # p /\ Only(p)
  BY Others, ShapeStep DEF IInv
<1>2. ASSUME Unseen(p), ~ JoinReader(p)
      PROVE  Closed' = Closed /\ ToReceive' = ToReceive
  BY <1>1, <1>2, UnreadKept, ClosedKept, SeenKept
<1>3. ASSUME Closed' = Closed, ToReceive' = ToReceive, UNCHANGED <<held, inTransit>>
      PROVE  UNCHANGED Channel!vars
  BY <1>3 DEF Closed, ToReceive
<1>4. ASSUME NEW d \in BOOLEAN, SendBegin(p, d)
      PROVE  Channel!Next \/ UNCHANGED Channel!vars
  <2>1. Closed' = Closed /\ ToReceive' = ToReceive /\ held' = held
    BY <1>2, <1>4 DEF Unseen, SendBegin, JoinReader
  <2>2. CASE d
    <3>1. PICK m \in UserMessages : m.id = sent[p] + 1
      <4>1. sent[p] + 1 \in 1 .. MaxMessages[p]
        BY <1>1, <1>4, MessagesAssumption DEF SendBegin, Shape
      <4>2. sent[p] + 1 \in Ids
        BY <4>1 DEF Ids
      <4> QED
        BY <4>2, UserMessageIs, MessageKinds
    <3>2. inTransit' = [inTransit EXCEPT ![p] = inTransit[p] \cup {m.id}]
      BY <1>4, <2>2, <3>1 DEF SendBegin, Set
    <3>3. Channel!Keep(p, m.id)
      BY <2>1, <3>2 DEF Channel!Keep, Closed, ToReceive
    <3> QED
      BY <3>3 DEF Channel!Next
  <2>3. CASE ~ d
    BY <1>3, <1>4, <2>1, <2>3 DEF SendBegin
  <2> QED
    BY <2>2, <2>3
<1>5. ASSUME NEW m \in UserMessages, Send(p, m)
      PROVE  Channel!Next
  <2>1. /\ Unread(q)' = Append(Unread(q), m) /\ Unread(p)' = Unread(p)
        /\ UNCHANGED <<held, inTransit, life>> /\ m \in sending[p]
    BY <1>1, <1>5, UnreadOfSend DEF Send
  <2>2. m.done => m.id \in inTransit[p]
    <3>1. m.id \in Ids /\ (m.done => m = Moved(m.id))
      BY UserMessageIs, Zenon DEF Moved
    <3>2. Tracked(p, m.id)
      BY <3>1, PlacesAreTracked
    <3>3. m.done => Waits(p, m.id)
      BY <2>1, <3>1 DEF Waits
    <3> QED
      BY <3>2, <3>3 DEF Tracked, Somewhere
  <2>3. Closed' = Closed
    BY <2>1 DEF Closed
  <2>4. ToReceive' = IF q \in Closed THEN ToReceive
                     ELSE [ToReceive EXCEPT ![q] = Append(ToReceive[q], m)]
    <3>1. /\ DOMAIN ToReceive = Peers /\ ToReceive' = [x \in Peers |-> ToReceive'[x]]
          /\ ToReceive = [x \in Peers |-> ToReceive[x]]
      BY DEF ToReceive
    <3>2. ToReceive'[p] = ToReceive[p]
      BY <2>1 DEF ToReceive
    <3>3. ToReceive'[q] = IF q \in Closed THEN ToReceive[q] ELSE Append(ToReceive[q], m)
      BY <1>1, <2>1 DEF ToReceive, Closed
    <3>4. \A x \in Peers : x = p \/ x = q
      BY Others
    <3> QED
      BY <1>1, <3>1, <3>2, <3>3, <3>4
  <2>5. Channel!Send(p, m)
    BY <2>1, <2>2, <2>3, <2>4, ChannelOther DEF Channel!Send, Closed, ToReceive
  <2> QED
    BY <2>5 DEF Channel!Next
<1>6. CASE Recv(p)
  <2>1. /\ Unread(p) # <<>> /\ Head(Unread(p)) = Head(out[p]) /\ Unread(p)' = Tail(Unread(p))
        /\ Unread(q)' = Unread(q)
    BY <1>1, <1>6, UnreadOfRecv, UnreadElsewhere
  <2>2. /\ held' = [held EXCEPT ![p] = held[p] \cup {Head(out[p])}]
        /\ UNCHANGED <<inTransit, life>> /\ life[p] = "open"
    BY <1>6 DEF Recv, Set
  <2>3. Closed' = Closed
    BY <2>2 DEF Closed
  <2>4. ToReceive[p] = Unread(p)
    BY <2>2 DEF ToReceive
  <2>5. ToReceive' = [ToReceive EXCEPT ![p] = Tail(ToReceive[p])]
    <3>1. /\ DOMAIN ToReceive = Peers /\ ToReceive' = [x \in Peers |-> ToReceive'[x]]
          /\ ToReceive = [x \in Peers |-> ToReceive[x]]
      BY DEF ToReceive
    <3>2. ToReceive'[q] = ToReceive[q] /\ ToReceive'[p] = Tail(ToReceive[p])
      BY <1>1, <2>1, <2>2 DEF ToReceive
    <3>3. \A x \in Peers : x = p \/ x = q
      BY Others
    <3> QED
      BY <1>1, <3>1, <3>2, <3>3
  <2>6. Channel!Receive(p)
    BY <2>1, <2>2, <2>3, <2>4, <2>5 DEF Channel!Receive, Closed, ToReceive
  <2> QED
    BY <2>6 DEF Channel!Next
<1>7. ASSUME NEW m \in UserMessages, Release(p, m)
      PROVE  Channel!Next
  <2>1. Closed' = Closed /\ ToReceive' = ToReceive
    BY <1>1, <1>2, <1>7 DEF Unseen, Release, JoinReader, Set, Shape
  <2>2. m \in held[p] /\ held' = [held EXCEPT ![p] = held[p] \ {m}] /\ inTransit' = inTransit
    BY <1>7 DEF Release, Set
  <2>3. Channel!Release(p, m)
    BY <2>1, <2>2 DEF Channel!Release, Closed, ToReceive
  <2> QED
    BY <2>3 DEF Channel!Next
<1>8. CASE Read(p)
  <2> DEFINE h == Head(wire[p])
  <2>1. Closed' = Closed /\ ToReceive' = ToReceive /\ held' = held
    BY <1>2, <1>8 DEF Unseen, ReaderStep, Read, JoinReader, user
  <2>2. CASE inTransit' = inTransit
    BY <1>3, <2>1, <2>2
  <2>3. CASE inTransit' # inTransit
    <3>1. /\ wire[p] \in Seq(WireMessages) /\ wire[p] # <<>> /\ h \in WireMessages
          /\ h.type = "DONE" /\ inTransit' = [inTransit EXCEPT ![p] = inTransit[p] \ {h.id}]
      BY <1>1, <1>8, <2>3, HeadTailProperties DEF Read, Set, Shape
    <3>2. PICK i \in Ids : h = Done(i) /\ h.id = i
      BY <3>1, WireMessageIs
    <3>3. Returns(p, i)
      BY <3>1, <3>2, HasTail DEF Returns
    <3>4. i \in inTransit[p] /\ ~ Comes(p, i) /\ ~ InUse(p, i)
      BY <3>3, PlacesAreTracked DEF Tracked, Somewhere, InOnePlace
    <3>5. \A m \in held[q] : m.done => m.id # i
      BY <1>1, <3>4, UserMessageIs, Zenon DEF InUse, Moved, Shape
    <3>6. \A k \in DOMAIN ToReceive[q] : ToReceive[q][k].done => ToReceive[q][k].id # i
      <4>1. ToReceive[q] = <<>> \/ ToReceive[q] = Unread(q)
        BY <1>1 DEF ToReceive
      <4>2. Unread(q) \in Seq(UserMessages)
        BY <1>1, UnreadParts
      <4>3. \A k \in DOMAIN Unread(q) : Unread(q)[k] \in UserMessages /\ Unread(q)[k] # Moved(i)
        BY <3>4, <4>2 DEF Comes, Has
      <4>4. \A k \in DOMAIN Unread(q) : Unread(q)[k].done => Unread(q)[k].id # i
        BY <4>3, UserMessageIs, Zenon DEF Moved
      <4>5. DOMAIN <<>> = {}
        OBVIOUS
      <4> QED
        BY <4>1, <4>4, <4>5, Zenon
    <3>7. Channel!Free(p, i)
      BY <2>1, <3>1, <3>2, <3>4, <3>5, <3>6, ChannelOther DEF Channel!Free, Closed, ToReceive
    <3>8. PICK m \in UserMessages : m.id = i
      BY UserMessageIs, MessageKinds
    <3> QED
      BY <3>7, <3>8 DEF Channel!Next
  <2> QED
    BY <2>2, <2>3
<1>9. CASE JoinReader(p)
  <2>1. /\ life[p] = "join" /\ life'[p] = "closed" /\ UNCHANGED <<held, inTransit>> /\ held[p] = {}
        /\ life'[q] = life[q]
    BY <1>1, <1>9 DEF JoinReader, Set, Shape, Lives, Quiet, user
  <2>2. Unread(q)' = Unread(q)
    BY <1>1, <1>9, UnreadElsewhere
  <2>3. \A x \in Peers : x = p \/ x = q
    BY Others
  <2>4. Closed' = Closed \cup {p}
    BY <1>1, <2>1, <2>3 DEF Closed
  <2>5. ToReceive' = [ToReceive EXCEPT ![p] = <<>>]
    <3>1. /\ DOMAIN ToReceive = Peers /\ ToReceive' = [x \in Peers |-> ToReceive'[x]]
          /\ ToReceive = [x \in Peers |-> ToReceive[x]]
      BY DEF ToReceive
    <3>2. ToReceive'[q] = ToReceive[q] /\ ToReceive'[p] = <<>>
      BY <1>1, <2>1, <2>2 DEF ToReceive
    <3> QED
      BY <1>1, <2>3, <3>1, <3>2
  <2>6. Channel!Close(p)
    BY <2>1, <2>4, <2>5 DEF Channel!Close, Closed, ToReceive
  <2> QED
    BY <2>6 DEF Channel!Next
<1>10. CASE \/ \E i \in Ids : Ack(p, i)
            \/ Emplace(p) \/ Timeout(p) \/ HeartbeatStep(p) \/ Destroy(p)
            \/ JoinHeartbeat(p) \/ SendShutdown(p) \/ Crash(p)
  <2>1. Unseen(p) /\ UNCHANGED <<held, inTransit>>
    BY <1>10 DEF Unseen, ReaderStep, Ack, Emplace, Timeout, HeartbeatStep, HeartbeatWake,
                HeartbeatSend, Destroy, JoinHeartbeat, SendShutdown, Crash, user
  <2>2. CASE ~ JoinReader(p)
    BY <1>2, <1>3, <2>1, <2>2
  <2> QED
    BY <1>9, <2>2
<1> QED
  BY <1>4, <1>5, <1>6, <1>7, <1>8, <1>9, <1>10 DEF Step, UserStep, ReaderStep, DestructorStep

\* Wires, reader threads, the transferrable table and DONE messages implement a
\* pair of FIFO channels with payloads that outlive their use.
THEOREM Implementation == SafeSpec => ImplementsChannel
<1>1. IInv /\ [Next]_vars => [Channel!Next]_(Channel!vars)
  <2>1. ASSUME IInv, UNCHANGED vars PROVE UNCHANGED Channel!vars
    BY <2>1 DEF vars, user, Channel!vars, Unread
  <2> QED
    BY <2>1, NextIs, ChannelStep
<1> QED
  BY <1>1, InitChannel, Invariant, PTL DEF SafeSpec, ImplementsChannel, Channel!Spec
=============================================================================
