-------------------------- MODULE LikeCounterProofs --------------------------
(***************************************************************************)
(* The drift of the like count is bounded in size and in time, for any     *)
(* number of users and concurrent requests and any TTL.                    *)
(***************************************************************************)
EXTENDS LikeCounter, FiniteSetTheorems, TLAPS

Bumps == {"incr", "decr"}

(* Request p goes on to step o.                                            *)
Moves(f, g, p, o) == g = [f EXCEPT ![p] = o]

(* What request p at step a adds to the number at step b outside K.        *)
Share(K, p, a, b) == IF p \notin K /\ a = b THEN 1 ELSE 0

(* How many requests outside K are at step b, the steps being f.           *)
At(f, K, b) == Cardinality({q \in Requests \ K : f[q] = b})

(* A count n of the rows L that has the writes of the requests K already,  *)
(* and may be off by s writes once the other bumps are in.                 *)
Around(f, L, n, K, s) ==
    /\ \A q \in K : q \in Requests /\ f[q] \in Bumps
    /\ n - Cardinality(L) + At(f, K, "incr") - At(f, K, "decr") <= s
    /\ Cardinality(L) - n - At(f, K, "incr") + At(f, K, "decr") <= s

KeySound ==
    counter # Missing =>
        ttl \in 1..TTL /\ ttl + age = TTL /\ Around(op, liked, counter, counted, slack)

RequestsSound ==
    \A p \in Requests :
        /\ op[p] \in {"like", "unlike"} => who[p] \in Users
        /\ op[p] = "fill" => Around(op, liked, seen[p], knows[p], readSlack[p])

Inv == CounterTypeOK /\ KeySound /\ RequestsSound

-----------------------------------------------------------------------------
(* Counting requests *)

LEMMA AtType == ASSUME NEW f, NEW K, NEW b PROVE At(f, K, b) \in Nat
<1>1. {q \in Requests \ K : f[q] = b} \subseteq Requests
  OBVIOUS
<1>2. IsFiniteSet({q \in Requests \ K : f[q] = b})
  BY <1>1, FS_Subset, LikeCounterAssumption
<1> QED
  BY <1>2, FS_CardinalityType DEF At

(* One request moves to another step, in K or out of it.                   *)
LEMMA AtMove ==
  ASSUME NEW f \in [Requests -> Ops], NEW p \in Requests, NEW o \in Ops, NEW b,
         NEW K, NEW M, NEW g,
         K \ {p} = M \ {p}, Moves(f, g, p, o)
  PROVE  /\ At(g, M, b) \in Nat /\ At(f, K, b) \in Nat
         /\ Share(K, p, f[p], b) \in Nat /\ Share(M, p, o, b) \in Nat
         /\ At(g, M, b) + Share(K, p, f[p], b) = At(f, K, b) + Share(M, p, o, b)
<1> DEFINE F == {q \in Requests \ K : f[q] = b}
           G == {q \in Requests \ M : g[q] = b}
           R == F \ {p}
<1>1. IsFiniteSet(F)
  <2>1. F \subseteq Requests
    OBVIOUS
  <2> QED
    BY <2>1, FS_Subset, LikeCounterAssumption
<1>2. p \in F <=> f[p] = b /\ p \notin K
  OBVIOUS
<1>3. IsFiniteSet(R) /\ Cardinality(F) = Cardinality(R) + (IF p \in F THEN 1 ELSE 0)
  <2>1. Cardinality(F) \in Nat
    BY <1>1, FS_CardinalityType
  <2>2. /\ IsFiniteSet(R)
        /\ Cardinality(R) = IF p \in F THEN Cardinality(F) - 1 ELSE Cardinality(F)
    BY <1>1, FS_RemoveElement
  <2>3. Cardinality(R) \in Nat
    BY <2>2, FS_CardinalityType
  <2> HIDE DEF F, R
  <2> QED
    BY <2>1, <2>2, <2>3
<1>4. G = IF o = b /\ p \notin M THEN R \cup {p} ELSE R
  BY DEF Moves
<1>5. Cardinality(R \cup {p}) = Cardinality(R) + 1
  BY <1>3, FS_AddElement
<1>6. Cardinality(R) \in Nat
  BY <1>3, FS_CardinalityType
<1> HIDE DEF F, G, R
<1>7. Cardinality(G) = Cardinality(R) + (IF o = b /\ p \notin M THEN 1 ELSE 0)
  BY <1>4, <1>5, <1>6
<1>8. Cardinality(G) + Share(K, p, f[p], b)
        = Cardinality(F) + Share(M, p, o, b)
  BY <1>2, <1>3, <1>6, <1>7 DEF Share
<1>9. At(g, M, b) + Share(K, p, f[p], b) = At(f, K, b) + Share(M, p, o, b)
  BY <1>8 DEF F, G, At
<1>10. Share(K, p, f[p], b) \in Nat /\ Share(M, p, o, b) \in Nat
  BY DEF Share
<1> QED
  BY <1>9, <1>10, AtType

LEMMA LikedType ==
  ASSUME NEW L \in SUBSET Users
  PROVE  IsFiniteSet(L) /\ Cardinality(L) \in Nat
BY FS_Subset, FS_CardinalityType, LikeCounterAssumption

LEMMA GoFacts ==
  ASSUME CounterTypeOK, NEW p \in Requests, NEW o \in Ops, NEW u \in Users \cup {NoUser},
         Go(p, o, u)
  PROVE  /\ op' = [op EXCEPT ![p] = o] /\ op \in [Requests -> Ops]
         /\ op' \in [Requests -> Ops] /\ who' \in [Requests -> Users \cup {NoUser}]
         /\ op'[p] = o /\ who'[p] = u
         /\ \A q \in Requests \ {p} : op'[q] = op[q] /\ who'[q] = who[q]
BY DEF CounterTypeOK, Go

-----------------------------------------------------------------------------
(* A count through the steps                                               *)

(* A step that neither starts nor ends a bump.                             *)
LEMMA AroundCalm ==
  ASSUME NEW f \in [Requests -> Ops], NEW p \in Requests, NEW o \in Ops \ Bumps,
         f[p] \notin Bumps,
         NEW L \in SUBSET Users, NEW n \in Nat, NEW K, NEW s \in Nat, Around(f, L, n, K, s)
  PROVE  Around([f EXCEPT ![p] = o], L, n, K, s)
<1>g. PICK g : g = [f EXCEPT ![p] = o] /\ Moves(f, g, p, o)
  BY DEF Moves
<1>1. \A b \in Bumps : At(g, K, b) = At(f, K, b)
  <2> TAKE b \in Bumps
  <2>a. K \ {p} = K \ {p} /\ o \in Ops
    BY DEF Bumps, Ops
  <2>1. At(g, K, b) + Share(K, p, f[p], b)
          = At(f, K, b) + Share(K, p, o, b)
    BY <1>g, <2>a, AtMove
  <2>2. Share(K, p, f[p], b) = 0 /\ Share(K, p, o, b) = 0
    BY DEF Share
  <2>3. At(g, K, b) \in Nat /\ At(f, K, b) \in Nat
    BY AtType
  <2> QED
    BY <2>1, <2>2, <2>3
<1>2. \A q \in K : q \in Requests /\ g[q] \in Bumps
  BY <1>g DEF Around
<1>3. Around(g, L, n, K, s)
  BY <1>1, <1>2 DEF Around, Bumps
<1> QED
  BY <1>3, <1>g

(* A row comes or goes, and its bump is owed.                              *)
LEMMA AroundToggle ==
  ASSUME NEW f \in [Requests -> Ops], NEW p \in Requests, NEW o \in Bumps,
         f[p] \notin Bumps,
         NEW L \in SUBSET Users, NEW M \in SUBSET Users,
         Cardinality(M) = Cardinality(L) + (IF o = "incr" THEN 1 ELSE -1),
         NEW n \in Nat, NEW K, NEW s \in Nat, Around(f, L, n, K, s)
  PROVE  Around([f EXCEPT ![p] = o], M, n, K, s)
<1>g. PICK g : g = [f EXCEPT ![p] = o] /\ Moves(f, g, p, o)
  BY DEF Moves
<1>1. p \notin K
  BY DEF Around
<1>2. \A b \in Bumps : /\ At(g, K, b) = At(f, K, b) + Share(K, p, o, b)
                       /\ At(g, K, b) \in Nat /\ At(f, K, b) \in Nat
  <2> TAKE b \in Bumps
  <2>a. K \ {p} = K \ {p} /\ o \in Ops
    BY DEF Bumps, Ops
  <2>1. At(g, K, b) + Share(K, p, f[p], b)
          = At(f, K, b) + Share(K, p, o, b)
    BY <1>g, <2>a, AtMove
  <2>2. Share(K, p, f[p], b) = 0 /\ Share(K, p, o, b) \in Nat
    BY <1>g DEF Share
  <2>3. At(g, K, b) \in Nat /\ At(f, K, b) \in Nat
    BY AtType
  <2> QED
    BY <1>1, <2>1, <2>2, <2>3
<1>3. \A q \in K : q \in Requests /\ g[q] \in Bumps
  BY <1>g DEF Around
<1>4. Cardinality(L) \in Nat /\ Cardinality(M) \in Nat
  BY LikedType
<1>5. Around(g, M, n, K, s)
  BY <1>2, <1>3, <1>4 DEF Around, Bumps, Share
<1> QED
  BY <1>5, <1>g

(* A bump is over.  Taken once, it leaves the count where it was; missed,  *)
(* or taken by a count that had the write, it puts it off by one more.     *)
LEMMA AroundBump ==
  ASSUME NEW f \in [Requests -> Ops], NEW p \in Requests, NEW o \in Ops \ Bumps,
         f[p] \in Bumps, NEW d, d = (IF f[p] = "incr" THEN 1 ELSE -1),
         NEW L \in SUBSET Users, NEW n \in Nat, NEW K, NEW s \in Nat, Around(f, L, n, K, s),
         NEW m \in Nat, NEW t \in Nat,
         \/ m = n /\ p \in K /\ t = s
         \/ m = n /\ p \notin K /\ t = s + 1
         \/ m = n + d /\ p \notin K /\ t = s
         \/ m = n + d /\ p \in K /\ t = s + 1
  PROVE  Around([f EXCEPT ![p] = o], L, m, K \ {p}, t)
<1>g. PICK g, M : g = [f EXCEPT ![p] = o] /\ M = K \ {p} /\ Moves(f, g, p, o)
  BY DEF Moves
<1>1. \A b \in Bumps : /\ At(g, M, b) = At(f, K, b) - Share(K, p, f[p], b)
                       /\ At(g, M, b) \in Nat /\ At(f, K, b) \in Nat
  <2> TAKE b \in Bumps
  <2>a. K \ {p} = M \ {p} /\ o \in Ops
    BY <1>g
  <2>1. At(g, M, b) + Share(K, p, f[p], b)
          = At(f, K, b) + Share(M, p, o, b)
    BY <1>g, <2>a, AtMove
  <2>2. Share(M, p, o, b) = 0 /\ Share(K, p, f[p], b) \in Nat
    BY <1>g DEF Share
  <2>3. At(g, M, b) \in Nat /\ At(f, K, b) \in Nat
    BY AtType
  <2> QED
    BY <2>1, <2>2, <2>3
<1>2. \A q \in M : q \in Requests /\ g[q] \in Bumps
  BY <1>g DEF Around
<1>3. Cardinality(L) \in Nat
  BY LikedType
<1>4. Around(g, L, m, M, t)
  <2>1. CASE f[p] = "incr"
    BY <1>1, <1>2, <1>3, <2>1 DEF Around, Bumps, Share
  <2>2. CASE f[p] = "decr"
    BY <1>1, <1>2, <1>3, <2>2 DEF Around, Bumps, Share
  <2> QED
    BY <2>1, <2>2 DEF Bumps
<1> QED
  BY <1>4, <1>g

(* A COUNT is exact and has the write of every bump that is to come.       *)
LEMMA AroundCount ==
  ASSUME CounterTypeOK
  PROVE  Around(op, liked, Cardinality(liked), Pending, 0)
<1>1. \A b \in Bumps : At(op, Pending, b) = 0
  <2> TAKE b \in Bumps
  <2>1. {q \in Requests \ Pending : op[q] = b} = {}
    BY DEF Pending, Bumps
  <2> QED
    BY <2>1, FS_EmptySet DEF At
<1>2. Cardinality(liked) \in Nat
  BY LikedType DEF CounterTypeOK
<1>3. \A q \in Pending : q \in Requests /\ op[q] \in Bumps
  BY DEF Pending, Bumps
<1> QED
  BY <1>1, <1>2, <1>3 DEF Around, Bumps

-----------------------------------------------------------------------------
(* Induction *)

LEMMA InitInv == Init => Inv
<1> SUFFICES ASSUME Init PROVE Inv
  OBVIOUS
<1> USE LikeCounterAssumption DEF Init
<1>1. CounterTypeOK
  <2>1. 0 \in 0..TTL /\ 0 \in 0..MaxToggles /\ 0 \in Nat
    OBVIOUS
  <2>2. op \in [Requests -> Ops] /\ who \in [Requests -> Users \cup {NoUser}]
    BY DEF Ops
  <2>3. /\ seen \in [Requests -> Nat] /\ readSlack \in [Requests -> Nat]
        /\ knows \in [Requests -> SUBSET Requests]
    OBVIOUS
  <2> QED
    BY <2>1, <2>2, <2>3 DEF CounterTypeOK
<1>2. KeySound /\ RequestsSound
  BY DEF KeySound, RequestsSound
<1> QED
  BY <1>1, <1>2 DEF Inv

(* Steps that touch neither the rows nor the bumps; the key goes, or stays,*)
(* or grows older.                                                         *)
LEMMA CalmStep ==
  ASSUME Inv, NEW p \in Requests, NEW o \in Ops \ {"incr", "decr", "fill"},
         NEW u \in Users \cup {NoUser}, Go(p, o, u), op[p] \notin Bumps,
         o \in {"like", "unlike"} => u \in Users,
         UNCHANGED <<liked, toggles>>, deleted' \in BOOLEAN,
         UNCHANGED keyVars \/ DropKey,
         UNCHANGED readVars \/ NoRead(p)
  PROVE  Inv'
<1> USE DEF Inv
<1>1. CounterTypeOK'
  <2>1. op' \in [Requests -> Ops] /\ who' \in [Requests -> Users \cup {NoUser}]
    BY GoFacts
  <2>2. /\ counter' \in Nat \cup {Missing} /\ ttl' \in 0..TTL /\ age' \in 0..TTL
        /\ counted' \subseteq Requests /\ slack' \in Nat
    BY LikeCounterAssumption DEF CounterTypeOK, keyVars, DropKey
  <2>3. /\ seen' \in [Requests -> Nat] /\ readSlack' \in [Requests -> Nat]
        /\ knows' \in [Requests -> SUBSET Requests]
    BY DEF CounterTypeOK, readVars, NoRead
  <2> QED
    BY <2>1, <2>2, <2>3 DEF CounterTypeOK
<1>2. \A n, K, s :
        n \in Nat /\ s \in Nat /\ Around(op, liked, n, K, s) => Around(op', liked', n, K, s)
  <2> SUFFICES ASSUME NEW n \in Nat, NEW K, NEW s \in Nat, Around(op, liked, n, K, s)
               PROVE  Around(op', liked, n, K, s)
    OBVIOUS
  <2>1. op' = [op EXCEPT ![p] = o] /\ op \in [Requests -> Ops] /\ o \in Ops \ Bumps
    BY GoFacts DEF Bumps
  <2>2. liked \in SUBSET Users
    BY DEF CounterTypeOK
  <2>3. Around([op EXCEPT ![p] = o], liked, n, K, s)
    BY <2>1, <2>2, AroundCalm
  <2> QED
    BY <2>1, <2>3
<1>3. KeySound'
  <2>1. CASE UNCHANGED keyVars
    BY <1>2, <2>1 DEF KeySound, CounterTypeOK, keyVars
  <2>2. CASE DropKey
    BY <2>2 DEF KeySound, DropKey
  <2> QED
    BY <2>1, <2>2
<1>4. \A q \in Requests : op'[q] = "fill" =>
        /\ op[q] = "fill" /\ seen'[q] = seen[q] /\ knows'[q] = knows[q]
        /\ readSlack'[q] = readSlack[q]
  BY GoFacts DEF NoRead, readVars, CounterTypeOK
<1>5. \A q \in Requests : op'[q] \in {"like", "unlike"} => who'[q] \in Users
  BY GoFacts DEF RequestsSound
<1>6. RequestsSound'
  <2> SUFFICES ASSUME NEW q \in Requests, op'[q] = "fill"
               PROVE  Around(op', liked', seen'[q], knows'[q], readSlack'[q])
    BY <1>5 DEF RequestsSound
  <2>1. /\ Around(op, liked, seen[q], knows[q], readSlack[q])
        /\ seen[q] \in Nat /\ readSlack[q] \in Nat
    BY <1>4 DEF RequestsSound, CounterTypeOK
  <2> QED
    BY <1>2, <1>4, <2>1
<1> QED
  BY <1>1, <1>3, <1>6

(* A write: the rows change, and the bump that is owed makes up for it.    *)
LEMMA ToggleStep ==
  ASSUME Inv, NEW p \in Requests, Like(p) \/ Unlike(p)
  PROVE  Inv'
<1> USE DEF Inv
<1>a. who[p] \in Users /\ op[p] \notin Bumps
  BY DEF RequestsSound, Like, Unlike, Bumps
<1>1. CASE NoToggle(p)
  <2>1. /\ Go(p, "get", NoUser) /\ UNCHANGED <<keyVars, liked, toggles, readVars>>
        /\ deleted' \in BOOLEAN
    BY <1>1 DEF NoToggle, rowVars, CounterTypeOK
  <2> QED
    BY <1>a, <2>1, CalmStep DEF Ops
<1>2. ASSUME NEW b \in Bumps, NEW L, Toggle(p, L, b),
             \/ b = "incr" /\ op[p] = "like" /\ who[p] \notin liked /\ L = liked \cup {who[p]}
             \/ b = "decr" /\ op[p] = "unlike" /\ who[p] \in liked /\ L = liked \ {who[p]}
      PROVE  Inv'
  <2>1. Go(p, b, NoUser) /\ b \in Ops
    BY <1>2 DEF Toggle, Bumps, Ops
  <2>2. /\ L \in SUBSET Users /\ liked' = L /\ liked \in SUBSET Users
        /\ UNCHANGED <<deleted, keyVars, readVars>>
    BY <1>a, <1>2 DEF Toggle, CounterTypeOK
  <2>3. Cardinality(liked) \in Nat /\ IsFiniteSet(liked)
    BY <2>2, LikedType
  <2>4. Cardinality(L) = Cardinality(liked) + (IF b = "incr" THEN 1 ELSE -1)
    <3>1. CASE b = "incr"
      BY <1>2, <2>3, <3>1, FS_AddElement
    <3>2. CASE b = "decr"
      BY <1>2, <2>3, <3>2, FS_RemoveElement
    <3> QED
      BY <3>1, <3>2 DEF Bumps
  <2>5. \A n, K, s :
          n \in Nat /\ s \in Nat /\ Around(op, liked, n, K, s) => Around(op', L, n, K, s)
    <3> SUFFICES ASSUME NEW n \in Nat, NEW K, NEW s \in Nat, Around(op, liked, n, K, s)
                 PROVE  Around(op', L, n, K, s)
      OBVIOUS
    <3>1. op' = [op EXCEPT ![p] = b] /\ op \in [Requests -> Ops]
      BY <2>1, GoFacts
    <3>2. Around([op EXCEPT ![p] = b], L, n, K, s)
      BY <1>a, <2>2, <2>4, <3>1, AroundToggle
    <3> QED
      BY <3>1, <3>2
  <2>6. CounterTypeOK'
    <3>1. op' \in [Requests -> Ops] /\ who' \in [Requests -> Users \cup {NoUser}]
      BY <2>1, GoFacts
    <3>2. toggles' \in 0..MaxToggles
      BY <1>2, LikeCounterAssumption DEF CounterTypeOK, Toggle
    <3> QED
      BY <2>2, <3>1, <3>2 DEF CounterTypeOK, keyVars, readVars
  <2>7. KeySound'
    BY <2>2, <2>5 DEF KeySound, CounterTypeOK, keyVars
  <2>8. \A q \in Requests :
          /\ op'[q] = "fill" => op[q] = "fill"
          /\ op'[q] \in {"like", "unlike"} => who'[q] \in Users
    BY <2>1, GoFacts DEF RequestsSound, Bumps
  <2>9. RequestsSound'
    <3> SUFFICES ASSUME NEW q \in Requests, op'[q] = "fill"
                 PROVE  Around(op', liked', seen'[q], knows'[q], readSlack'[q])
      BY <2>8 DEF RequestsSound
    <3>1. /\ Around(op, liked, seen[q], knows[q], readSlack[q])
          /\ seen[q] \in Nat /\ readSlack[q] \in Nat
      BY <2>8 DEF RequestsSound, CounterTypeOK
    <3> QED
      BY <2>2, <2>5, <3>1 DEF readVars
  <2> QED
    BY <2>6, <2>7, <2>9
<1> QED
  BY <1>1, <1>2 DEF Like, Unlike, Bumps

(* The end of a bump, as every count sees it.                              *)
LEMMA BumpOverStep ==
  ASSUME Inv, NEW p \in Requests, NEW o \in Ops \ {"incr", "decr", "fill", "like", "unlike"},
         Go(p, o, NoUser), op[p] \in Bumps, NEW off, BumpOver(p, off),
         NEW d, d = (IF op[p] = "incr" THEN 1 ELSE -1),
         UNCHANGED <<deleted, liked, toggles, ttl, age, seen>>,
         counter = Missing => counter' = Missing,
         counter # Missing =>
            /\ counter' \in Nat
            /\ \/ counter' = counter /\ (off <=> p \notin counted)
               \/ counter' = counter + d /\ (off <=> p \in counted)
  PROVE  Inv'
<1> USE DEF Inv
<1>1. /\ op' = [op EXCEPT ![p] = o] /\ op \in [Requests -> Ops] /\ o \in Ops \ Bumps
      /\ op' \in [Requests -> Ops] /\ who' \in [Requests -> Users \cup {NoUser}]
      /\ liked \in SUBSET Users
  BY GoFacts DEF Bumps, CounterTypeOK
<1>2. /\ counted' = counted \ {p}
      /\ counter # Missing => slack' = IF off THEN slack + 1 ELSE slack
      /\ slack' \in Nat
      /\ \A q \in Requests :
            /\ knows'[q] = knows[q] \ {p}
            /\ readSlack'[q] = IF op[q] = "fill" /\ p \notin knows[q] THEN readSlack[q] + 1
                              ELSE readSlack[q]
      /\ knows' \in [Requests -> SUBSET Requests] /\ readSlack' \in [Requests -> Nat]
  BY DEF BumpOver, CounterTypeOK
<1>3. CounterTypeOK'
  BY <1>1, <1>2 DEF CounterTypeOK
<1>4. KeySound'
  <2> SUFFICES ASSUME counter # Missing
               PROVE  /\ ttl \in 1..TTL /\ ttl + age = TTL
                      /\ Around(op', liked, counter', counted', slack')
    BY DEF KeySound
  <2>1. /\ ttl \in 1..TTL /\ ttl + age = TTL /\ Around(op, liked, counter, counted, slack)
        /\ counter \in Nat /\ slack \in Nat
    BY DEF KeySound, CounterTypeOK
  <2>2. \/ counter' = counter /\ p \in counted /\ slack' = slack
        \/ counter' = counter /\ p \notin counted /\ slack' = slack + 1
        \/ counter' = counter + d /\ p \notin counted /\ slack' = slack
        \/ counter' = counter + d /\ p \in counted /\ slack' = slack + 1
    BY <1>2
  <2>3. PICK m \in Nat, t \in Nat : m = counter' /\ t = slack'
    BY <1>2
  <2>4. Around([op EXCEPT ![p] = o], liked, m, counted \ {p}, t)
    BY <1>1, <2>1, <2>2, <2>3, AroundBump
  <2> QED
    BY <1>1, <1>2, <2>1, <2>3, <2>4
<1>5. \A q \in Requests :
        /\ op'[q] = "fill" => op[q] = "fill"
        /\ op'[q] \in {"like", "unlike"} => who'[q] \in Users
  BY GoFacts DEF RequestsSound
<1>6. RequestsSound'
  <2> SUFFICES ASSUME NEW q \in Requests, op'[q] = "fill"
               PROVE  Around(op', liked', seen'[q], knows'[q], readSlack'[q])
    BY <1>5 DEF RequestsSound
  <2>1. /\ Around(op, liked, seen[q], knows[q], readSlack[q]) /\ op[q] = "fill"
        /\ seen[q] \in Nat /\ readSlack[q] \in Nat
    BY <1>5 DEF RequestsSound, CounterTypeOK
  <2>2. PICK t \in Nat : t = readSlack'[q]
    BY <1>2
  <2>3. \/ p \in knows[q] /\ t = readSlack[q]
        \/ p \notin knows[q] /\ t = readSlack[q] + 1
    BY <1>2, <2>1, <2>2
  <2>4. Around([op EXCEPT ![p] = o], liked, seen[q], knows[q] \ {p}, t)
    BY <1>1, <2>1, <2>3, AroundBump
  <2> QED
    BY <1>1, <1>2, <2>2, <2>4
<1> QED
  BY <1>3, <1>4, <1>6

(* A bump that arrives, at a key or at none; one that is stopped at 0.     *)
LEMMA BumpStep ==
  ASSUME Inv, NEW p \in Requests, Bump(p)
  PROVE  Inv'
<1> DEFINE d == IF op[p] = "incr" THEN 1 ELSE -1
           stopped == counter = 0 /\ d = -1
<1>1. /\ Go(p, "get", NoUser) /\ op[p] \in Bumps /\ counter' = Bumped(d)
      /\ BumpOver(p, p \in counted <=> ~stopped)
      /\ UNCHANGED <<deleted, liked, toggles, ttl, age, seen>>
  BY DEF Bump, Bumps, rowVars, TtlAfterBump
<1>2. counter = Missing => counter' = Missing
  BY <1>1 DEF Bumped
<1>3. ASSUME counter # Missing
      PROVE  /\ counter' \in Nat
             /\ IF stopped THEN counter' = counter ELSE counter' = counter + d
  <2>1. counter \in Nat
    BY <1>3 DEF Inv, CounterTypeOK
  <2> QED
    BY <1>1, <1>3, <2>1 DEF Bumped
<1>4. counter # Missing =>
        /\ counter' \in Nat
        /\ \/ counter' = counter /\ ((p \in counted <=> ~stopped) <=> p \notin counted)
           \/ counter' = counter + d /\ ((p \in counted <=> ~stopped) <=> p \in counted)
  BY <1>3
<1>5. "get" \in Ops \ {"incr", "decr", "fill", "like", "unlike"}
  BY DEF Ops
<1> HIDE DEF d, stopped
<1> QED
  BY <1>1, <1>2, <1>4, <1>5, BumpOverStep DEF d

(* A bump that is lost, with its request or without.                       *)
LEMMA BumpLostStep ==
  ASSUME Inv, NEW p \in Requests, op[p] \in Bumps, BumpFails(p) \/ RequestFails(p)
  PROVE  Inv'
<1> DEFINE d == IF op[p] = "incr" THEN 1 ELSE -1
<1>1. p \in Pending
  BY DEF Pending, Bumps
<1>2. PICK o \in {"get", "idle"} :
        /\ Go(p, o, NoUser) /\ BumpOver(p, p \notin counted)
        /\ UNCHANGED <<deleted, liked, toggles, counter, ttl, age, seen>>
  BY <1>1 DEF BumpFails, RequestFails, rowVars
<1>3. o \in Ops \ {"incr", "decr", "fill", "like", "unlike"}
  BY DEF Ops
<1>4. counter # Missing => counter' \in Nat
  BY <1>2 DEF Inv, CounterTypeOK
<1> QED
  BY <1>2, <1>3, <1>4, BumpOverStep

(* A COUNT is exact, but the writes that it saw may still bump the key.    *)
LEMMA CountStep ==
  ASSUME Inv, NEW p \in Requests, CountByPosts(p)
  PROVE  Inv'
<1> USE DEF Inv
<1>1. /\ Go(p, "fill", NoUser) /\ op[p] = "get" /\ "fill" \in Ops \ Bumps
      /\ UNCHANGED <<keyVars, deleted, liked, toggles>>
      /\ seen' = [seen EXCEPT ![p] = Cardinality(liked)]
      /\ knows' = [knows EXCEPT ![p] = Pending]
      /\ readSlack' = [readSlack EXCEPT ![p] = 0]
  BY DEF CountByPosts, Ops, Bumps, rowVars
<1>2. Cardinality(liked) \in Nat /\ liked \in SUBSET Users /\ Pending \subseteq Requests
  BY LikedType DEF CounterTypeOK, Pending
<1>3. CounterTypeOK'
  <2>1. op' \in [Requests -> Ops] /\ who' \in [Requests -> Users \cup {NoUser}]
    BY <1>1, GoFacts
  <2>2. /\ seen' \in [Requests -> Nat] /\ readSlack' \in [Requests -> Nat]
        /\ knows' \in [Requests -> SUBSET Requests]
    BY <1>1, <1>2 DEF CounterTypeOK
  <2> QED
    BY <1>1, <2>1, <2>2 DEF CounterTypeOK, keyVars
<1>4. \A n, K, s :
        n \in Nat /\ s \in Nat /\ Around(op, liked, n, K, s) => Around(op', liked, n, K, s)
  <2> SUFFICES ASSUME NEW n \in Nat, NEW K, NEW s \in Nat, Around(op, liked, n, K, s)
               PROVE  Around(op', liked, n, K, s)
    OBVIOUS
  <2>1. op' = [op EXCEPT ![p] = "fill"] /\ op \in [Requests -> Ops] /\ op[p] \notin Bumps
    BY <1>1, GoFacts DEF Bumps
  <2>2. Around([op EXCEPT ![p] = "fill"], liked, n, K, s)
    BY <1>1, <1>2, <2>1, AroundCalm
  <2> QED
    BY <2>1, <2>2
<1>5. KeySound'
  BY <1>1, <1>4 DEF KeySound, CounterTypeOK, keyVars
<1>6. \A q \in Requests :
        /\ op'[q] \in {"like", "unlike"} => who'[q] \in Users
        /\ op'[q] = "fill" => q = p \/ op[q] = "fill"
  BY <1>1, GoFacts DEF RequestsSound
<1>7. RequestsSound'
  <2> SUFFICES ASSUME NEW q \in Requests, op'[q] = "fill"
               PROVE  Around(op', liked, seen'[q], knows'[q], readSlack'[q])
    BY <1>1, <1>6 DEF RequestsSound
  <2>1. CASE q = p
    <3>1. seen'[q] = Cardinality(liked) /\ knows'[q] = Pending /\ readSlack'[q] = 0
      BY <1>1, <2>1 DEF CounterTypeOK
    <3>2. Around(op', liked, Cardinality(liked), Pending, 0)
      BY <1>2, <1>4, AroundCount
    <3> QED
      BY <3>1, <3>2
  <2>2. CASE q # p
    <3>1. /\ seen'[q] = seen[q] /\ knows'[q] = knows[q] /\ readSlack'[q] = readSlack[q]
          /\ seen[q] \in Nat /\ readSlack[q] \in Nat
      BY <1>1, <2>2 DEF CounterTypeOK
    <3>2. Around(op, liked, seen[q], knows[q], readSlack[q])
      BY <1>6, <2>2 DEF RequestsSound
    <3> QED
      BY <1>4, <3>1, <3>2
  <2> QED
    BY <2>1, <2>2
<1> QED
  BY <1>3, <1>5, <1>7

LEMMA BackfillStep ==
  ASSUME Inv, NEW p \in Requests, Backfill(p)
  PROVE  Inv'
<1> USE DEF Inv
<1>1. /\ Go(p, "idle", NoUser) /\ op[p] = "fill" /\ "idle" \in Ops \ Bumps
      /\ NoRead(p) /\ UNCHANGED <<deleted, liked, toggles>> /\ op[p] \notin Bumps
  BY DEF Backfill, Ops, Bumps, rowVars
<1>2. CASE counter # Missing
  <2>1. UNCHANGED keyVars /\ deleted' \in BOOLEAN
    BY <1>1, <1>2 DEF Backfill, CounterTypeOK
  <2> QED
    BY <1>1, <2>1, CalmStep DEF Bumps
<1>3. CASE counter = Missing
  <2>1. /\ counter' = seen[p] /\ ttl' = TTL /\ age' = 0
        /\ counted' = knows[p] /\ slack' = readSlack[p]
    BY <1>3 DEF Backfill
  <2>2. /\ seen[p] \in Nat /\ readSlack[p] \in Nat /\ knows[p] \subseteq Requests
        /\ liked \in SUBSET Users
    BY DEF CounterTypeOK
  <2>3. CounterTypeOK'
    <3>1. op' \in [Requests -> Ops] /\ who' \in [Requests -> Users \cup {NoUser}]
      BY <1>1, GoFacts
    <3>2. /\ seen' \in [Requests -> Nat] /\ readSlack' \in [Requests -> Nat]
          /\ knows' \in [Requests -> SUBSET Requests]
      BY <1>1 DEF CounterTypeOK, NoRead
    <3>3. TTL \in 0..TTL /\ 0 \in 0..TTL
      BY LikeCounterAssumption
    <3> QED
      BY <1>1, <2>1, <2>2, <3>1, <3>2, <3>3 DEF CounterTypeOK
  <2>4. \A n, K, s :
          n \in Nat /\ s \in Nat /\ Around(op, liked, n, K, s) => Around(op', liked, n, K, s)
    <3> SUFFICES ASSUME NEW n \in Nat, NEW K, NEW s \in Nat, Around(op, liked, n, K, s)
                 PROVE  Around(op', liked, n, K, s)
      OBVIOUS
    <3>1. op' = [op EXCEPT ![p] = "idle"] /\ op \in [Requests -> Ops]
      BY <1>1, GoFacts
    <3>2. Around([op EXCEPT ![p] = "idle"], liked, n, K, s)
      BY <1>1, <2>2, <3>1, AroundCalm
    <3> QED
      BY <3>1, <3>2
  <2>5. KeySound'
    <3>1. Around(op', liked, seen[p], knows[p], readSlack[p])
      BY <1>1, <2>2, <2>4 DEF RequestsSound
    <3>2. TTL \in 1..TTL /\ TTL + 0 = TTL
      BY LikeCounterAssumption
    <3> QED
      BY <1>1, <2>1, <3>1, <3>2 DEF KeySound
  <2>6. \A q \in Requests :
          /\ op'[q] \in {"like", "unlike"} => who'[q] \in Users
          /\ op'[q] = "fill" => /\ op[q] = "fill" /\ seen'[q] = seen[q]
                               /\ knows'[q] = knows[q] /\ readSlack'[q] = readSlack[q]
    BY <1>1, GoFacts DEF RequestsSound, NoRead, CounterTypeOK
  <2>7. RequestsSound'
    <3> SUFFICES ASSUME NEW q \in Requests, op'[q] = "fill"
                 PROVE  Around(op', liked, seen'[q], knows'[q], readSlack'[q])
      BY <1>1, <2>6 DEF RequestsSound
    <3>1. /\ Around(op, liked, seen[q], knows[q], readSlack[q])
          /\ seen[q] \in Nat /\ readSlack[q] \in Nat
      BY <2>6 DEF RequestsSound, CounterTypeOK
    <3> QED
      BY <2>4, <2>6, <3>1
  <2> QED
    BY <2>3, <2>5, <2>7
<1> QED
  BY <1>2, <1>3

(* The key goes or grows older; no request notices.                        *)
LEMMA KeyStep ==
  ASSUME Inv, Tick \/ Evict
  PROVE  Inv'
<1> USE DEF Inv
<1>1. UNCHANGED <<deleted, liked, toggles, op, who, seen, knows, readSlack>>
  BY DEF Tick, Evict, rowVars, requestVars, readVars
<1>2. RequestsSound'
  BY <1>1 DEF RequestsSound
<1>3. CASE DropKey
  <2>1. CounterTypeOK'
    BY <1>1, <1>3, LikeCounterAssumption DEF CounterTypeOK, DropKey
  <2>2. KeySound'
    BY <1>3 DEF KeySound, DropKey
  <2> QED
    BY <1>2, <2>1, <2>2
<1>4. CASE Tick /\ ~DropKey
  <2>1. /\ counter # Missing /\ ttl # 1 /\ UNCHANGED <<counter, counted, slack>>
        /\ ttl' = (IF ttl = 0 THEN 0 ELSE ttl - 1)
        /\ age' = (IF age < TTL THEN age + 1 ELSE age)
    BY <1>4 DEF Tick
  <2>2. /\ ttl \in 1..TTL /\ ttl + age = TTL /\ age \in Nat
        /\ Around(op, liked, counter, counted, slack)
    BY <2>1 DEF KeySound, CounterTypeOK
  <2>3. ttl' \in 1..TTL /\ ttl' + age' = TTL /\ age' \in 0..TTL /\ ttl' \in 0..TTL
    BY <2>1, <2>2, LikeCounterAssumption
  <2>4. CounterTypeOK' /\ KeySound'
    BY <1>1, <2>1, <2>2, <2>3 DEF CounterTypeOK, KeySound
  <2> QED
    BY <1>2, <2>4
<1> QED
  BY <1>3, <1>4 DEF Evict

(* Every step of the counter keeps the invariant.                          *)
LEMMA StepInv == Inv /\ [Next]_vars => Inv'
<1> SUFFICES ASSUME Inv, [Next]_vars PROVE Inv'
  OBVIOUS
<1>1. CASE UNCHANGED vars
  <2>1. UNCHANGED <<deleted, liked, toggles, counter, ttl, age, counted, slack>>
    BY <1>1 DEF vars, keyVars, rowVars
  <2>2. UNCHANGED <<op, who, seen, knows, readSlack>>
    BY <1>1 DEF vars, requestVars, readVars
  <2> QED
    BY <2>1, <2>2 DEF Inv, CounterTypeOK, KeySound, RequestsSound
<1>2. ASSUME NEW p \in Requests, NEW u \in Users, Begin(p, u) PROVE Inv'
  BY <1>2, CalmStep DEF Begin, Ops, Bumps, rowVars, Inv, CounterTypeOK
<1>3. ASSUME NEW p \in Requests, Read(p) \/ BeginDelete(p) \/ GetMany(p)
      PROVE Inv'
  <2>1. PICK o \in {"get", "delete", "idle"} : Go(p, o, NoUser)
    BY <1>3 DEF Read, BeginDelete, GetMany
  <2>2. /\ UNCHANGED <<keyVars, liked, toggles, readVars>> /\ op[p] \notin Bumps
        /\ deleted' \in BOOLEAN
    BY <1>3 DEF Read, BeginDelete, GetMany, rowVars, Bumps, Inv, CounterTypeOK
  <2> QED
    BY <2>1, <2>2, CalmStep DEF Ops
<1>4. ASSUME NEW p \in Requests, Delete(p) \/ Remove(p) PROVE Inv'
  <2>1. PICK o \in {"remove", "idle"} : Go(p, o, NoUser)
    BY <1>4 DEF Delete, Remove
  <2>2. /\ UNCHANGED <<liked, toggles, readVars>> /\ (UNCHANGED keyVars \/ DropKey)
        /\ op[p] \notin Bumps /\ deleted' \in BOOLEAN
    BY <1>4 DEF Delete, Remove, rowVars, Bumps, Inv, CounterTypeOK
  <2> QED
    BY <2>1, <2>2, CalmStep DEF Ops
<1>5. ASSUME NEW p \in Requests, RequestFails(p), op[p] \notin Bumps PROVE Inv'
  <2>1. p \notin Pending
    BY <1>5 DEF Pending, Bumps
  <2> QED
    BY <1>5, <2>1, CalmStep DEF RequestFails, Ops, rowVars, Inv, CounterTypeOK
<1>6. ASSUME NEW p \in Requests, Like(p) \/ Unlike(p) PROVE Inv'
  BY <1>6, ToggleStep
<1>7. ASSUME NEW p \in Requests, Bump(p) \/ CountByPosts(p) \/ Backfill(p)
      PROVE Inv'
  BY <1>7, BumpStep, CountStep, BackfillStep
<1>8. ASSUME NEW p \in Requests, BumpFails(p) \/ RequestFails(p) PROVE Inv'
  <2>1. BumpFails(p) => op[p] \in Bumps
    BY DEF BumpFails, Bumps
  <2> QED
    BY <1>5, <1>8, <2>1, BumpLostStep
<1>9. CASE Tick \/ Evict
  BY <1>9, KeyStep
<1> QED
  BY <1>1, <1>2, <1>3, <1>4, <1>6, <1>7, <1>8, <1>9 DEF Next, Proceed

(* Every behaviour of the like counter keeps the strengthening.            *)
THEOREM Invariant == Spec => []Inv
<1> QED
  BY InitInv, StepInv, PTL DEF Spec

-----------------------------------------------------------------------------
(* The safety properties *)

(* The count a user is shown is a natural number.                          *)
THEOREM TypeCorrect == Spec => []CounterTypeOK
<1>1. Inv => CounterTypeOK
  BY DEF Inv
<1> QED
  BY <1>1, Invariant, PTL

(* No key lives longer than the TTL its fill gave it.                      *)
THEOREM CeilingIsHard == Spec => []HardCeiling
<1>1. Inv => HardCeiling
  BY LikeCounterAssumption DEF Inv, CounterTypeOK, KeySound, HardCeiling
<1> QED
  BY <1>1, Invariant, PTL

(* Once the bumps still to come are in, the cached count is off by no more *)
(* than the writes that the key has twice or never got.                    *)
THEOREM DriftIsBounded == Spec => []DriftBounded
<1>1. Inv => DriftBounded
  <2> SUFFICES ASSUME Inv, counter # Missing
               PROVE  Distance(counter + Owed(counted), Cardinality(liked)) <= slack
    BY DEF DriftBounded
  <2>1. /\ Around(op, liked, counter, counted, slack) /\ counter \in Nat
        /\ slack \in Nat /\ liked \in SUBSET Users
    BY DEF Inv, KeySound, CounterTypeOK
  <2>2. Cardinality(liked) \in Nat
    BY <2>1, LikedType
  <2>3. /\ AtOutside(counted, "incr") = At(op, counted, "incr")
        /\ AtOutside(counted, "decr") = At(op, counted, "decr")
    BY DEF AtOutside, At
  <2>4. At(op, counted, "incr") \in Nat /\ At(op, counted, "decr") \in Nat
    BY AtType
  <2> QED
    BY <2>1, <2>2, <2>3, <2>4 DEF Around, Distance, Owed
<1> QED
  BY <1>1, Invariant, PTL
=============================================================================
