--------------------------- MODULE HopReuseProofs ---------------------------
(***************************************************************************)
(* Theorems about the chains of hops, for any forwards, any routes, any    *)
(* number of clients and connections.                                      *)
(***************************************************************************)
EXTENDS HopReuse, SequenceTheorems, TLAPS

-----------------------------------------------------------------------------
(* Routes and the signatures of the chains up to their hops.               *)

LEMMA RouteTyped ==
    ASSUME TypeOK, NEW f \in Forwards
    PROVE  /\ route[f] \in Seq(STRING) /\ route[f] # <<>>
           /\ route[f] \in Routes
<1>1. route \in Configured /\ route \in [Forwards -> Seq(STRING) \ {<<>>}]
  BY RoutesAssumption DEF TypeOK
<1>2. {route[g] : g \in Forwards} \in {{h[g] : g \in Forwards} : h \in Configured}
  BY <1>1, Zenon
<1>3. route[f] \in {route[g] : g \in Forwards}
  OBVIOUS
<1>4. route[f] \in Routes
  BY <1>2, <1>3, Zenon DEF Routes
<1>5. QED
  BY <1>1, <1>4

LEMMA RouteParts ==
    ASSUME TypeOK, NEW f \in Forwards, NEW n \in 1..Len(route[f])
    PROVE  /\ SubSeq(route[f], 1, n) \in Keys
           /\ Len(SubSeq(route[f], 1, n)) = n
           /\ \A i \in 1..n : SubSeq(route[f], 1, n)[i] = route[f][i]
           /\ DOMAIN SubSeq(route[f], 1, n) = 1..n
           /\ Last(SubSeq(route[f], 1, n)) \in Hosts
<1> DEFINE k == SubSeq(route[f], 1, n)
<1>1. route[f] \in Seq(STRING) /\ route[f] \in Routes
  BY RouteTyped
<1>2. \A i \in 1..n : route[f][i] \in STRING
  BY <1>1, ElementOfSeq, LenProperties
<1>3. k \in Seq(STRING) /\ Len(k) = n /\ \A i \in 1..n : k[i] = route[f][i]
  BY <1>2, SubSeqProperties
<1>4. DOMAIN k = 1..n
  BY <1>3, LenProperties
<1>5. k \in Prefixes(route[f]) /\ k # <<>>
  BY <1>3, LenProperties DEF Prefixes
<1>6. k[n] \in ToSet(route[f])
  BY <1>1, <1>3, LenProperties DEF ToSet
<1>7. Last(k) \in Hosts
  <2>1. ToSet(route[f]) \in {ToSet(r) : r \in Routes}
    BY <1>1, Zenon
  <2>2. k[n] \in Hosts
    BY <1>6, <2>1 DEF Hosts
  <2>3. Last(k) = k[n]
    BY <1>3 DEF Last
  <2>4. QED
    BY <2>2, <2>3
<1>8. k \in Keys
  <2>1. Prefixes(route[f]) \in {Prefixes(r) : r \in Routes}
    BY <1>1, Zenon
  <2> HIDE DEF k
  <2>2. k \in UNION {Prefixes(r) : r \in Routes}
    BY <1>5, <2>1
  <2>3. k \notin {<<>>}
    BY <1>5
  <2>4. QED
    BY <2>2, <2>3 DEF Keys
<1>9. QED
  BY <1>3, <1>4, <1>7, <1>8

LEMMA WholeRoute ==
    ASSUME TypeOK, NEW f \in Forwards
    PROVE  /\ route[f] \in Keys /\ Len(route[f]) \in Nat \ {0}
           /\ SubSeq(route[f], 1, Len(route[f])) = route[f]
<1>1. route[f] \in Seq(STRING) /\ route[f] # <<>>
  BY RouteTyped
<1>2. Len(route[f]) \in Nat \ {0}
  BY <1>1, EmptySeq, LenProperties
<1>3. SubSeq(route[f], 1, Len(route[f])) = route[f]
  BY <1>1, SubSeqFull
<1>4. Len(route[f]) \in 1..Len(route[f])
  BY <1>2
<1>5. SubSeq(route[f], 1, Len(route[f])) \in Keys
  BY <1>4, RouteParts
<1>6. QED
  BY <1>2, <1>3, <1>5

-----------------------------------------------------------------------------
(* The hops a call has so far.                                             *)

LEMMA HopsTyped ==
    ASSUME TypeOK, NEW f \in Forwards
    PROVE  /\ Len(hopInfos[f]) \in Nat /\ DOMAIN hopInfos[f] = 1..Len(hopInfos[f])
           /\ \A i \in DOMAIN hopInfos[f] : hopInfos[f][i] \in HopInfo
           /\ \A i \in DOMAIN hopInfos[f] : hopInfos[f][i].client \in Clients
           /\ Len(hopInfos[f]) = 0 <=> hopInfos[f] = <<>>
<1>1. hopInfos[f] \in Seq(HopInfo)
  BY DEF TypeOK
<1>2. \A i \in DOMAIN hopInfos[f] : hopInfos[f][i] \in HopInfo
  BY <1>1, ElementOfSeq, LenProperties
<1>3. QED
  BY <1>1, <1>2, EmptySeq, LenProperties DEF HopInfo

(* What Last(hopInfos).client and the loop over hopInfos in Acquire give.  *)
LEMMA HopClients ==
    ASSUME TypeOK, NEW f \in Forwards, Len(hopInfos[f]) > 0
    PROVE  /\ Last(hopInfos[f]).client \in Clients
           /\ Len(hopInfos[f]) \in DOMAIN hopInfos[f]
           /\ hopInfos[f][Len(hopInfos[f])].client = Last(hopInfos[f]).client
           /\ [i \in DOMAIN hopInfos[f] |-> hopInfos[f][i].client] \in Seq(Clients)
<1>1. Len(hopInfos[f]) \in DOMAIN hopInfos[f]
  BY HopsTyped
<1>2. [i \in 1..Len(hopInfos[f]) |-> hopInfos[f][i].client] \in Seq(Clients)
  BY HopsTyped, IsASeq
<1>3. QED
  BY <1>1, <1>2, HopsTyped DEF Last

LEMMA HopAdded ==
    ASSUME TypeOK, NEW f \in Forwards, NEW l \in Clients,
           NEW s \in {"created", "reused"}, AddHop(f, l, s)
    PROVE  /\ hopInfos' \in [Forwards -> Seq(HopInfo)]
           /\ \A g \in Forwards \ {f} : hopInfos'[g] = hopInfos[g]
           /\ Len(hopInfos'[f]) = Len(hopInfos[f]) + 1
           /\ DOMAIN hopInfos'[f] = 1..Len(hopInfos[f]) + 1
           /\ \A i \in DOMAIN hopInfos[f] : hopInfos'[f][i] = hopInfos[f][i]
           /\ hopInfos'[f][Len(hopInfos[f]) + 1] = [client |-> l, source |-> s]
<1> DEFINE h == [client |-> l, source |-> s]
<1>1. h \in HopInfo /\ hopInfos[f] \in Seq(HopInfo)
  BY DEF HopInfo, TypeOK
<1>2. /\ hopInfos' = [hopInfos EXCEPT ![f] = Append(hopInfos[f], h)]
      /\ hopInfos \in [Forwards -> Seq(HopInfo)]
  BY DEF AddHop, TypeOK
<1> HIDE DEF h
<1>3. /\ Append(hopInfos[f], h) \in Seq(HopInfo)
      /\ Len(Append(hopInfos[f], h)) = Len(hopInfos[f]) + 1
      /\ \A i \in 1..Len(hopInfos[f]) : Append(hopInfos[f], h)[i] = hopInfos[f][i]
      /\ Append(hopInfos[f], h)[Len(hopInfos[f]) + 1] = h
  BY <1>1, AppendProperties
<1>4. DOMAIN Append(hopInfos[f], h) = 1..Len(hopInfos[f]) + 1
  BY <1>3, LenProperties
<1>5. hopInfos'[f] = Append(hopInfos[f], h)
  BY <1>2
<1>6. hopInfos' \in [Forwards -> Seq(HopInfo)]
  BY <1>2, <1>3
<1>7. \A g \in Forwards \ {f} : hopInfos'[g] = hopInfos[g]
  BY <1>2
<1>8. QED
  BY <1>3, <1>4, <1>5, <1>6, <1>7, HopsTyped DEF h

(* The clients a call has dialled.                                         *)
LEMMA CreatedAre ==
    ASSUME NEW g \in Forwards, NEW l
    PROVE  l \in Created(g) <=>
               \E i \in DOMAIN hopInfos[g] :
                   hopInfos[g][i].source = "created" /\ hopInfos[g][i].client = l
<1>1. ASSUME l \in Created(g)
      PROVE  \E i \in DOMAIN hopInfos[g] :
                 hopInfos[g][i].source = "created" /\ hopInfos[g][i].client = l
  <2> DEFINE made == {j \in DOMAIN hopInfos[g] : hopInfos[g][j].source = "created"}
  <2>1. PICK i \in made : hopInfos[g][i].client = l
    BY <1>1, Zenon DEF Created
  <2>2. i \in DOMAIN hopInfos[g] /\ hopInfos[g][i].source = "created"
    BY <2>1, Zenon
  <2>3. QED
    BY <2>1, <2>2, Zenon
<1>2. ASSUME NEW i \in DOMAIN hopInfos[g],
             hopInfos[g][i].source = "created", hopInfos[g][i].client = l
      PROVE  l \in Created(g)
  <2>1. i \in {j \in DOMAIN hopInfos[g] : hopInfos[g][j].source = "created"}
    BY <1>2, Zenon
  <2>2. QED
    BY <1>2, <2>1, Zenon DEF Created
<1>3. QED
  BY <1>1, <1>2, Zenon

LEMMA CreatedKept ==
    ASSUME NEW g \in Forwards, hopInfos'[g] = hopInfos[g]
    PROVE  Created(g)' = Created(g)
BY Zenon DEF Created

LEMMA CreatedGrows ==
    ASSUME TypeOK, NEW f \in Forwards, NEW l \in Clients,
           NEW s \in {"created", "reused"}, AddHop(f, l, s)
    PROVE  /\ \A g \in Forwards : Created(g) \subseteq Created(g)'
           /\ s = "created" => l \in Created(f)'
<1> DEFINE n == Len(hopInfos[f]) + 1
<1>0. /\ \A g \in Forwards \ {f} : hopInfos'[g] = hopInfos[g]
      /\ n \in DOMAIN hopInfos'[f]
      /\ \A i \in DOMAIN hopInfos[f] :
            i \in DOMAIN hopInfos'[f] /\ hopInfos'[f][i] = hopInfos[f][i]
      /\ hopInfos'[f][n] = [client |-> l, source |-> s]
  <2>1. /\ \A g \in Forwards \ {f} : hopInfos'[g] = hopInfos[g]
        /\ DOMAIN hopInfos'[f] = 1..n
        /\ \A i \in DOMAIN hopInfos[f] : hopInfos'[f][i] = hopInfos[f][i]
        /\ hopInfos'[f][n] = [client |-> l, source |-> s]
    BY HopAdded, Zenon
  <2>2. DOMAIN hopInfos[f] = 1..Len(hopInfos[f]) /\ Len(hopInfos[f]) \in Nat
    BY HopsTyped, Zenon
  <2>3. n \in 1..n /\ 1..Len(hopInfos[f]) \subseteq 1..n
    BY <2>2
  <2>4. QED
    BY <2>1, <2>2, <2>3, Zenon
<1> HIDE DEF n
<1>1. ASSUME NEW g \in Forwards, g # f
      PROVE  Created(g)' = Created(g)
  BY <1>0, <1>1, CreatedKept, Zenon
<1>2. ASSUME NEW m \in Created(f)
      PROVE  m \in Created(f)'
  <2>1. PICK j \in DOMAIN hopInfos[f] :
            hopInfos[f][j].source = "created" /\ hopInfos[f][j].client = m
    BY CreatedAre, Zenon
  <2>2. QED
    BY <1>0, <2>1, Zenon DEF Created
<1>3. s = "created" => l \in Created(f)'
  <2> SUFFICES ASSUME s = "created" PROVE l \in Created(f)'
    OBVIOUS
  <2>1. hopInfos'[f][n].client = l /\ hopInfos'[f][n].source = "created"
    BY <1>0
  <2>2. QED
    BY <1>0, <2>1, Zenon DEF Created
<1>4. QED
  BY <1>1, <1>2, <1>3

-----------------------------------------------------------------------------
(* Clients that are closed, and a client that is dialled.                  *)

LEMMA Closing ==
    ASSUME TypeOK, NEW L, CloseClients(L)
    PROVE  /\ path' \in [Clients -> Seq(Clients)]
           /\ host' \in [Clients -> Hosts \cup {""}]
           /\ \A l \in Clients : Up(l)' => Up(l) /\ l \notin L
           /\ \A l \in Clients : Alive(l)' => Alive(l) /\ Over(l)' = Over(l)
<1>1. path' \in [Clients -> Seq(Clients)] /\ host' \in [Clients -> Hosts \cup {""}]
  BY EmptySeq DEF TypeOK, CloseClients
<1>2. \A l \in Clients : Up(l)' => Up(l) /\ l \notin L /\ path'[l] = path[l]
  BY DEF CloseClients, Up
<1>3. ASSUME NEW l \in Clients, Alive(l)'
      PROVE  Alive(l) /\ Over(l)' = Over(l)
  <2>1. path'[l] = path[l] /\ Up(l)
    BY <1>2, <1>3 DEF Alive
  <2>2. \A i \in DOMAIN path[l] : path[l][i] \in Clients
    BY ElementOfSeq, LenProperties DEF TypeOK
  <2>3. \A i \in DOMAIN path[l] : path[l][i] \in ToSet(path[l])
    BY DEF ToSet
  <2>4. \A m \in ToSet(path[l]) : Up(m)'
    BY <1>3, <2>1 DEF Alive
  <2>5. \A m \in ToSet(path[l]) : m \in Clients
    BY <2>2 DEF ToSet
  <2>6. Alive(l)
    BY <1>2, <2>1, <2>4, <2>5, RoutesAssumption DEF Alive
  <2>7. \A i \in DOMAIN path[l] : host'[path[l][i]] = host[path[l][i]]
    BY <1>2, <2>2, <2>3, <2>4 DEF CloseClients
  <2>8. Over(l)' = Over(l)
    BY <2>1, <2>7 DEF Over
  <2>9. QED
    BY <2>6, <2>8
<1>4. QED
  BY <1>1, <1>2, <1>3

LEMMA NothingCut ==
    ASSUME UNCHANGED clientVars
    PROVE  \A l \in Clients :
               /\ Up(l)' = Up(l) /\ Alive(l)' = Alive(l) /\ Over(l)' = Over(l)
BY DEF clientVars, Up, Alive, Over

(* The client that DialHop makes is one that nothing refers to.            *)
LEMMA DialPicks ==
    ASSUME NEW f \in Forwards, DialHop(f)
    PROVE  \E l \in FreshClients :
               /\ AddHop(f, l, "created")
               /\ path' = [path EXCEPT ![l] =
                              Append(IF hopInfos[f] = <<>> THEN <<>>
                                     ELSE path[Last(hopInfos[f]).client], l)]
               /\ host' = [host EXCEPT ![l] = Last(Key(f))]
<1> DEFINE l == CHOOSE m \in FreshClients : TRUE
<1>1. l \in FreshClients
  <2>1. \E m \in FreshClients : TRUE
    BY Zenon DEF DialHop
  <2>2. QED
    BY <2>1, Zenon
<1>2. /\ AddHop(f, l, "created")
      /\ path' = [path EXCEPT ![l] =
                     Append(IF hopInfos[f] = <<>> THEN <<>>
                            ELSE path[Last(hopInfos[f]).client], l)]
      /\ host' = [host EXCEPT ![l] = Last(Key(f))]
  BY Zenon DEF DialHop
<1> HIDE DEF l
<1>3. QED
  BY <1>1, <1>2, Zenon

LEMMA NothingRefers ==
    ASSUME NEW l \in FreshClients
    PROVE  /\ l \in Clients /\ ~Up(l)
           /\ \A m \in Clients : l \notin ToSet(path[m])
           /\ \A c \in Conns : l # client[c] /\ l \notin ToSet(all[c])
           /\ \A f \in Forwards : \A i \in DOMAIN hopInfos[f] :
                 l # hopInfos[f][i].client
BY Zenon DEF FreshClients

(* The machines behind a path one client longer.                           *)
LEMMA OneFurther ==
    ASSUME TypeOK, NEW f \in Forwards, NEW n \in Nat, n < Len(route[f]),
           NEW l \in Clients, NEW through \in Seq(Clients),
           l \notin ToSet(through),
           [i \in DOMAIN through |-> host[through[i]]] = SubSeq(route[f], 1, n),
           path' = [path EXCEPT ![l] = Append(through, l)],
           host' = [host EXCEPT ![l] = route[f][n + 1]]
    PROVE  Over(l)' = SubSeq(route[f], 1, n + 1)
<1>1. route[f] \in Seq(STRING) /\ Len(route[f]) \in Nat
  BY RouteTyped, LenProperties
<1>2. \A i \in 1..n + 1 : route[f][i] \in STRING
  BY <1>1, ElementOfSeq, LenProperties
<1> DEFINE before == SubSeq(route[f], 1, n)
           after == SubSeq(route[f], 1, n + 1)
<1>3. /\ before \in Seq(STRING) /\ Len(before) = n
      /\ \A i \in 1..n : before[i] = route[f][i]
  BY <1>1, <1>2, SubSeqProperties
<1>4. /\ after \in Seq(STRING) /\ Len(after) = n + 1
      /\ \A i \in 1..n + 1 : after[i] = route[f][i]
  BY <1>1, <1>2, SubSeqProperties
<1>5. DOMAIN before = 1..n /\ DOMAIN after = 1..n + 1
  BY <1>3, <1>4, LenProperties
<1>6. DOMAIN through = 1..n /\ Len(through) = n
  <2>1. DOMAIN [i \in DOMAIN through |-> host[through[i]]] = DOMAIN through
    OBVIOUS
  <2>2. DOMAIN through = 1..n
    BY <1>5, <2>1
  <2>3. Len(through) \in Nat /\ DOMAIN through = 1..Len(through)
    BY LenProperties
  <2>4. QED
    BY <2>2, <2>3
<1>7. /\ Append(through, l) \in Seq(Clients) /\ Len(Append(through, l)) = n + 1
      /\ \A i \in 1..n : Append(through, l)[i] = through[i]
      /\ Append(through, l)[n + 1] = l
  BY <1>6, AppendProperties
<1>8. DOMAIN Append(through, l) = 1..n + 1
  BY <1>7, LenProperties
<1>9. path'[l] = Append(through, l)
  BY DEF TypeOK
<1>10. ASSUME NEW i \in 1..n + 1
       PROVE  host'[path'[l][i]] = after[i]
  <2>1. CASE i = n + 1
    BY <1>4, <1>7, <1>9, <2>1 DEF TypeOK
  <2>2. CASE i \in 1..n
    <3>1. through[i] \in Clients /\ through[i] # l
      BY <1>6, <2>2, ElementOfSeq DEF ToSet
    <3>2. host'[path'[l][i]] = host[through[i]]
      BY <1>7, <1>9, <2>2, <3>1 DEF TypeOK
    <3>3. [j \in DOMAIN through |-> host[through[j]]][i] = host[through[i]]
      BY <1>6, <2>2
    <3>4. host[through[i]] = before[i]
      BY <3>3
    <3>5. QED
      BY <1>3, <1>4, <2>2, <3>2, <3>4
  <2>3. QED
    BY <2>1, <2>2
<1> HIDE DEF before, after
<1>11. Over(l)' = [i \in 1..n + 1 |-> host'[path'[l][i]]]
  BY <1>8, <1>9 DEF Over
<1>12. after = [i \in 1..n + 1 |-> after[i]]
  BY <1>4, <1>5, LenProperties
<1>13. Over(l)' = after
  BY <1>10, <1>11, <1>12
<1>14. QED
  BY <1>13 DEF after

(* What a dial leaves alone, and what the new client runs over.            *)
LEMMA Dialled ==
    ASSUME HopIInv, NEW f \in Forwards, DialHop(f)
    PROVE  /\ path' \in [Clients -> Seq(Clients)]
           /\ host' \in [Clients -> Hosts \cup {""}]
           /\ \E l \in Clients :
                 /\ AddHop(f, l, "created")
                 /\ \A c \in Conns : l # client[c]
                 /\ \A g \in Forwards : \A i \in DOMAIN hopInfos[g] :
                       l # hopInfos[g][i].client
                 /\ Over(l)' = SubSeq(route[f], 1, Len(hopInfos[f]) + 1)
                 /\ \A m \in Clients \ {l} :
                       /\ Up(m)' => Up(m)
                       /\ Alive(m)' => Alive(m) /\ Over(m)' = Over(m)
<1> DEFINE n == Len(hopInfos[f])
           prev == Last(hopInfos[f]).client
           through == IF hopInfos[f] = <<>> THEN <<>> ELSE path[prev]
<1>1. TypeOK /\ n \in Nat /\ n < Len(route[f])
  BY HopsTyped DEF HopIInv, HopsCounted, DialHop
<1>2. PICK l \in FreshClients :
          /\ AddHop(f, l, "created")
          /\ path' = [path EXCEPT ![l] = Append(through, l)]
          /\ host' = [host EXCEPT ![l] = Last(Key(f))]
  BY DialPicks, Zenon
<1>3. /\ l \in Clients /\ ~Up(l)
      /\ \A m \in Clients : l \notin ToSet(path[m])
      /\ \A c \in Conns : l # client[c]
      /\ \A g \in Forwards : \A i \in DOMAIN hopInfos[g] : l # hopInfos[g][i].client
  BY NothingRefers, Zenon
<1>4. /\ through \in Seq(Clients) /\ l \notin ToSet(through)
      /\ [i \in DOMAIN through |-> host[through[i]]] = SubSeq(route[f], 1, n)
  <2>1. CASE hopInfos[f] = <<>>
    <3>1. n = 0 /\ SubSeq(route[f], 1, 0) = <<>> /\ DOMAIN through = {}
      BY <1>1, <2>1, EmptySeq, HopsTyped, SubSeqEmpty, RouteTyped
    <3>2. QED
      BY <2>1, <3>1, EmptySeq DEF ToSet
  <2>2. CASE hopInfos[f] # <<>>
    <3>1. n > 0
      BY <1>1, <2>2, HopsTyped
    <3>2. prev \in Clients /\ n \in DOMAIN hopInfos[f] /\ hopInfos[f][n].client = prev
      BY <1>1, <3>1, HopClients
    <3>3. through = path[prev] /\ path[prev] \in Seq(Clients)
      BY <1>1, <2>2, <3>2 DEF TypeOK
    <3>4. Alive(prev)
      BY <2>2, Zenon DEF DialHop
    <3>5. Over(prev) = SubSeq(route[f], 1, n)
      BY <3>2, <3>4, Zenon DEF HopIInv, RoutesKept, HopRoute
    <3>6. QED
      BY <1>3, <3>2, <3>3, <3>5 DEF Over
  <2>3. QED
    BY <2>1, <2>2
<1>5. Last(Key(f)) = route[f][n + 1] /\ Last(Key(f)) \in Hosts
  <2>1. Len(route[f]) \in Nat /\ n + 1 \in 1..Len(route[f])
    BY <1>1, WholeRoute
  <2>2. QED
    BY <1>1, <2>1, RouteParts DEF Key, Last
<1> HIDE DEF through, n
<1>6. path' \in [Clients -> Seq(Clients)] /\ host' \in [Clients -> Hosts \cup {""}]
  <2>1. Append(through, l) \in Seq(Clients)
    BY <1>3, <1>4, AppendProperties
  <2>2. QED
    BY <1>1, <1>2, <1>5, <2>1 DEF TypeOK
<1>7. Over(l)' = SubSeq(route[f], 1, n + 1)
  BY <1>1, <1>2, <1>3, <1>4, <1>5, OneFurther
<1>8. ASSUME NEW m \in Clients \ {l}
      PROVE  (Up(m)' => Up(m)) /\ (Alive(m)' => Alive(m) /\ Over(m)' = Over(m))
  <2>1. \A k \in Clients \ {l} : path'[k] = path[k] /\ host'[k] = host[k]
    BY <1>1, <1>2, <1>3 DEF TypeOK
  <2>2. \A k \in ToSet(path[m]) : k \in Clients \ {l}
    <3>1. \A i \in DOMAIN path[m] : path[m][i] \in Clients
      BY <1>1, ElementOfSeq, LenProperties, ZenonT(30) DEF TypeOK
    <3>2. QED
      BY <1>3, <3>1 DEF ToSet
  <2>3. \A i \in DOMAIN path[m] : path[m][i] \in Clients \ {l}
    BY <2>2 DEF ToSet
  <2>4. \A k \in Clients \ {l} : Up(k)' = Up(k)
    BY <2>1 DEF Up
  <2>5. Alive(m)' = Alive(m)
    BY <2>1, <2>2, <2>4 DEF Alive
  <2>6. Over(m)' = Over(m)
    BY <2>1, <2>3 DEF Over
  <2>7. QED
    BY <2>4, <2>5, <2>6
<1>9. QED
  BY <1>2, <1>3, <1>6, <1>7, <1>8 DEF n

-----------------------------------------------------------------------------
(* A connection that is put into the pool.                                 *)

LEMMA PoolPicks ==
    ASSUME NEW k, NEW l, NEW ls, PoolConn(k, l, ls)
    PROVE  /\ NewConn \in Conns /\ key[NewConn] = <<>>
           /\ \A f \in Forwards : conn[f] # NewConn
<1>1. NewConn \in FreshConns
  <2>1. \E c \in FreshConns : TRUE
    BY Zenon DEF PoolConn
  <2>2. QED
    BY <2>1, Zenon DEF NewConn
<1>2. QED
  BY <1>1, Zenon DEF FreshConns

LEMMA PoolTyped ==
    ASSUME TypeOK, NEW k \in Keys, NEW l \in Clients, NEW ls \in Seq(Clients),
           PoolConn(k, l, ls)
    PROVE  /\ pools' \in [Keys -> Conns \cup {NoConn}]
           /\ key' \in [Conns -> Keys \cup {<<>>}]
           /\ client' \in [Conns -> Clients \cup {NoClient}]
           /\ all' \in [Conns -> Seq(Clients)]
           /\ refCount' \in [Conns -> 0..MaxRefs]
           /\ status' \in [Conns -> {"active", "idle", "closed"}]
<1>1. NewConn \in Conns /\ 1 \in 0..MaxRefs
  BY PoolPicks, RoutesAssumption
<1>2. QED
  BY <1>1 DEF PoolConn, TypeOK

(* conn.Close and the clients it closes.                                   *)
LEMMA CloseTyped ==
    ASSUME TypeOK, NEW c \in Conns, NEW f, CloseConn(c, f)
    PROVE  /\ key' \in [Conns -> Keys \cup {<<>>}]
           /\ client' \in [Conns -> Clients \cup {NoClient}]
           /\ all' \in [Conns -> Seq(Clients)]
           /\ refCount' \in [Conns -> 0..MaxRefs]
           /\ status' \in [Conns -> {"active", "idle", "closed"}]
           /\ path' \in [Clients -> Seq(Clients)]
           /\ host' \in [Clients -> Hosts \cup {""}]
<1>0. refCount[c] \in 0..MaxRefs
  BY DEF TypeOK
<1>1. 0 \in 0..MaxRefs /\ <<>> \in Seq(Clients)
  BY RoutesAssumption, EmptySeq
<1>2. path' \in [Clients -> Seq(Clients)] /\ host' \in [Clients -> Hosts \cup {""}]
  <2>1. CloseClients(ClientsOf(c))
    BY Zenon DEF CloseConn
  <2>2. QED
    BY <2>1, Closing
<1>3. (IF HeldByOthers(c, f) THEN refCount[c] ELSE 0) \in 0..MaxRefs
  BY <1>0, <1>1
<1>4. QED
  BY <1>1, <1>2, <1>3 DEF CloseConn, TypeOK

LEMMA RefTaken ==
    ASSUME TypeOK, NEW c \in Conns, TakeRef(c)
    PROVE  /\ refCount' \in [Conns -> 0..MaxRefs]
           /\ status' \in [Conns -> {"active", "idle", "closed"}]
           /\ \A d \in Conns : status[d] # "closed" => status'[d] # "closed"
           /\ UNCHANGED <<key, client, all>>
<1>1. refCount[c] + 1 \in 0..MaxRefs
  <2>1. refCount[c] \in 0..MaxRefs
    BY DEF TypeOK
  <2>2. refCount[c] < MaxRefs /\ MaxRefs \in Nat
    BY RoutesAssumption DEF TakeRef
  <2>3. QED
    BY <2>1, <2>2
<1>2. QED
  BY <1>1 DEF TakeRef, TypeOK

LEMMA RefLet ==
    ASSUME TypeOK, NEW c \in Conns, NEW f, NEW n \in 0..MaxRefs,
           NEW s \in {"active", "idle", "closed"}, LetGo(c, f, n, s),
           s = "closed" => status[c] = "closed"
    PROVE  /\ refCount' \in [Conns -> 0..MaxRefs]
           /\ status' \in [Conns -> {"active", "idle", "closed"}]
           /\ \A d \in Conns : key[d] # <<>> /\ status[d] # "closed" =>
                 status'[d] # "closed"
           /\ UNCHANGED <<key, client, all>>
<1>1. 0 \in 0..MaxRefs
  BY RoutesAssumption
<1> DEFINE unseen == key[c] = <<>> /\ ~HeldByOthers(c, f)
<1>2. /\ refCount' = [refCount EXCEPT ![c] = IF unseen THEN 0 ELSE n]
      /\ status' = [status EXCEPT ![c] = IF unseen THEN "closed" ELSE s]
      /\ UNCHANGED <<key, client, all>>
  BY Zenon DEF LetGo
<1>3. unseen => key[c] = <<>>
  OBVIOUS
<1> HIDE DEF unseen
<1>4. QED
  BY <1>1, <1>2, <1>3 DEF TypeOK

(* What Release leaves of the count and of the status.                     *)
LEMMA RefReleased ==
    ASSUME TypeOK, NEW c \in Conns
    PROVE  /\ (IF refCount[c] > 0 THEN refCount[c] - 1 ELSE 0) \in 0..MaxRefs
           /\ (IF refCount[c] = 1 THEN "idle" ELSE status[c])
                 \in {"active", "idle", "closed"}
           /\ (IF refCount[c] = 1 THEN "idle" ELSE status[c]) = "closed" =>
                 status[c] = "closed"
<1>1. refCount[c] \in 0..MaxRefs /\ status[c] \in {"active", "idle", "closed"}
      /\ MaxRefs \in Nat
  BY RoutesAssumption DEF TypeOK
<1>2. QED
  BY <1>1

-----------------------------------------------------------------------------
(* The chain up to the next hop.                                           *)

LEMMA NextKey ==
    ASSUME TypeOK, NEW f \in Forwards, Len(hopInfos[f]) < Len(route[f])
    PROVE  /\ Key(f) \in Keys
           /\ Key(f) = route[f] <=> Len(hopInfos[f]) + 1 = Len(route[f])
<1>1. /\ Len(hopInfos[f]) \in Nat /\ Len(route[f]) \in Nat
      /\ Len(hopInfos[f]) + 1 \in 1..Len(route[f])
  BY HopsTyped, WholeRoute
<1>2. Key(f) \in Keys /\ Len(Key(f)) = Len(hopInfos[f]) + 1
  BY <1>1, RouteParts DEF Key
<1>3. Len(hopInfos[f]) + 1 = Len(route[f]) => Key(f) = route[f]
  BY WholeRoute DEF Key
<1>4. QED
  BY <1>2, <1>3

(* What a forward that is at one of these steps has.                       *)
LEMMA AtStep ==
    ASSUME HopIInv, NEW f \in Forwards
    PROVE  /\ pc[f] \notin {"hop", "probe", "dial", "add", "insert"} =>
                 hopInfos[f] = <<>> /\ Len(hopInfos[f]) = 0
           /\ pc[f] \in {"hop", "probe", "dial"} =>
                 Len(hopInfos[f]) < Len(route[f]) /\ Key(f) \in Keys
           /\ pc[f] \in {"check", "probe", "result", "using"} => conn[f] \in Conns
           /\ pc[f] = "add" =>
                 /\ Len(hopInfos[f]) \in 1..Len(route[f]) - 1
                 /\ SubSeq(route[f], 1, Len(hopInfos[f])) \in Keys
           /\ pc[f] = "insert" => Len(hopInfos[f]) = Len(route[f])
           /\ pc[f] \in {"add", "insert"} => Len(hopInfos[f]) > 0
<1>1. Len(hopInfos[f]) \in Nat /\ Len(route[f]) \in Nat \ {0} /\ TypeOK
  BY HopsTyped, WholeRoute DEF HopIInv
<1>2. /\ pc[f] \notin {"hop", "probe", "dial", "add", "insert"} =>
            Len(hopInfos[f]) = 0
      /\ pc[f] \in {"hop", "probe", "dial"} => Len(hopInfos[f]) < Len(route[f])
      /\ pc[f] = "add" => 0 < Len(hopInfos[f]) /\ Len(hopInfos[f]) < Len(route[f])
      /\ pc[f] = "insert" => Len(hopInfos[f]) = Len(route[f])
  BY Zenon DEF HopIInv, HopsCounted
<1>3. ASSUME pc[f] = "add"
      PROVE  SubSeq(route[f], 1, Len(hopInfos[f])) \in Keys
  <2>1. Len(hopInfos[f]) \in 1..Len(route[f])
    BY <1>1, <1>2, <1>3
  <2>2. QED
    BY <1>1, <2>1, RouteParts
<1>4. pc[f] \in {"check", "probe", "result", "using"} => conn[f] \in Conns
  BY Zenon DEF HopIInv, ConnInHand, InHand
<1>5. pc[f] \in {"hop", "probe", "dial"} => Key(f) \in Keys
  BY <1>1, <1>2, NextKey
<1>6. QED
  BY <1>1, <1>2, <1>3, <1>4, <1>5, HopsTyped

(* A connection that answers has a client, and is open.                    *)
LEMMA AnswersOver ==
    ASSUME HopIInv, NEW c \in Conns, Answers(c)
    PROVE  key[c] # <<>> /\ client[c] \in Clients /\ Alive(client[c])
<1>1. Alive(client[c]) /\ client[c] # NoClient
  BY Zenon DEF Answers, Alive
<1>2. key[c] # <<>>
  BY <1>1, Zenon DEF HopIInv, PooledByKey
<1>3. client[c] \in Clients
  BY <1>1 DEF HopIInv, TypeOK
<1>4. QED
  BY <1>1, <1>2, <1>3

LEMMA InPool ==
    ASSUME HopIInv, NEW k \in Keys
    PROVE  /\ k # <<>>
           /\ pools[k] \in Conns \cup {NoConn}
           /\ pools[k] # NoConn =>
                 /\ pools[k] \in Conns /\ status[pools[k]] # "closed"
                 /\ key[pools[k]] = k
<1>1. pools[k] \in Conns \cup {NoConn}
  BY DEF HopIInv, TypeOK
<1>2. pools[k] # NoConn => status[pools[k]] # "closed" /\ key[pools[k]] = k
  BY Zenon DEF HopIInv, PooledByKey
<1>3. k # <<>>
  BY DEF Keys
<1>4. QED
  BY <1>1, <1>2, <1>3

(* Finish(f): the callers go on with what the call returns.                *)
LEMMA Callers ==
    ASSUME HopIInv, NEW f \in Forwards, Finish(f)
    PROVE  /\ Outcome(f) \in {"forget", "result", "using"}
           /\ conn[f] = NoConn => Outcome(f) = "forget"
           /\ \A g \in Forwards :
                 \/ /\ pc'[g] = Outcome(f) /\ conn'[g] = conn[f]
                    /\ pc[g] \in {"wait", "finish"} /\ route[g] = route[f]
                 \/ /\ pc'[g] = pc[g] /\ conn'[g] = conn[g]
                    /\ leader'[g] = leader[g]
<1>1. ASSUME NEW g \in Waiters(f) \cup {f}
      PROVE  /\ pc'[g] = Outcome(f) /\ conn'[g] = conn[f]
             /\ pc[g] \in {"wait", "finish"} /\ route[g] = route[f]
  <2>1. /\ pc[f] = "finish" /\ g \in Forwards
        /\ g = f \/ (pc[g] = "wait" /\ leader[g] = f)
    BY Zenon DEF Finish, Waiters
  <2>2. pc'[g] = Outcome(f) /\ conn'[g] = conn[f]
    BY <2>1, Zenon DEF Finish
  <2>3. route[g] = route[f]
    BY <2>1, Zenon DEF HopIInv, CallsByRoute
  <2>4. QED
    BY <2>1, <2>2, <2>3
<1>2. ASSUME NEW g \in Forwards, g \notin Waiters(f) \cup {f}
      PROVE  pc'[g] = pc[g] /\ conn'[g] = conn[g] /\ leader'[g] = leader[g]
  BY <1>2, Zenon DEF Finish
<1>3. /\ Outcome(f) \in {"forget", "result", "using"}
      /\ conn[f] = NoConn => Outcome(f) = "forget"
  BY DEF Outcome
<1>4. QED
  BY <1>1, <1>2, <1>3

-----------------------------------------------------------------------------
(* The initial states.                                                     *)

LEMMA InitHop == Init => HopIInv
<1> SUFFICES ASSUME Init PROVE HopIInv
  OBVIOUS
<1>1. TypeOK
  <2>1. 0 \in 0..MaxRefs /\ <<>> \in Seq(Clients) /\ <<>> \in Seq(HopInfo)
    BY RoutesAssumption, EmptySeq
  <2>2. QED
    BY <2>1 DEF Init, TypeOK
<1>2. HopsCounted
  <2>1. \A f \in Forwards : hopInfos[f] = <<>> /\ pc[f] = "out"
    BY DEF Init
  <2>2. \A f \in Forwards : Len(hopInfos[f]) = 0
    BY <1>1, <2>1, HopsTyped
  <2>3. QED
    BY <2>1, <2>2 DEF HopsCounted
<1>3. PooledByKey /\ ConnInHand /\ CallsByRoute
  BY RoutesAssumption DEF Init, PooledByKey, ConnInHand, InHand, CallsByRoute
<1>4. RoutesKept /\ NoClientLostUnlessDisplaced
  BY DEF Init, RoutesKept, ConnRoute, HopRoute, NoClientLostUnlessDisplaced,
         Kept, Up, Alive
<1>5. QED
  BY <1>1, <1>2, <1>3, <1>4 DEF HopIInv

-----------------------------------------------------------------------------
(* The steps.                                                              *)

LEMMA TypeStep ==
    ASSUME HopIInv, Next
    PROVE  TypeOK'
<1>0. TypeOK
  BY DEF HopIInv
<1>1. ASSUME NEW f \in Forwards, Lookup(f)
      PROVE  TypeOK'
  BY <1>0, <1>1, WholeRoute DEF Lookup, Goto, connVars, clientVars, TypeOK
<1>2. ASSUME NEW f \in Forwards, AcquireExisting(f) \/ AcquireShared(f)
      PROVE  TypeOK'
  <2>1. conn[f] \in Conns /\ TakeRef(conn[f])
    BY <1>2, AtStep DEF AcquireExisting, AcquireShared
  <2>2. QED
    BY <1>0, <1>2, <2>1, RefTaken
       DEF AcquireExisting, AcquireShared, Goto, clientVars, TypeOK
<1>3. ASSUME NEW f \in Forwards, DropDead(f)
      PROVE  TypeOK'
  <2>1. conn[f] \in Conns /\ CloseConn(conn[f], f)
    BY <1>3, AtStep DEF DropDead
  <2>2. displaced' \in SUBSET Conns
    <3>1. pools[route[f]] \in Conns \cup {NoConn}
      BY <1>0, WholeRoute DEF TypeOK
    <3>2. displaced' = (displaced \cup {pools[route[f]]}) \ {NoConn, conn[f]}
      BY <1>3, Zenon DEF DropDead
    <3>3. QED
      BY <1>0, <3>1, <3>2 DEF TypeOK
  <2>3. QED
    BY <1>0, <1>3, <2>1, <2>2, CloseTyped DEF DropDead, Goto, TypeOK
<1>4. ASSUME NEW f \in Forwards, Lead(f)
      PROVE  TypeOK'
  BY <1>0, <1>4 DEF Lead, Goto, connVars, clientVars, TypeOK
<1>5. ASSUME NEW f \in Forwards, Join(f)
      PROVE  TypeOK'
  BY <1>0, <1>5, RouteTyped DEF Join, Goto, connVars, clientVars, TypeOK
<1>6. ASSUME NEW f \in Forwards, DoubleCheck(f)
      PROVE  TypeOK'
  BY <1>0, <1>6, WholeRoute DEF DoubleCheck, Goto, connVars, clientVars, TypeOK
<1>7. ASSUME NEW f \in Forwards, Finish(f)
      PROVE  TypeOK'
  <2>1. /\ UNCHANGED <<route, pools, connVars, clientVars, hopInfos, displaced>>
        /\ flight' = [flight EXCEPT ![route[f]] =
                         IF @ = f THEN NoForward ELSE @]
        /\ pc' = [g \in Forwards |-> pc'[g]]
        /\ conn' = [g \in Forwards |-> conn'[g]]
    BY <1>7 DEF Finish
  <2>2. leader' \in [Forwards -> Forwards \cup {NoForward}]
    BY <1>0, <1>7 DEF Finish, TypeOK
  <2>3. \A g \in Forwards : pc'[g] \in {Outcome(f), pc[g]}
                            /\ conn'[g] \in {conn[f], conn[g]}
    BY <1>7, Callers
  <2>4. Outcome(f) \in {"forget", "result", "using"}
    BY <1>7, Callers
  <2>5. flight' \in [Routes -> Forwards \cup {NoForward}]
    BY <1>0, <2>1, WholeRoute DEF TypeOK
  <2>6. /\ pc' \in [Forwards -> {"out", "check", "join", "wait", "double", "hop",
                                "probe", "dial", "add", "insert", "finish",
                                "result", "forget", "using"}]
        /\ conn' \in [Forwards -> Conns \cup {NoConn}]
    <3>1. ASSUME NEW g \in Forwards
          PROVE  /\ pc'[g] \in {"out", "check", "join", "wait", "double", "hop",
                                "probe", "dial", "add", "insert", "finish",
                                "result", "forget", "using"}
                 /\ conn'[g] \in Conns \cup {NoConn}
      BY <1>0, <2>3, <2>4 DEF TypeOK
    <3>2. QED
      BY <2>1, <3>1
  <2>7. QED
    BY <1>0, <2>1, <2>2, <2>5, <2>6 DEF connVars, clientVars, TypeOK
<1>8. ASSUME NEW f \in Forwards, Forget(f)
      PROVE  TypeOK'
  BY <1>0, <1>8 DEF Forget, Goto, connVars, clientVars, TypeOK
<1>9. ASSUME NEW f \in Forwards, AcquireSharedFails(f)
      PROVE  TypeOK'
  <2>1. conn[f] \in Conns /\ status[conn[f]] = "closed"
        /\ LetGo(conn[f], f, refCount[conn[f]], "closed")
    BY <1>9, AtStep DEF AcquireSharedFails
  <2>2. refCount[conn[f]] \in 0..MaxRefs
    BY <1>0, <2>1 DEF TypeOK
  <2>3. QED
    BY <1>0, <1>9, <2>1, <2>2, RefLet
       DEF AcquireSharedFails, Goto, clientVars, TypeOK
<1>10. ASSUME NEW f \in Forwards, FindHop(f)
       PROVE  TypeOK'
  <2>1. pools[Key(f)] \in Conns \cup {NoConn}
    BY <1>0, <1>10, AtStep DEF FindHop, TypeOK
  <2>2. QED
    BY <1>0, <1>10, <2>1 DEF FindHop, Goto, connVars, clientVars, TypeOK
<1>11. ASSUME NEW f \in Forwards, ReuseHop(f)
       PROVE  TypeOK'
  <2>1. conn[f] \in Conns /\ TakeRef(conn[f]) /\ client[conn[f]] \in Clients
    BY <1>11, AtStep, AnswersOver DEF ReuseHop
  <2>2. hopInfos' \in [Forwards -> Seq(HopInfo)]
    BY <1>0, <1>11, <2>1, HopAdded DEF ReuseHop
  <2>3. QED
    BY <1>0, <1>11, <2>1, <2>2, RefTaken DEF ReuseHop, Goto, clientVars, TypeOK
<1>12. ASSUME NEW f \in Forwards, ReuseHopFails(f)
       PROVE  TypeOK'
  <2>1. conn[f] \in Conns /\ LetGo(conn[f], f, refCount[conn[f]], status[conn[f]])
    BY <1>12, AtStep DEF ReuseHopFails
  <2>2. /\ refCount[conn[f]] \in 0..MaxRefs
        /\ status[conn[f]] \in {"active", "idle", "closed"}
    BY <1>0, <2>1 DEF TypeOK
  <2>3. /\ refCount' \in [Conns -> 0..MaxRefs]
        /\ status' \in [Conns -> {"active", "idle", "closed"}]
        /\ UNCHANGED <<key, client, all>>
    BY <1>0, <2>1, <2>2, RefLet
  <2>4. QED
    BY <1>0, <1>12, <2>3 DEF ReuseHopFails, Goto, clientVars, TypeOK
<1>13. ASSUME NEW f \in Forwards, DialHop(f)
       PROVE  TypeOK'
  <2>1. hopInfos' \in [Forwards -> Seq(HopInfo)]
    BY <1>0, <1>13, Dialled, HopAdded
  <2>2. path' \in [Clients -> Seq(Clients)] /\ host' \in [Clients -> Hosts \cup {""}]
    BY <1>13, Dialled
  <2>3. QED
    BY <1>0, <1>13, <2>1, <2>2 DEF DialHop, Goto, connVars, TypeOK
<1>14. ASSUME NEW f \in Forwards, AddPartial(f)
       PROVE  TypeOK'
  <2> DEFINE k == SubSeq(route[f], 1, Len(hopInfos[f]))
             l == Last(hopInfos[f]).client
  <2>1. k \in Keys /\ l \in Clients /\ <<>> \in Seq(Clients)
    BY <1>0, <1>14, AtStep, HopClients, EmptySeq DEF AddPartial
  <2>2. PoolConn(k, l, <<>>) \/ UNCHANGED <<pools, connVars>>
    BY <1>14, Zenon DEF AddPartial
  <2> HIDE DEF k, l
  <2>3. CASE PoolConn(k, l, <<>>)
    BY <1>0, <1>14, <2>1, <2>3, PoolTyped DEF AddPartial, Goto, clientVars, TypeOK
  <2>4. CASE UNCHANGED <<pools, connVars>>
    BY <1>0, <1>14, <2>4 DEF AddPartial, Goto, connVars, clientVars, TypeOK
  <2>5. QED
    BY <2>2, <2>3, <2>4
<1>15. ASSUME NEW f \in Forwards, Insert(f)
       PROVE  TypeOK'
  <2> DEFINE l == Last(hopInfos[f]).client
             ls == [i \in DOMAIN hopInfos[f] |-> hopInfos[f][i].client]
  <2>1. route[f] \in Keys /\ l \in Clients /\ ls \in Seq(Clients)
    BY <1>0, <1>15, AtStep, HopClients, WholeRoute DEF Insert
  <2>2. PoolConn(route[f], l, ls)
    BY <1>15, Zenon DEF Insert
  <2>3. displaced' \in SUBSET Conns
    <3>1. displaced' = (displaced \cup {pools[route[f]]}) \ {NoConn}
      BY <1>15, Zenon DEF Insert
    <3>2. pools[route[f]] \in Conns \cup {NoConn}
      BY <1>0, <2>1 DEF TypeOK
    <3>3. QED
      BY <1>0, <3>1, <3>2 DEF TypeOK
  <2> HIDE DEF l, ls
  <2>4. NewConn \in Conns /\ <<>> \in Seq(HopInfo)
    BY <2>2, PoolPicks, EmptySeq
  <2>5. QED
    BY <1>0, <1>15, <2>1, <2>2, <2>3, <2>4, PoolTyped
       DEF Insert, Goto, clientVars, TypeOK
<1>16. ASSUME NEW f \in Forwards, EstablishFails(f)
       PROVE  TypeOK'
  <2>1. path' \in [Clients -> Seq(Clients)] /\ host' \in [Clients -> Hosts \cup {""}]
    BY <1>0, <1>16, Closing DEF EstablishFails
  <2>2. <<>> \in Seq(HopInfo)
    BY EmptySeq
  <2>3. QED
    BY <1>0, <1>16, <2>1, <2>2 DEF EstablishFails, Goto, connVars, TypeOK
<1>17. ASSUME NEW f \in Forwards, Release(f)
       PROVE  TypeOK'
  <2>1. conn[f] \in Conns
    BY <1>17, AtStep DEF Release
  <2>2. PICK n \in 0..MaxRefs, s \in {"active", "idle", "closed"} :
            LetGo(conn[f], f, n, s) /\ (s = "closed" => status[conn[f]] = "closed")
    BY <1>0, <1>17, <2>1, RefReleased DEF Release
  <2>3. /\ refCount' \in [Conns -> 0..MaxRefs]
        /\ status' \in [Conns -> {"active", "idle", "closed"}]
        /\ UNCHANGED <<key, client, all>>
    BY <1>0, <2>1, <2>2, RefLet
  <2>4. QED
    BY <1>0, <1>17, <2>3 DEF Release, Goto, clientVars, TypeOK
<1>18. ASSUME NEW c \in Conns, CloseIdle(c)
       PROVE  TypeOK'
  BY <1>0, <1>18, CloseTyped DEF CloseIdle, TypeOK
<1>19. ASSUME NEW c \in Conns, Evict(c)
       PROVE  TypeOK'
  BY <1>0, <1>19, CloseTyped DEF Evict, TypeOK
<1>20. ASSUME NEW l \in Clients, PeerLost(l)
       PROVE  TypeOK'
  BY <1>0, <1>20, Closing DEF PeerLost, connVars, TypeOK
<1>21. QED
  BY <1>1, <1>2, <1>3, <1>4, <1>5, <1>6, <1>7, <1>8, <1>9, <1>10, <1>11,
     <1>12, <1>13, <1>14, <1>15, <1>16, <1>17, <1>18, <1>19, <1>20 DEF Next

(* One call goes on, the others stay where they are.                       *)
LEMMA OneCall ==
    ASSUME HopIInv, NEW f \in Forwards, NEW s, Goto(f, s), route' = route,
           \A g \in Forwards \ {f} : hopInfos'[g] = hopInfos[g],
           s \in {"hop", "probe", "dial"} => Len(hopInfos'[f]) < Len(route[f]),
           s = "add" => 0 < Len(hopInfos'[f]) /\ Len(hopInfos'[f]) < Len(route[f]),
           s = "insert" => Len(hopInfos'[f]) = Len(route[f]),
           s \notin {"hop", "probe", "dial", "add", "insert"} =>
               Len(hopInfos'[f]) = 0
    PROVE  HopsCounted'
<1>1. pc'[f] = s /\ \A g \in Forwards \ {f} : pc'[g] = pc[g]
  BY DEF Goto, HopIInv, TypeOK
<1>2. HopsCounted
  BY DEF HopIInv
<1> DEFINE Counted(g, at, hops) ==
               /\ at \in {"hop", "probe", "dial"} => Len(hops) < Len(route[g])
               /\ at = "add" => 0 < Len(hops) /\ Len(hops) < Len(route[g])
               /\ at = "insert" => Len(hops) = Len(route[g])
               /\ at \notin {"hop", "probe", "dial", "add", "insert"} =>
                     Len(hops) = 0
<1>3. \A g \in Forwards : Counted(g, pc[g], hopInfos[g])
  BY <1>2, Zenon DEF HopsCounted
<1>4. \A g \in Forwards \ {f} : Counted(g, pc'[g], hopInfos'[g])
  <2> HIDE DEF Counted
  <2>1. QED
    BY <1>1, <1>3
<1>5. Counted(f, pc'[f], hopInfos'[f])
  BY <1>1, Zenon
<1>6. \A g \in Forwards : Counted(g, pc'[g], hopInfos'[g])
  <2> HIDE DEF Counted
  <2>1. QED
    BY <1>4, <1>5
<1>7. QED
  BY <1>6, Zenon DEF HopsCounted

LEMMA CountStep ==
    ASSUME HopIInv, Next
    PROVE  HopsCounted'
<1>0. TypeOK /\ HopsCounted
  BY DEF HopIInv
<1>e. Len(<<>>) = 0
  BY EmptySeq
<1>k. ASSUME UNCHANGED <<route, pc, hopInfos>>
      PROVE  HopsCounted'
  BY <1>0, <1>k DEF HopsCounted
<1>h. ASSUME NEW f \in Forwards, NEW s, Goto(f, s), route' = route,
             hopInfos' = hopInfos,
             \/ /\ s \in {"check", "join", "wait", "double", "finish", "using", "out"}
                /\ pc[f] \notin {"hop", "probe", "dial", "add", "insert"}
             \/ s \in {"probe", "dial"} /\ pc[f] \in {"hop", "probe"}
      PROVE  HopsCounted'
  <2>1. \/ s \in {"probe", "dial"} /\ Len(hopInfos'[f]) < Len(route[f])
        \/ /\ s \in {"check", "join", "wait", "double", "finish", "using", "out"}
           /\ Len(hopInfos'[f]) = 0
    BY <1>h, AtStep
  <2>2. QED
    BY <1>h, <2>1, OneCall
<1>1. ASSUME NEW f \in Forwards,
             \/ Lookup(f) \/ AcquireExisting(f) \/ DropDead(f) \/ Lead(f)
             \/ Join(f) \/ Forget(f) \/ AcquireShared(f)
             \/ AcquireSharedFails(f) \/ Release(f)
      PROVE  HopsCounted'
  <2>1. /\ UNCHANGED <<route, hopInfos>>
        /\ pc[f] \notin {"hop", "probe", "dial", "add", "insert"}
        /\ \E s \in {"check", "join", "wait", "double", "finish", "using", "out"} :
              Goto(f, s)
    BY <1>1 DEF Lookup, AcquireExisting, DropDead, Lead, Join, Forget,
                AcquireShared, AcquireSharedFails, Release
  <2>2. QED
    BY <1>h, <2>1
<1>2. ASSUME NEW f \in Forwards, DoubleCheck(f)
      PROVE  HopsCounted'
  <2>1. Len(hopInfos'[f]) = 0 /\ 0 < Len(route[f])
    BY <1>0, <1>2, AtStep, WholeRoute DEF DoubleCheck
  <2>2. QED
    BY <1>2, <2>1, OneCall DEF DoubleCheck
<1>3. ASSUME NEW f \in Forwards, Finish(f)
      PROVE  HopsCounted'
  <2>1. UNCHANGED <<route, hopInfos>>
    BY <1>3 DEF Finish
  <2>2. ASSUME NEW g \in Forwards
        PROVE  \/ pc'[g] = pc[g]
               \/ /\ Len(hopInfos[g]) = 0
                  /\ pc'[g] \notin {"hop", "probe", "dial", "add", "insert"}
    BY <1>3, Callers, AtStep
  <2>3. QED
    BY <1>0, <2>1, <2>2 DEF HopsCounted
<1>4. ASSUME NEW f \in Forwards, FindHop(f) \/ ReuseHopFails(f)
      PROVE  HopsCounted'
  <2>1. /\ UNCHANGED <<route, hopInfos>> /\ pc[f] \in {"hop", "probe"}
        /\ \E s \in {"probe", "dial"} : Goto(f, s)
    BY <1>4 DEF FindHop, ReuseHopFails
  <2>2. QED
    BY <1>h, <2>1
<1>5. ASSUME NEW f \in Forwards, NEW l \in Clients, NEW r \in {"created", "reused"},
             AddHop(f, l, r), pc[f] \in {"probe", "dial"}, route' = route,
             NEW s \in {"hop", "add"},
             Goto(f, IF Key(f) = route[f] THEN "insert" ELSE s)
      PROVE  HopsCounted'
  <2>1. /\ \A g \in Forwards \ {f} : hopInfos'[g] = hopInfos[g]
        /\ Len(hopInfos'[f]) = Len(hopInfos[f]) + 1
    BY <1>0, <1>5, HopAdded
  <2>2. /\ Len(hopInfos[f]) \in Nat /\ Len(route[f]) \in Nat
        /\ Len(hopInfos[f]) < Len(route[f])
        /\ Key(f) = route[f] <=> Len(hopInfos[f]) + 1 = Len(route[f])
    BY <1>0, <1>5, AtStep, NextKey, HopsTyped, WholeRoute
  <2>3. QED
    BY <1>5, <2>1, <2>2, OneCall
<1>6. ASSUME NEW f \in Forwards, ReuseHop(f)
      PROVE  HopsCounted'
  <2>1. conn[f] \in Conns /\ client[conn[f]] \in Clients
    BY <1>6, AtStep, AnswersOver DEF ReuseHop
  <2>2. QED
    BY <1>5, <1>6, <2>1 DEF ReuseHop
<1>7. ASSUME NEW f \in Forwards, DialHop(f)
      PROVE  HopsCounted'
  <2>1. PICK l \in Clients : AddHop(f, l, "created")
    BY <1>7, Dialled
  <2>2. Goto(f, IF Key(f) = route[f] THEN "insert" ELSE "add")
        /\ pc[f] = "dial" /\ route' = route
    BY <1>7, Zenon DEF DialHop
  <2>3. QED
    BY <1>5, <2>1, <2>2
<1>8. ASSUME NEW f \in Forwards, AddPartial(f)
      PROVE  HopsCounted'
  <2>1. UNCHANGED <<route, hopInfos>> /\ Goto(f, "hop") /\ pc[f] = "add"
    BY <1>8, Zenon DEF AddPartial
  <2>2. Len(hopInfos'[f]) < Len(route[f])
    BY <1>0, <2>1, Zenon DEF HopsCounted
  <2>3. QED
    BY <2>1, <2>2, OneCall
<1>9. ASSUME NEW f \in Forwards, Insert(f) \/ EstablishFails(f)
      PROVE  HopsCounted'
  <2>1. /\ hopInfos'[f] = <<>> /\ \A g \in Forwards \ {f} : hopInfos'[g] = hopInfos[g]
        /\ Goto(f, "finish") /\ route' = route
    BY <1>0, <1>9 DEF Insert, EstablishFails, TypeOK
  <2>2. QED
    BY <1>e, <2>1, OneCall
<1>10. ASSUME NEW c \in Conns, CloseIdle(c) \/ Evict(c)
       PROVE  HopsCounted'
  BY <1>k, <1>10, Zenon DEF CloseIdle, Evict
<1>11. ASSUME NEW l \in Clients, PeerLost(l)
       PROVE  HopsCounted'
  BY <1>k, <1>11, Zenon DEF PeerLost
<1>12. QED
  BY <1>1, <1>2, <1>3, <1>4, <1>6, <1>7, <1>8, <1>9, <1>10, <1>11 DEF Next

(* The calls of the singleflight group.                                    *)
LEMMA CallsStep ==
    ASSUME HopIInv, Next
    PROVE  CallsByRoute'
<1>0. /\ TypeOK /\ CallsByRoute
      /\ \A f \in Forwards : route[f] \in Routes
  BY RouteTyped DEF HopIInv
<1>k. ASSUME UNCHANGED <<route, leader>>,
             \A r \in Routes : flight'[r] \in {flight[r], NoForward},
             \A g \in Forwards : pc'[g] = "wait" => pc[g] = "wait"
      PROVE  CallsByRoute'
  BY <1>0, <1>k DEF CallsByRoute
<1>h. ASSUME NEW f \in Forwards, NEW s, Goto(f, s), s # "wait"
      PROVE  \A g \in Forwards : pc'[g] = "wait" => pc[g] = "wait"
  BY <1>0, <1>h DEF Goto, TypeOK
<1>1. ASSUME NEW f \in Forwards,
             \/ Lookup(f) \/ AcquireExisting(f) \/ DropDead(f) \/ DoubleCheck(f)
             \/ AcquireShared(f) \/ AcquireSharedFails(f) \/ FindHop(f)
             \/ ReuseHop(f) \/ ReuseHopFails(f) \/ Insert(f)
             \/ EstablishFails(f) \/ Release(f)
      PROVE  CallsByRoute'
  <2>1. /\ UNCHANGED <<route, flight, leader>>
        /\ \E s \in {"out", "check", "join", "hop", "probe", "dial", "insert",
                     "finish", "using"} : Goto(f, s)
    BY <1>1 DEF Lookup, AcquireExisting, DropDead, DoubleCheck, AcquireShared,
                AcquireSharedFails, FindHop, ReuseHop, ReuseHopFails, Insert,
                EstablishFails, Release
  <2>2. QED
    BY <1>k, <1>h, <2>1
<1>2. ASSUME NEW f \in Forwards, DialHop(f) \/ AddPartial(f)
      PROVE  CallsByRoute'
  <2>1. UNCHANGED <<route, flight, leader>>
    BY <1>2, Zenon DEF DialHop, AddPartial
  <2>2. \/ Goto(f, IF Key(f) = route[f] THEN "insert" ELSE "add")
        \/ Goto(f, "hop")
    BY <1>2, Zenon DEF DialHop, AddPartial
  <2>3. QED
    BY <1>k, <1>h, <2>1, <2>2
<1>3. ASSUME NEW f \in Forwards, Lead(f)
      PROVE  CallsByRoute'
  <2>1. /\ UNCHANGED <<route, leader>> /\ Goto(f, "double")
        /\ \A r \in Routes : flight'[r] = IF r = route[f] THEN f ELSE flight[r]
    BY <1>0, <1>3 DEF Lead, TypeOK
  <2>2. QED
    BY <1>0, <1>h, <2>1 DEF CallsByRoute
<1>4. ASSUME NEW f \in Forwards, Join(f)
      PROVE  CallsByRoute'
  <2>1. flight[route[f]] \in Forwards /\ route[flight[route[f]]] = route[f]
    <3>1. flight[route[f]] # NoForward
      BY <1>4 DEF Join
    <3>2. flight[route[f]] \in Forwards
      BY <1>0, <3>1 DEF TypeOK
    <3>3. QED
      BY <1>0, <3>1, <3>2, Zenon DEF CallsByRoute
  <2>2. /\ UNCHANGED <<route, flight>>
        /\ leader'[f] = flight[route[f]]
        /\ \A g \in Forwards \ {f} : leader'[g] = leader[g] /\ pc'[g] = pc[g]
    BY <1>0, <1>4 DEF Join, Goto, TypeOK
  <2>3. QED
    BY <1>0, <2>1, <2>2 DEF CallsByRoute
<1>5. ASSUME NEW f \in Forwards, Finish(f)
      PROVE  CallsByRoute'
  <2>1. /\ route' = route
        /\ \A r \in Routes : flight'[r] \in {flight[r], NoForward}
    BY <1>0, <1>5 DEF Finish, TypeOK
  <2>2. \A g \in Forwards : pc'[g] = "wait" =>
            pc[g] = "wait" /\ leader'[g] = leader[g]
    BY <1>5, Callers
  <2>3. QED
    BY <1>0, <2>1, <2>2 DEF CallsByRoute
<1>6. ASSUME NEW f \in Forwards, Forget(f)
      PROVE  CallsByRoute'
  <2>1. /\ UNCHANGED <<route, leader>> /\ Goto(f, "out")
        /\ \A r \in Routes : flight'[r] \in {flight[r], NoForward}
    BY <1>0, <1>6 DEF Forget, TypeOK
  <2>2. QED
    BY <1>k, <1>h, <2>1
<1>7. ASSUME NEW c \in Conns, CloseIdle(c) \/ Evict(c)
      PROVE  CallsByRoute'
  BY <1>k, <1>7 DEF CloseIdle, Evict
<1>8. ASSUME NEW l \in Clients, PeerLost(l)
      PROVE  CallsByRoute'
  BY <1>k, <1>8 DEF PeerLost
<1>9. QED
  BY <1>1, <1>2, <1>3, <1>4, <1>5, <1>6, <1>7, <1>8 DEF Next

-----------------------------------------------------------------------------
(* The pool, and the connections forwards have in hand.                    *)

LEMMA OutOfPool ==
    ASSUME HopIInv, NEW d \in displaced
    PROVE  d \in Conns /\ key[d] \in Keys /\ key[d] # <<>> /\ pools[key[d]] # d
<1>1. d \in Conns /\ key[d] \in Keys \cup {<<>>}
  BY DEF HopIInv, TypeOK
<1>2. key[d] # <<>> /\ pools[key[d]] # d
  BY Zenon DEF HopIInv, PooledByKey
<1>3. QED
  BY <1>1, <1>2

(* A connection that is closed leaves the pool in the same step.           *)
LEMMA ConnClosed ==
    ASSUME HopIInv, NEW c \in Conns, NEW f, CloseConn(c, f),
           \A k \in Keys : pools'[k] \in {pools[k], NoConn},
           \A k \in Keys : pools[k] = c => pools'[k] = NoConn,
           \A d \in displaced' :
               d \in Conns \ {c} /\ key[d] # <<>> /\ pools'[key[d]] # d
    PROVE  /\ PooledByKey'
           /\ \A d \in Conns : key'[d] # <<>> =>
                 d # c /\ key'[d] = key[d] /\ client'[d] = client[d]
           /\ \A d \in Conns : key'[d] \in {key[d], <<>>}
           /\ \A d \in Conns \ {c} : all'[d] = all[d]
<1>1. TypeOK /\ PooledByKey
  BY DEF HopIInv
<1>2. /\ key'[c] = <<>> /\ client'[c] = NoClient
      /\ \A d \in Conns \ {c} :
            /\ status'[d] = status[d] /\ key'[d] = key[d]
            /\ client'[d] = client[d] /\ all'[d] = all[d]
  BY <1>1 DEF CloseConn, TypeOK
<1>3. ASSUME NEW k \in Keys, pools'[k] # NoConn
      PROVE  status'[pools'[k]] # "closed" /\ key'[pools'[k]] = k
  <2>1. pools'[k] = pools[k] /\ pools[k] # c
    BY <1>3
  <2>2. /\ pools[k] \in Conns /\ status[pools[k]] # "closed" /\ key[pools[k]] = k
    BY <1>3, <2>1, InPool
  <2>3. QED
    BY <1>2, <2>1, <2>2
<1>4. \A d \in displaced' : key'[d] # <<>> /\ pools'[key'[d]] # d
  BY <1>2
<1>5. \A d \in Conns : key'[d] = <<>> <=> client'[d] = NoClient
  BY <1>1, <1>2 DEF PooledByKey
<1>6. QED
  BY <1>2, <1>3, <1>4, <1>5 DEF PooledByKey

(* A new connection takes nobody's place but that of the key's entry.      *)
LEMMA ConnPooled ==
    ASSUME HopIInv, NEW k \in Keys, NEW l \in Clients, NEW ls, PoolConn(k, l, ls),
           displaced' = (displaced \cup {pools[k]}) \ {NoConn}
    PROVE  /\ PooledByKey'
           /\ NewConn \in Conns /\ key[NewConn] = <<>> /\ NewConn \notin displaced
           /\ \A g \in Forwards : conn[g] # NewConn
           /\ \A j \in Keys : pools[j] # NewConn
           /\ pools'[k] = NewConn /\ \A j \in Keys \ {k} : pools'[j] = pools[j]
           /\ key'[NewConn] = k /\ client'[NewConn] = l /\ all'[NewConn] = ls
           /\ \A d \in Conns \ {NewConn} :
                 /\ status'[d] = status[d] /\ key'[d] = key[d]
                 /\ client'[d] = client[d] /\ all'[d] = all[d]
<1>1. TypeOK /\ PooledByKey
  BY DEF HopIInv
<1>2. /\ NewConn \in Conns /\ key[NewConn] = <<>>
      /\ \A g \in Forwards : conn[g] # NewConn
  BY PoolPicks, Zenon
<1>3. /\ pools'[k] = NewConn /\ \A j \in Keys \ {k} : pools'[j] = pools[j]
      /\ key'[NewConn] = k /\ client'[NewConn] = l /\ all'[NewConn] = ls
      /\ status'[NewConn] = "active"
      /\ \A d \in Conns \ {NewConn} :
            /\ status'[d] = status[d] /\ key'[d] = key[d]
            /\ client'[d] = client[d] /\ all'[d] = all[d]
  BY <1>1, <1>2 DEF PoolConn, TypeOK
<1>4. \A j \in Keys : pools[j] # NewConn
  BY <1>2, InPool, RoutesAssumption
<1>5. NewConn \notin displaced
  BY <1>2, OutOfPool
<1>6. ASSUME NEW j \in Keys, pools'[j] # NoConn
      PROVE  status'[pools'[j]] # "closed" /\ key'[pools'[j]] = j
  <2>1. CASE j = k
    BY <1>3, <2>1
  <2>2. CASE j # k
    BY <1>3, <1>4, <1>6, <2>2, InPool
  <2>3. QED
    BY <2>1, <2>2
<1>7. ASSUME NEW d \in displaced'
      PROVE  key'[d] # <<>> /\ pools'[key'[d]] # d
  <2>1. CASE d \in displaced
    <3>1. /\ d \in Conns \ {NewConn} /\ key[d] \in Keys
          /\ key[d] # <<>> /\ pools[key[d]] # d
      BY <1>5, <2>1, OutOfPool
    <3>2. QED
      BY <1>3, <3>1
  <2>2. CASE d \notin displaced
    <3>1. d = pools[k] /\ pools[k] # NoConn
      BY <1>7, <2>2
    <3>2. d \in Conns \ {NewConn} /\ key[d] = k /\ k # <<>>
      BY <1>4, <3>1, InPool
    <3>3. QED
      BY <1>3, <3>2
  <2>3. QED
    BY <2>1, <2>2
<1>8. ASSUME NEW d \in Conns
      PROVE  key'[d] = <<>> <=> client'[d] = NoClient
  <2>1. k # <<>> /\ l # NoClient
    BY InPool, RoutesAssumption
  <2>2. QED
    BY <1>1, <1>3, <2>1 DEF PooledByKey
<1>9. QED
  BY <1>2, <1>3, <1>4, <1>5, <1>6, <1>7, <1>8 DEF PooledByKey

(* The calls that stay where they are keep what they have in hand, unless  *)
(* it is closed.                                                           *)
LEMMA StillInHand ==
    ASSUME HopIInv, NEW g \in Forwards, pc'[g] = pc[g], conn'[g] = conn[g],
           hopInfos'[g] = hopInfos[g], route' = route,
           conn[g] \in Conns => key'[conn[g]] \in {key[conn[g]], <<>>}
    PROVE  InHand(g)'
<1>1. InHand(g)
  BY Zenon DEF HopIInv, ConnInHand
<1>2. Key(g)' = Key(g)
  BY DEF Key
<1>3. QED
  BY <1>1, <1>2 DEF InHand

(* The call that goes on has a connection in hand from the pool, or has it *)
(* to use, or has none.                                                    *)
LEMMA NowInHand ==
    ASSUME HopIInv, NEW f \in Forwards, NEW s, Goto(f, s), route' = route,
           \A g \in Forwards \ {f} :
               /\ conn'[g] = conn[g] /\ hopInfos'[g] = hopInfos[g]
               /\ conn[g] \in Conns => key'[conn[g]] \in {key[conn[g]], <<>>},
           s \in {"check", "probe", "result", "using"} => conn'[f] \in Conns,
           conn'[f] \in Conns => key'[conn'[f]] \in
               {<<>>, IF s = "probe" THEN Key(f)' ELSE route[f]}
    PROVE  ConnInHand'
<1>1. pc'[f] = s /\ \A g \in Forwards \ {f} : pc'[g] = pc[g]
  BY DEF Goto, HopIInv, TypeOK
<1>2. InHand(f)'
  BY <1>1, Zenon DEF InHand
<1>3. ASSUME NEW g \in Forwards \ {f}
      PROVE  InHand(g)'
  BY <1>1, StillInHand
<1>4. QED
  BY <1>2, <1>3, Zenon DEF ConnInHand

LEMMA PoolKept ==
    ASSUME HopIInv, UNCHANGED <<pools, key, client, displaced>>,
           \A d \in Conns : key[d] # <<>> /\ status[d] # "closed" =>
               status'[d] # "closed"
    PROVE  PooledByKey'
<1>1. ASSUME NEW k \in Keys, pools[k] # NoConn
      PROVE  status'[pools[k]] # "closed" /\ key[pools[k]] = k
  BY <1>1, InPool
<1>2. /\ \A c \in displaced : key[c] # <<>> /\ pools[key[c]] # c
      /\ \A c \in Conns : key[c] = <<>> <=> client[c] = NoClient
  BY Zenon DEF HopIInv, PooledByKey
<1>3. QED
  BY <1>1, <1>2, Zenon DEF PooledByKey

(* The actions that close connection c: CloseIdle, Evict and DropDead.     *)
LEMMA ClosedLeaves ==
    ASSUME HopIInv, NEW c \in Conns, CloseIdle(c) \/ Evict(c)
    PROVE  /\ CloseConn(c, NoForward) /\ UNCHANGED <<route, pc, conn, hopInfos>>
           /\ \A k \in Keys : pools'[k] \in {pools[k], NoConn}
           /\ \A k \in Keys : pools[k] = c => pools'[k] = NoConn
           /\ \A k \in Keys : pools[k] # c => pools'[k] = pools[k]
           /\ displaced' = displaced \ {c}
           /\ \A d \in displaced' :
                 d \in Conns \ {c} /\ key[d] # <<>> /\ pools'[key[d]] # d
<1>1. CloseConn(c, NoForward) /\ UNCHANGED <<route, pc, conn, hopInfos>>
  BY DEF CloseIdle, Evict
<1>2. TypeOK /\ PooledByKey
  BY DEF HopIInv
<1>3. \A k \in Keys : pools[k] = c => k = key[c]
  BY InPool, RoutesAssumption
<1>4. /\ \A k \in Keys : pools[k] = c => pools'[k] = NoConn
      /\ \A k \in Keys : pools[k] # c => pools'[k] = pools[k]
  <2>1. CASE CloseIdle(c)
    <3>1. /\ pools' = [pools EXCEPT ![key[c]] = NoConn] /\ pools[key[c]] = c
          /\ key[c] \in Keys
      BY <1>2, <2>1 DEF CloseIdle, TypeOK
    <3>2. QED
      BY <1>2, <1>3, <3>1 DEF TypeOK
  <2>2. CASE Evict(c)
    BY <2>2 DEF Evict
  <2>3. QED
    BY <2>1, <2>2
<1>5. displaced' = displaced \ {c}
  <2>1. CASE CloseIdle(c)
    <3>1. displaced' = displaced /\ pools[key[c]] = c
      BY <2>1 DEF CloseIdle
    <3>2. c \notin displaced
      BY <1>2, <3>1 DEF PooledByKey
    <3>3. QED
      BY <3>1, <3>2
  <2>2. CASE Evict(c)
    BY <2>2 DEF Evict
  <2>3. QED
    BY <2>1, <2>2
<1>6. ASSUME NEW d \in displaced'
      PROVE  d \in Conns \ {c} /\ key[d] # <<>> /\ pools'[key[d]] # d
  <2>1. /\ d \in Conns \ {c} /\ key[d] \in Keys
        /\ key[d] # <<>> /\ pools[key[d]] # d
    BY <1>5, <1>6, OutOfPool
  <2>2. QED
    BY <1>4, <2>1, RoutesAssumption
<1>7. QED
  BY <1>1, <1>4, <1>5, <1>6

LEMMA DroppedLeaves ==
    ASSUME HopIInv, NEW f \in Forwards, DropDead(f)
    PROVE  /\ conn[f] \in Conns /\ CloseConn(conn[f], f) /\ route[f] \in Keys
           /\ \A k \in Keys : pools'[k] \in {pools[k], NoConn}
           /\ \A k \in Keys : pools[k] = conn[f] => pools'[k] = NoConn
           /\ \A k \in Keys : k # route[f] => pools'[k] = pools[k]
           /\ displaced' = (displaced \cup {pools[route[f]]}) \ {NoConn, conn[f]}
           /\ \A d \in displaced' :
                 d \in Conns \ {conn[f]} /\ key[d] # <<>> /\ pools'[key[d]] # d
<1>1. conn[f] \in Conns /\ CloseConn(conn[f], f) /\ pc[f] = "check"
  BY AtStep DEF DropDead
<1>2. /\ pools'[route[f]] = NoConn /\ route[f] \in Keys
      /\ \A k \in Keys : k # route[f] => pools'[k] = pools[k]
      /\ displaced' = (displaced \cup {pools[route[f]]}) \ {NoConn, conn[f]}
  BY WholeRoute DEF HopIInv, TypeOK, DropDead
<1>3. \A k \in Keys : pools[k] = conn[f] => k = route[f]
  <2>1. key[conn[f]] \in {<<>>, route[f]}
    BY <1>1 DEF HopIInv, ConnInHand, InHand
  <2>2. QED
    BY <1>1, <2>1, InPool, RoutesAssumption
<1>4. ASSUME NEW d \in displaced'
      PROVE  d \in Conns \ {conn[f]} /\ key[d] # <<>> /\ pools'[key[d]] # d
  <2>1. CASE d \in displaced
    <3>1. /\ d \in Conns /\ key[d] \in Keys
          /\ key[d] # <<>> /\ pools[key[d]] # d
      BY <2>1, OutOfPool
    <3>2. QED
      BY <1>2, <3>1, <1>4, RoutesAssumption
  <2>2. CASE d \notin displaced
    <3>1. d = pools[route[f]] /\ d # NoConn /\ d # conn[f]
      BY <1>2, <1>4, <2>2
    <3>2. d \in Conns /\ key[d] = route[f] /\ route[f] # <<>>
      BY <1>2, <3>1, InPool
    <3>3. QED
      BY <1>2, <3>1, <3>2
  <2>3. QED
    BY <2>1, <2>2
<1>5. QED
  BY <1>1, <1>2, <1>3, <1>4

LEMMA PoolStep ==
    ASSUME HopIInv, Next
    PROVE  PooledByKey' /\ ConnInHand'
<1>0. TypeOK
  BY DEF HopIInv
<1>g. ASSUME NEW f \in Forwards, NEW s, Goto(f, s),
             UNCHANGED <<route, pools, key, client, displaced>>,
             \A d \in Conns : key[d] # <<>> /\ status[d] # "closed" =>
                 status'[d] # "closed",
             \A g \in Forwards \ {f} :
                 conn'[g] = conn[g] /\ hopInfos'[g] = hopInfos[g],
             \/ conn'[f] = NoConn /\ s \notin {"check", "probe", "result", "using"}
             \/ /\ conn'[f] = conn[f] /\ pc[f] # "probe" /\ s # "probe"
                /\ s \in {"check", "result", "using"} => conn[f] \in Conns
      PROVE  PooledByKey' /\ ConnInHand'
  <2>1. PooledByKey'
    BY <1>g, PoolKept
  <2>0. /\ Goto(f, s) /\ route' = route
        /\ \A g \in Forwards \ {f} :
              /\ conn'[g] = conn[g] /\ hopInfos'[g] = hopInfos[g]
              /\ conn[g] \in Conns => key'[conn[g]] \in {key[conn[g]], <<>>}
    BY <1>g
  <2>2. CASE conn'[f] = NoConn /\ s \notin {"check", "probe", "result", "using"}
    <3>1. conn'[f] \notin Conns
      BY <2>2, RoutesAssumption
    <3>2. QED
      BY <2>0, <2>1, <2>2, <3>1, NowInHand
  <2>3. CASE /\ conn'[f] = conn[f] /\ pc[f] # "probe" /\ s # "probe"
             /\ s \in {"check", "result", "using"} => conn[f] \in Conns
    <3>1. conn[f] \in Conns => key[conn[f]] \in {<<>>, route[f]}
      BY <2>3 DEF HopIInv, ConnInHand, InHand
    <3>2. /\ s \in {"check", "probe", "result", "using"} => conn'[f] \in Conns
          /\ conn'[f] \in Conns => key'[conn'[f]] \in
                {<<>>, IF s = "probe" THEN Key(f)' ELSE route[f]}
      BY <1>g, <2>3, <3>1
    <3>3. QED
      BY <2>0, <2>1, <3>2, NowInHand
  <2>4. QED
    BY <1>g, <2>1, <2>2, <2>3
<1>1. ASSUME NEW f \in Forwards, NEW k \in Keys, NEW s, Goto(f, s),
             UNCHANGED <<route, pools, connVars, hopInfos, displaced>>,
             conn' = [conn EXCEPT ![f] = pools[k]],
             s \in {"check", "probe", "result", "using"} => pools[k] # NoConn,
             k = IF s = "probe" THEN Key(f) ELSE route[f]
      PROVE  PooledByKey' /\ ConnInHand'
  <2>1. PooledByKey'
    BY <1>1, PoolKept DEF connVars
  <2>2. conn'[f] = pools[k] /\ \A g \in Forwards \ {f} : conn'[g] = conn[g]
    BY <1>0, <1>1 DEF TypeOK
  <2>3. pools[k] \in Conns => key[pools[k]] = k
    BY InPool, RoutesAssumption
  <2>4. pools[k] # NoConn => pools[k] \in Conns
    BY InPool
  <2>5. Key(f)' = Key(f)
    BY <1>1 DEF Key
  <2>6. ConnInHand'
    BY <1>1, <2>2, <2>3, <2>4, <2>5, NowInHand DEF connVars
  <2>7. QED
    BY <2>1, <2>6
<1>2. ASSUME NEW f \in Forwards, Lookup(f) \/ DoubleCheck(f)
      PROVE  PooledByKey' /\ ConnInHand'
  <2>1. /\ UNCHANGED <<route, pools, connVars, hopInfos, displaced>>
        /\ conn' = [conn EXCEPT ![f] = pools[route[f]]]
        /\ \/ Goto(f, IF pools[route[f]] = NoConn THEN "join" ELSE "check")
           \/ Goto(f, IF pools[route[f]] = NoConn THEN "hop" ELSE "finish")
    BY <1>2 DEF Lookup, DoubleCheck
  <2>2. route[f] \in Keys
    BY <1>0, WholeRoute
  <2>3. QED
    BY <1>1, <2>1, <2>2
<1>3. ASSUME NEW f \in Forwards, AcquireExisting(f) \/ AcquireShared(f)
      PROVE  PooledByKey' /\ ConnInHand'
  <2>1. conn[f] \in Conns /\ TakeRef(conn[f]) /\ pc[f] # "probe"
        /\ UNCHANGED <<route, pools, displaced, conn, hopInfos>> /\ Goto(f, "using")
    BY <1>3, AtStep DEF AcquireExisting, AcquireShared
  <2>2. /\ \A d \in Conns : status[d] # "closed" => status'[d] # "closed"
        /\ UNCHANGED <<key, client>>
    BY <1>0, <2>1, RefTaken
  <2>3. QED
    BY <1>g, <2>1, <2>2
<1>4. ASSUME NEW f \in Forwards, DropDead(f)
      PROVE  PooledByKey' /\ ConnInHand'
  <2>1. /\ PooledByKey'
        /\ \A d \in Conns : key'[d] \in {key[d], <<>>}
    BY <1>4, DroppedLeaves, ConnClosed
  <2>2. /\ conn'[f] = NoConn /\ \A g \in Forwards \ {f} : conn'[g] = conn[g]
        /\ UNCHANGED <<route, hopInfos>> /\ Goto(f, "join")
    BY <1>0, <1>4 DEF DropDead, TypeOK
  <2>3. ConnInHand'
    BY <2>1, <2>2, NowInHand, RoutesAssumption
  <2>4. QED
    BY <2>1, <2>3
<1>5. ASSUME NEW f \in Forwards, Lead(f) \/ Join(f) \/ Forget(f)
      PROVE  PooledByKey' /\ ConnInHand'
  <2>1. /\ UNCHANGED <<route, pools, connVars, displaced, conn, hopInfos>>
        /\ pc[f] # "probe"
        /\ \E s \in {"double", "wait", "out"} : Goto(f, s)
    BY <1>5 DEF Lead, Join, Forget
  <2>2. QED
    BY <1>g, <2>1 DEF connVars
<1>6. ASSUME NEW f \in Forwards, Finish(f)
      PROVE  PooledByKey' /\ ConnInHand'
  <2>1. UNCHANGED <<route, pools, connVars, hopInfos, displaced>>
    BY <1>6 DEF Finish
  <2>2. PooledByKey'
    BY <2>1, PoolKept DEF connVars
  <2>3. conn[f] \in Conns \cup {NoConn}
    BY <1>0 DEF TypeOK
  <2>4. conn[f] \in Conns => key[conn[f]] \in {<<>>, route[f]}
    <3>1. pc[f] = "finish"
      BY <1>6 DEF Finish
    <3>2. QED
      BY <3>1 DEF HopIInv, ConnInHand, InHand
  <2>5. ASSUME NEW g \in Forwards
        PROVE  InHand(g)'
    <3>1. CASE /\ pc'[g] = Outcome(f) /\ conn'[g] = conn[f]
               /\ route[g] = route[f]
      <4>1. /\ Outcome(f) \in {"forget", "result", "using"}
            /\ conn[f] = NoConn => Outcome(f) = "forget"
        BY <1>6, Callers
      <4>2. QED
        BY <2>1, <2>3, <2>4, <3>1, <4>1 DEF InHand, connVars
    <3>2. CASE pc'[g] = pc[g] /\ conn'[g] = conn[g]
      BY <2>1, <3>2, StillInHand DEF connVars
    <3>3. QED
      BY <1>6, <3>1, <3>2, Callers
  <2>6. QED
    BY <2>2, <2>5 DEF ConnInHand
<1>7. ASSUME NEW f \in Forwards, NEW n \in 0..MaxRefs,
             NEW t \in {"active", "idle", "closed"},
             t = "closed" => status[conn[f]] = "closed",
             LetGo(conn[f], f, n, t), conn[f] \in Conns,
             UNCHANGED <<route, pools, displaced, hopInfos>>,
             conn' = [conn EXCEPT ![f] = NoConn],
             NEW s \in {"out", "dial"}, Goto(f, s)
      PROVE  PooledByKey' /\ ConnInHand'
  <2>1. /\ \A d \in Conns : key[d] # <<>> /\ status[d] # "closed" =>
              status'[d] # "closed"
        /\ UNCHANGED <<key, client>>
    BY <1>0, <1>7, RefLet
  <2>2. conn'[f] = NoConn /\ \A g \in Forwards \ {f} : conn'[g] = conn[g]
    BY <1>0, <1>7 DEF TypeOK
  <2>3. QED
    BY <1>7, <1>g, <2>1, <2>2
<1>8. ASSUME NEW f \in Forwards,
             AcquireSharedFails(f) \/ ReuseHopFails(f) \/ Release(f)
      PROVE  PooledByKey' /\ ConnInHand'
  <2>1. conn[f] \in Conns
    BY <1>8, AtStep DEF AcquireSharedFails, ReuseHopFails, Release
  <2>2. /\ refCount[conn[f]] \in 0..MaxRefs
        /\ status[conn[f]] \in {"active", "idle", "closed"}
    BY <1>0, <2>1 DEF TypeOK
  <2>3. PICK n \in 0..MaxRefs, t \in {"active", "idle", "closed"} :
            LetGo(conn[f], f, n, t) /\ (t = "closed" => status[conn[f]] = "closed")
    <3>1. CASE AcquireSharedFails(f)
      BY <2>2, <3>1 DEF AcquireSharedFails
    <3>2. CASE ReuseHopFails(f)
      BY <2>2, <3>2 DEF ReuseHopFails
    <3>3. CASE Release(f)
      BY <1>0, <2>1, <3>3, RefReleased DEF Release
    <3>4. QED
      BY <1>8, <3>1, <3>2, <3>3
  <2>4. /\ UNCHANGED <<route, pools, displaced, hopInfos>>
        /\ conn' = [conn EXCEPT ![f] = NoConn]
        /\ \E s \in {"out", "dial"} : Goto(f, s)
    BY <1>8 DEF AcquireSharedFails, ReuseHopFails, Release
  <2>5. QED
    BY <1>7, <2>1, <2>3, <2>4
<1>9. ASSUME NEW f \in Forwards, FindHop(f)
      PROVE  PooledByKey' /\ ConnInHand'
  <2>1. /\ UNCHANGED <<route, pools, connVars, hopInfos, displaced>>
        /\ conn' = [conn EXCEPT ![f] = pools[Key(f)]]
        /\ Goto(f, IF pools[Key(f)] = NoConn THEN "dial" ELSE "probe")
        /\ Key(f) \in Keys
    BY <1>9, AtStep DEF FindHop
  <2>2. CASE pools[Key(f)] = NoConn
    <3>1. conn'[f] = NoConn /\ \A g \in Forwards \ {f} : conn'[g] = conn[g]
      BY <1>0, <2>1, <2>2 DEF TypeOK
    <3>2. QED
      BY <1>g, <2>1, <2>2, <3>1 DEF connVars
  <2>3. CASE pools[Key(f)] # NoConn
    BY <1>1, <2>1, <2>3
  <2>4. QED
    BY <2>2, <2>3
<1>10. ASSUME NEW f \in Forwards, ReuseHop(f)
       PROVE  PooledByKey' /\ ConnInHand'
  <2>1. /\ conn[f] \in Conns /\ TakeRef(conn[f])
        /\ client[conn[f]] \in Clients /\ AddHop(f, client[conn[f]], "reused")
    BY <1>10, AtStep, AnswersOver DEF ReuseHop
  <2>2. /\ \A d \in Conns : status[d] # "closed" => status'[d] # "closed"
        /\ UNCHANGED <<key, client>>
    BY <1>0, <2>1, RefTaken
  <2>3. /\ UNCHANGED <<route, pools, displaced>>
        /\ conn'[f] = NoConn /\ \A g \in Forwards \ {f} : conn'[g] = conn[g]
        /\ Goto(f, IF Key(f) = route[f] THEN "insert" ELSE "hop")
    BY <1>0, <1>10 DEF ReuseHop, TypeOK
  <2>4. \A g \in Forwards \ {f} : hopInfos'[g] = hopInfos[g]
    BY <1>0, <2>1, HopAdded
  <2>5. QED
    BY <1>g, <2>2, <2>3, <2>4
<1>11. ASSUME NEW f \in Forwards, DialHop(f)
       PROVE  PooledByKey' /\ ConnInHand'
  <2>1. UNCHANGED <<route, pools, connVars, conn, displaced>> /\ pc[f] = "dial"
        /\ Goto(f, IF Key(f) = route[f] THEN "insert" ELSE "add")
    BY <1>11, Zenon DEF DialHop
  <2>2. PICK l \in Clients : AddHop(f, l, "created")
    BY <1>11, Dialled
  <2>3. \A g \in Forwards \ {f} : hopInfos'[g] = hopInfos[g]
    BY <1>0, <2>2, HopAdded
  <2>4. QED
    BY <1>g, <2>1, <2>3 DEF connVars
<1>12. ASSUME NEW f \in Forwards, AddPartial(f)
       PROVE  PooledByKey' /\ ConnInHand'
  <2> DEFINE k == SubSeq(route[f], 1, Len(hopInfos[f]))
             l == Last(hopInfos[f]).client
  <2>1. k \in Keys /\ l \in Clients
    BY <1>0, <1>12, AtStep, HopClients DEF AddPartial
  <2>2. \/ pools[k] = NoConn /\ PoolConn(k, l, <<>>)
        \/ UNCHANGED <<pools, connVars>>
    BY <1>12, Zenon DEF AddPartial
  <2>3. UNCHANGED <<route, conn, hopInfos, displaced>> /\ Goto(f, "hop")
        /\ pc[f] = "add"
    BY <1>12, Zenon DEF AddPartial
  <2> HIDE DEF k, l
  <2>4. CASE pools[k] = NoConn /\ PoolConn(k, l, <<>>)
    <3>1. displaced' = (displaced \cup {pools[k]}) \ {NoConn}
      BY <1>0, <2>3, <2>4, RoutesAssumption DEF TypeOK
    <3>2. /\ PooledByKey' /\ \A g \in Forwards : conn[g] # NewConn
          /\ \A d \in Conns \ {NewConn} : key'[d] = key[d]
      BY <2>1, <2>4, <3>1, ConnPooled
    <3>3. conn[f] \in Conns => key[conn[f]] \in {<<>>, route[f]}
      BY <2>3 DEF HopIInv, ConnInHand, InHand
    <3>4. ConnInHand'
      BY <2>3, <3>2, <3>3, NowInHand
    <3>5. QED
      BY <3>2, <3>4
  <2>5. CASE UNCHANGED <<pools, connVars>>
    BY <1>g, <2>3, <2>5 DEF connVars
  <2>6. QED
    BY <2>2, <2>4, <2>5
<1>13. ASSUME NEW f \in Forwards, Insert(f)
       PROVE  PooledByKey' /\ ConnInHand'
  <2> DEFINE l == Last(hopInfos[f]).client
             ls == [i \in DOMAIN hopInfos[f] |-> hopInfos[f][i].client]
  <2>1. route[f] \in Keys /\ l \in Clients
    BY <1>0, <1>13, AtStep, HopClients, WholeRoute DEF Insert
  <2>2. PoolConn(route[f], l, ls)
        /\ displaced' = (displaced \cup {pools[route[f]]}) \ {NoConn}
    BY <1>13, Zenon DEF Insert
  <2> HIDE DEF l, ls
  <2>3. /\ PooledByKey' /\ NewConn \in Conns /\ \A g \in Forwards : conn[g] # NewConn
        /\ key'[NewConn] = route[f]
        /\ \A d \in Conns \ {NewConn} : key'[d] = key[d]
    BY <2>1, <2>2, ConnPooled
  <2>4. /\ conn'[f] = NewConn /\ Goto(f, "finish") /\ route' = route
        /\ \A g \in Forwards \ {f} : conn'[g] = conn[g] /\ hopInfos'[g] = hopInfos[g]
    BY <1>0, <1>13 DEF Insert, TypeOK
  <2>5. ConnInHand'
    BY <2>3, <2>4, NowInHand
  <2>6. QED
    BY <2>3, <2>5
<1>14. ASSUME NEW f \in Forwards, EstablishFails(f)
       PROVE  PooledByKey' /\ ConnInHand'
  <2>1. /\ \A g \in Forwards \ {f} : conn'[g] = conn[g] /\ hopInfos'[g] = hopInfos[g]
        /\ UNCHANGED <<route, pools, connVars, conn, displaced>>
        /\ Goto(f, "finish") /\ pc[f] # "probe"
    BY <1>0, <1>14 DEF EstablishFails, TypeOK
  <2>2. QED
    BY <1>g, <2>1 DEF connVars
<1>15. ASSUME NEW c \in Conns, CloseIdle(c) \/ Evict(c)
       PROVE  PooledByKey' /\ ConnInHand'
  <2>1. /\ PooledByKey' /\ UNCHANGED <<route, pc, conn, hopInfos>>
        /\ \A d \in Conns : key'[d] \in {key[d], <<>>}
    BY <1>15, ClosedLeaves, ConnClosed
  <2>2. QED
    BY <2>1, StillInHand DEF ConnInHand
<1>16. ASSUME NEW l \in Clients, PeerLost(l)
       PROVE  PooledByKey' /\ ConnInHand'
  <2>1. UNCHANGED <<route, pools, connVars, pc, conn, hopInfos, displaced>>
    BY <1>16 DEF PeerLost
  <2>2. QED
    BY <2>1, PoolKept, StillInHand DEF connVars, ConnInHand
<1>17. QED
  BY <1>2, <1>3, <1>4, <1>5, <1>6, <1>8, <1>9, <1>10, <1>11, <1>12, <1>13,
     <1>14, <1>15, <1>16 DEF Next

-----------------------------------------------------------------------------
(* The machines behind the clients.                                        *)

(* No client gains a path: what pooled connections run over is kept,       *)
LEMMA ConnRouteKept ==
    ASSUME HopIInv, NEW c \in Conns,
           \A l \in Clients : client[c] = l /\ Alive(l)' =>
               Alive(l) /\ Over(l)' = Over(l),
           key'[c] # <<>> => key'[c] = key[c] /\ client'[c] = client[c]
    PROVE  ConnRoute(c)'
<1>1. ConnRoute(c)
  BY Zenon DEF HopIInv, RoutesKept
<1>2. QED
  BY <1>1, Zenon DEF ConnRoute

(* and so is what the hops of a call run over.                             *)
LEMMA HopRouteKept ==
    ASSUME HopIInv, NEW f \in Forwards, NEW i \in DOMAIN hopInfos[f],
           route' = route,
           \A l \in Clients : hopInfos[f][i].client = l /\ Alive(l)' =>
               Alive(l) /\ Over(l)' = Over(l),
           hopInfos'[f][i] = hopInfos[f][i]
    PROVE  HopRoute(f, i)'
<1>1. HopRoute(f, i)
  BY Zenon DEF HopIInv, RoutesKept
<1>2. QED
  BY <1>1, Zenon DEF HopRoute

(* The steps that make no client, no connection and no hop.                *)
LEMMA RoutesStay ==
    ASSUME HopIInv, route' = route,
           \A l \in Clients : Alive(l)' => Alive(l) /\ Over(l)' = Over(l),
           \A c \in Conns : key'[c] # <<>> =>
               key'[c] = key[c] /\ client'[c] = client[c],
           \A f \in Forwards : hopInfos'[f] = hopInfos[f] \/ hopInfos'[f] = <<>>
    PROVE  RoutesKept'
<1>1. \A c \in Conns : ConnRoute(c)'
  BY ConnRouteKept
<1>2. ASSUME NEW f \in Forwards, NEW i \in DOMAIN hopInfos'[f]
      PROVE  HopRoute(f, i)'
  <2>1. hopInfos'[f] = hopInfos[f]
    BY <1>2, EmptySeq
  <2>2. QED
    BY <2>1, HopRouteKept
<1>3. QED
  BY <1>1, <1>2, Zenon DEF RoutesKept

(* A chain goes into the pool under what its last client runs over.        *)
LEMMA PooledRoute ==
    ASSUME HopIInv, NEW k \in Keys, NEW l \in Clients, NEW ls, PoolConn(k, l, ls),
           displaced' = (displaced \cup {pools[k]}) \ {NoConn},
           Alive(l) => Over(l) = k,
           UNCHANGED clientVars, route' = route,
           \A f \in Forwards : hopInfos'[f] = hopInfos[f] \/ hopInfos'[f] = <<>>
    PROVE  RoutesKept'
<1>1. PICK c \in Conns : c = NewConn
  BY PoolPicks
<1>2. /\ key'[c] = k /\ client'[c] = l
      /\ \A d \in Conns \ {c} : key'[d] = key[d] /\ client'[d] = client[d]
  BY <1>1, ConnPooled
<1>3. \A m \in Clients : Alive(m)' = Alive(m) /\ Over(m)' = Over(m)
  BY NothingCut
<1>4. ConnRoute(c)'
  <2>1. Alive(l)' => Over(l)' = k
    BY <1>3
  <2>2. QED
    BY <1>2, <2>1, Zenon DEF ConnRoute
<1>5. \A d \in Conns \ {c} : ConnRoute(d)'
  BY <1>2, <1>3, ConnRouteKept
<1>6. \A d \in Conns : ConnRoute(d)'
  BY <1>4, <1>5, Zenon
<1>7. ASSUME NEW f \in Forwards, NEW i \in DOMAIN hopInfos'[f]
      PROVE  HopRoute(f, i)'
  <2>1. hopInfos'[f] = hopInfos[f]
    BY <1>7, EmptySeq
  <2>2. QED
    BY <1>3, <2>1, HopRouteKept
<1>8. QED
  BY <1>6, <1>7, Zenon DEF RoutesKept

(* A call gets a hop that runs over the chain up to it.                    *)
LEMMA HopRun ==
    ASSUME HopIInv, NEW f \in Forwards, NEW l \in Clients, route' = route,
           NEW s \in {"created", "reused"}, AddHop(f, l, s),
           Alive(l)' => Over(l)' = SubSeq(route[f], 1, Len(hopInfos[f]) + 1),
           \A g \in Forwards : \A i \in DOMAIN hopInfos[g] : \A m \in Clients :
               hopInfos[g][i].client = m /\ Alive(m)' =>
                   Alive(m) /\ Over(m)' = Over(m)
    PROVE  \A g \in Forwards : \A i \in DOMAIN hopInfos'[g] : HopRoute(g, i)'
<1> DEFINE n == Len(hopInfos[f]) + 1
<1>1. /\ \A g \in Forwards \ {f} : hopInfos'[g] = hopInfos[g]
      /\ DOMAIN hopInfos'[f] = 1..n
      /\ \A i \in DOMAIN hopInfos[f] : hopInfos'[f][i] = hopInfos[f][i]
      /\ hopInfos'[f][n] = [client |-> l, source |-> s]
  BY HopAdded DEF HopIInv
<1>2. DOMAIN hopInfos[f] = 1..Len(hopInfos[f]) /\ Len(hopInfos[f]) \in Nat
  BY HopsTyped DEF HopIInv
<1>3. ASSUME NEW g \in Forwards, NEW i \in DOMAIN hopInfos'[g]
      PROVE  HopRoute(g, i)'
  <2>1. CASE g = f /\ i = n
    <3>1. hopInfos'[g][i].client = l
      BY <1>1, <2>1
    <3>2. Alive(l)' => Over(l)' = SubSeq(route'[g], 1, i)
      BY <2>1
    <3>3. QED
      BY <3>1, <3>2, Zenon DEF HopRoute
  <2>2. CASE ~(g = f /\ i = n)
    <3>1. i \in DOMAIN hopInfos[g] /\ hopInfos'[g][i] = hopInfos[g][i]
      BY <1>1, <1>2, <1>3, <2>2
    <3>2. QED
      BY <3>1, HopRouteKept
  <2>3. QED
    BY <2>1, <2>2
<1>4. QED
  BY <1>3

LEMMA RoutesStep ==
    ASSUME HopIInv, Next
    PROVE  RoutesKept'
<1>0. TypeOK
  BY DEF HopIInv
<1>u. ASSUME UNCHANGED clientVars
      PROVE  \A l \in Clients : Alive(l)' => Alive(l) /\ Over(l)' = Over(l)
  BY <1>u, NothingCut
<1>q. ASSUME UNCHANGED <<route, key, client, hopInfos>>, UNCHANGED clientVars
      PROVE  RoutesKept'
  BY <1>q, <1>u, RoutesStay
<1>1. ASSUME NEW f \in Forwards,
             \/ Lookup(f) \/ AcquireExisting(f) \/ Lead(f) \/ Join(f)
             \/ DoubleCheck(f) \/ Finish(f) \/ Forget(f) \/ AcquireShared(f)
             \/ AcquireSharedFails(f) \/ FindHop(f) \/ ReuseHopFails(f)
             \/ Release(f)
      PROVE  RoutesKept'
  <2>1. UNCHANGED <<route, key, client, hopInfos>> /\ UNCHANGED clientVars
    BY <1>1 DEF Lookup, AcquireExisting, Lead, Join, DoubleCheck, Finish, Forget,
                AcquireShared, AcquireSharedFails, FindHop, ReuseHopFails,
                Release, TakeRef, LetGo, connVars
  <2>2. QED
    BY <1>q, <2>1
<1>2. ASSUME NEW f \in Forwards, DropDead(f)
      PROVE  RoutesKept'
  <2>1. /\ conn[f] \in Conns /\ CloseConn(conn[f], f)
        /\ \A d \in Conns : key'[d] # <<>> =>
              key'[d] = key[d] /\ client'[d] = client[d]
    BY <1>2, DroppedLeaves, ConnClosed
  <2>2. \A l \in Clients : Alive(l)' => Alive(l) /\ Over(l)' = Over(l)
    BY <1>0, <2>1, Closing DEF CloseConn
  <2>3. UNCHANGED <<route, hopInfos>>
    BY <1>2 DEF DropDead
  <2>4. QED
    BY <2>1, <2>2, <2>3, RoutesStay
<1>3. ASSUME NEW f \in Forwards, ReuseHop(f)
      PROVE  RoutesKept'
  <2> DEFINE c == conn[f]
  <2>1. /\ c \in Conns /\ TakeRef(c) /\ key[c] # <<>> /\ Alive(client[c])
        /\ client[c] \in Clients /\ AddHop(f, client[c], "reused")
        /\ pc[f] = "probe" /\ route' = route
        /\ UNCHANGED clientVars
    BY <1>3, AtStep, AnswersOver DEF ReuseHop
  <2>2. key[c] = Key(f)
    BY <2>1 DEF HopIInv, ConnInHand, InHand
  <2>3. Over(client[c]) = SubSeq(route[f], 1, Len(hopInfos[f]) + 1)
    <3>1. ConnRoute(c)
      BY <2>1, Zenon DEF HopIInv, RoutesKept
    <3>2. QED
      BY <2>1, <2>2, <3>1, Zenon DEF ConnRoute, Key
  <2>4. UNCHANGED <<key, client>>
    BY <1>0, <2>1, RefTaken
  <2>5. \A d \in Conns : ConnRoute(d)'
    BY <1>u, <2>1, <2>4, ConnRouteKept
  <2>6. PICK l \in Clients : l = client[c]
    BY <2>1
  <2>7. AddHop(f, l, "reused")
        /\ Over(l)' = SubSeq(route[f], 1, Len(hopInfos[f]) + 1)
    BY <2>1, <2>3, <2>6, NothingCut
  <2>8. \A g \in Forwards : \A i \in DOMAIN hopInfos'[g] : HopRoute(g, i)'
    BY <1>u, <2>1, <2>7, HopRun
  <2>9. QED
    BY <2>5, <2>8, Zenon DEF RoutesKept
<1>4. ASSUME NEW f \in Forwards, DialHop(f)
      PROVE  RoutesKept'
  <2>1. PICK l \in Clients :
            /\ AddHop(f, l, "created")
            /\ \A c \in Conns : l # client[c]
            /\ \A g \in Forwards : \A i \in DOMAIN hopInfos[g] :
                  l # hopInfos[g][i].client
            /\ Over(l)' = SubSeq(route[f], 1, Len(hopInfos[f]) + 1)
            /\ \A m \in Clients \ {l} : Alive(m)' => Alive(m) /\ Over(m)' = Over(m)
    BY <1>4, Dialled
  <2>2. UNCHANGED <<route, key, client>>
    BY <1>4, Zenon DEF DialHop, connVars
  <2>3. \A d \in Conns : ConnRoute(d)'
    BY <2>1, <2>2, ConnRouteKept
  <2>4. \A g \in Forwards : \A i \in DOMAIN hopInfos'[g] : HopRoute(g, i)'
    BY <2>1, <2>2, HopRun
  <2>5. QED
    BY <2>3, <2>4, Zenon DEF RoutesKept
<1>5. ASSUME NEW f \in Forwards, AddPartial(f)
      PROVE  RoutesKept'
  <2> DEFINE n == Len(hopInfos[f])
  <2>1. SubSeq(route[f], 1, n) \in Keys /\ n \in DOMAIN hopInfos[f]
        /\ Last(hopInfos[f]).client \in Clients
        /\ hopInfos[f][n].client = Last(hopInfos[f]).client
    BY <1>0, <1>5, AtStep, HopClients DEF AddPartial
  <2>2. PICK k \in Keys : k = SubSeq(route[f], 1, n)
    BY <2>1
  <2>3. PICK l \in Clients : l = Last(hopInfos[f]).client
    BY <2>1
  <2>4. \/ pools[k] = NoConn /\ PoolConn(k, l, <<>>)
        \/ UNCHANGED <<pools, connVars>>
    BY <1>5, <2>2, <2>3, Zenon DEF AddPartial
  <2>5. UNCHANGED <<route, hopInfos, displaced>> /\ UNCHANGED clientVars
    BY <1>5, Zenon DEF AddPartial
  <2>6. Alive(l) => Over(l) = k
    <3>1. HopRoute(f, n)
      BY <2>1, Zenon DEF HopIInv, RoutesKept
    <3>2. QED
      BY <2>1, <2>2, <2>3, <3>1, Zenon DEF HopRoute
  <2>7. CASE pools[k] = NoConn /\ PoolConn(k, l, <<>>)
    <3>1. displaced' = (displaced \cup {pools[k]}) \ {NoConn}
      BY <1>0, <2>5, <2>7, RoutesAssumption DEF TypeOK
    <3>2. QED
      BY <2>5, <2>6, <2>7, <3>1, PooledRoute
  <2>8. CASE UNCHANGED <<pools, connVars>>
    BY <1>q, <2>5, <2>8 DEF connVars
  <2>9. QED
    BY <2>4, <2>7, <2>8
<1>6. ASSUME NEW f \in Forwards, Insert(f)
      PROVE  RoutesKept'
  <2> DEFINE n == Len(hopInfos[f])
             ls == [i \in DOMAIN hopInfos[f] |-> hopInfos[f][i].client]
  <2>1. /\ route[f] \in Keys /\ n \in DOMAIN hopInfos[f]
        /\ Last(hopInfos[f]).client \in Clients
        /\ hopInfos[f][n].client = Last(hopInfos[f]).client
        /\ SubSeq(route[f], 1, n) = route[f]
    BY <1>0, <1>6, AtStep, HopClients, WholeRoute DEF Insert
  <2>2. PICK l \in Clients : l = Last(hopInfos[f]).client
    BY <2>1
  <2>3. PoolConn(route[f], l, ls)
        /\ displaced' = (displaced \cup {pools[route[f]]}) \ {NoConn}
    BY <1>6, <2>2, Zenon DEF Insert
  <2>4. /\ UNCHANGED clientVars
        /\ route' = route
        /\ \A g \in Forwards : hopInfos'[g] = hopInfos[g] \/ hopInfos'[g] = <<>>
    BY <1>0, <1>6 DEF Insert, TypeOK
  <2>5. Alive(l) => Over(l) = route[f]
    <3>1. HopRoute(f, n)
      BY <2>1, Zenon DEF HopIInv, RoutesKept
    <3>2. QED
      BY <2>1, <2>2, <3>1, Zenon DEF HopRoute
  <2> HIDE DEF ls, n
  <2>6. QED
    BY <2>1, <2>3, <2>4, <2>5, PooledRoute
<1>7. ASSUME NEW f \in Forwards, EstablishFails(f)
      PROVE  RoutesKept'
  <2>1. \A l \in Clients : Alive(l)' => Alive(l) /\ Over(l)' = Over(l)
    BY <1>0, <1>7, Closing DEF EstablishFails
  <2>2. /\ UNCHANGED <<route, key, client>>
        /\ \A g \in Forwards : hopInfos'[g] = hopInfos[g] \/ hopInfos'[g] = <<>>
    BY <1>0, <1>7 DEF EstablishFails, connVars, TypeOK
  <2>3. QED
    BY <2>1, <2>2, RoutesStay
<1>8. ASSUME NEW c \in Conns, CloseIdle(c) \/ Evict(c)
      PROVE  RoutesKept'
  <2>1. /\ CloseConn(c, NoForward) /\ UNCHANGED <<route, hopInfos>>
        /\ \A d \in Conns : key'[d] # <<>> =>
              key'[d] = key[d] /\ client'[d] = client[d]
    BY <1>8, ClosedLeaves, ConnClosed
  <2>2. \A l \in Clients : Alive(l)' => Alive(l) /\ Over(l)' = Over(l)
    BY <1>0, <2>1, Closing DEF CloseConn
  <2>3. QED
    BY <2>1, <2>2, RoutesStay
<1>9. ASSUME NEW l \in Clients, PeerLost(l)
      PROVE  RoutesKept'
  <2>1. \A m \in Clients : Alive(m)' => Alive(m) /\ Over(m)' = Over(m)
    BY <1>0, <1>9, Closing DEF PeerLost
  <2>2. UNCHANGED <<route, key, client, hopInfos>>
    BY <1>9 DEF PeerLost, connVars
  <2>3. QED
    BY <2>1, <2>2, RoutesStay
<1>10. QED
  BY <1>1, <1>2, <1>3, <1>4, <1>5, <1>6, <1>7, <1>8, <1>9 DEF Next

-----------------------------------------------------------------------------
(* Somebody will close every client, or a displaced connection lists it.   *)

Listing(c) == c \in displaced \/ \E k \in Keys : pools[k] = c

LEMMA StillKept ==
    ASSUME HopIInv, NEW l \in Clients, Up(l),
           \A g \in Forwards : l \in Created(g) => l \in Created(g)',
           \A c \in Conns : Listing(c) /\ l \in ToSet(all[c]) =>
               Listing(c)' /\ all'[c] = all[c]
    PROVE  Kept(l)'
<1>1. Kept(l)
  BY Zenon DEF HopIInv, NoClientLostUnlessDisplaced
<1>2. ASSUME NEW c \in Conns, Listing(c), l \in ToSet(all[c])
      PROVE  Kept(l)'
  <2>1. Listing(c)' /\ l \in ToSet(all'[c])
    BY <1>2
  <2>2. CASE c \in displaced'
    BY <2>1, <2>2, Zenon DEF Kept
  <2>3. ASSUME NEW k \in Keys, pools'[k] = c
        PROVE  Kept(l)'
    <3>1. pools'[k] # NoConn /\ l \in ToSet(all'[pools'[k]])
      BY <2>1, <2>3, RoutesAssumption
    <3>2. QED
      BY <3>1, Zenon DEF Kept
  <2>4. QED
    BY <2>1, <2>2, <2>3, Zenon DEF Listing
<1>3. ASSUME NEW k \in Keys, pools[k] # NoConn, l \in ToSet(all[pools[k]])
      PROVE  Kept(l)'
  <2>1. pools[k] \in Conns /\ Listing(pools[k])
    BY <1>3, InPool DEF Listing
  <2>2. QED
    BY <1>2, <1>3, <2>1
<1>4. ASSUME NEW c \in displaced, l \in ToSet(all[c])
      PROVE  Kept(l)'
  <2>1. c \in Conns /\ Listing(c)
    BY <1>4, OutOfPool DEF Listing
  <2>2. QED
    BY <1>2, <1>4, <2>1
<1>5. ASSUME NEW g \in Forwards, l \in Created(g)
      PROVE  Kept(l)'
  BY <1>5, Zenon DEF Kept
<1>6. QED
  BY <1>1, <1>3, <1>4, <1>5, Zenon DEF Kept

LEMMA InList ==
    ASSUME NEW s, NEW l \in ToSet(s)
    PROVE  s # <<>>
BY EmptySeq DEF ToSet

(* The steps that only close clients, or nothing.                          *)
LEMMA LostNothing ==
    ASSUME HopIInv, UNCHANGED <<pools, all, hopInfos, displaced>>,
           \A l \in Clients : Up(l)' => Up(l)
    PROVE  NoClientLostUnlessDisplaced'
<1>1. ASSUME NEW l \in Clients, Up(l)'
      PROVE  Kept(l)'
  <2>1. \A g \in Forwards : l \in Created(g) => l \in Created(g)'
    BY CreatedKept
  <2>2. \A c \in Conns : Listing(c)' = Listing(c)
    BY DEF Listing
  <2>3. QED
    BY <1>1, <2>1, <2>2, StillKept
<1>2. QED
  BY <1>1, Zenon DEF NoClientLostUnlessDisplaced

(* The clients of a connection that is closed are all down.                *)
LEMMA CloseKeeps ==
    ASSUME HopIInv, NEW c \in Conns, NEW f, CloseConn(c, f), hopInfos' = hopInfos,
           \A d \in Conns \ {c} : Listing(d) => Listing(d)'
    PROVE  NoClientLostUnlessDisplaced'
<1>1. CloseClients(ClientsOf(c)) /\ \A d \in Conns \ {c} : all'[d] = all[d]
  BY DEF CloseConn, HopIInv, TypeOK
<1>2. ASSUME NEW l \in Clients, Up(l)'
      PROVE  Kept(l)'
  <2>1. Up(l) /\ l \notin ClientsOf(c)
    BY <1>1, <1>2, Closing DEF HopIInv
  <2>2. l \notin ToSet(all[c])
    BY <2>1, InList DEF ClientsOf
  <2>3. \A d \in Conns : Listing(d) /\ l \in ToSet(all[d]) =>
            Listing(d)' /\ all'[d] = all[d]
    BY <1>1, <2>2
  <2>4. \A g \in Forwards : l \in Created(g) => l \in Created(g)'
    BY CreatedKept
  <2>5. QED
    BY <2>1, <2>3, <2>4, StillKept
<1>3. QED
  BY <1>2, Zenon DEF NoClientLostUnlessDisplaced

(* A connection that is put into the pool drops none out of it: the entry  *)
(* that it replaces is displaced.                                          *)
LEMMA PoolKeeps ==
    ASSUME HopIInv, NEW k \in Keys, NEW l \in Clients, NEW ls, PoolConn(k, l, ls),
           displaced' = (displaced \cup {pools[k]}) \ {NoConn}
    PROVE  /\ \A c \in Conns : Listing(c) => Listing(c)' /\ all'[c] = all[c]
           /\ NewConn \in Conns /\ pools'[k] = NewConn /\ all'[NewConn] = ls
<1>1. /\ NewConn \in Conns /\ NewConn \notin displaced
      /\ \A j \in Keys : pools[j] # NewConn
      /\ pools'[k] = NewConn /\ \A j \in Keys \ {k} : pools'[j] = pools[j]
      /\ all'[NewConn] = ls
      /\ \A d \in Conns \ {NewConn} : all'[d] = all[d]
  BY ConnPooled
<1>2. ASSUME NEW c \in Conns, Listing(c)
      PROVE  Listing(c)' /\ all'[c] = all[c]
  <2>1. c # NewConn
    BY <1>1, <1>2 DEF Listing
  <2>2. c # NoConn
    BY RoutesAssumption
  <2>3. CASE c \in displaced \/ pools[k] = c
    BY <1>1, <2>1, <2>2, <2>3 DEF Listing
  <2>4. CASE \E j \in Keys \ {k} : pools[j] = c
    BY <1>1, <2>1, <2>4 DEF Listing
  <2>5. QED
    BY <1>2, <2>3, <2>4 DEF Listing
<1>3. QED
  BY <1>1, <1>2

LEMMA LostStep ==
    ASSUME HopIInv, Next
    PROVE  NoClientLostUnlessDisplaced'
<1>0. TypeOK
  BY DEF HopIInv
<1>p. ASSUME UNCHANGED <<pools, displaced>>
      PROVE  \A c \in Conns : Listing(c)' = Listing(c)
  BY <1>p DEF Listing
<1>1. ASSUME NEW f \in Forwards,
             \/ Lookup(f) \/ AcquireExisting(f) \/ Lead(f) \/ Join(f)
             \/ DoubleCheck(f) \/ Finish(f) \/ Forget(f) \/ AcquireShared(f)
             \/ AcquireSharedFails(f) \/ FindHop(f) \/ ReuseHopFails(f)
             \/ Release(f)
      PROVE  NoClientLostUnlessDisplaced'
  <2>1. UNCHANGED <<pools, all, hopInfos, displaced>> /\ UNCHANGED clientVars
    BY <1>1 DEF Lookup, AcquireExisting, Lead, Join, DoubleCheck, Finish, Forget,
                AcquireShared, AcquireSharedFails, FindHop, ReuseHopFails,
                Release, TakeRef, LetGo, connVars
  <2>2. QED
    BY <2>1, NothingCut, LostNothing
<1>2. ASSUME NEW f \in Forwards, DropDead(f)
      PROVE  NoClientLostUnlessDisplaced'
  <2>1. /\ conn[f] \in Conns /\ CloseConn(conn[f], f) /\ hopInfos' = hopInfos
        /\ \A k \in Keys : k # route[f] => pools'[k] = pools[k]
        /\ displaced' = (displaced \cup {pools[route[f]]}) \ {NoConn, conn[f]}
    BY <1>2, DroppedLeaves DEF DropDead
  <2>2. ASSUME NEW d \in Conns \ {conn[f]}, Listing(d)
        PROVE  Listing(d)'
    <3>1. d # NoConn
      BY RoutesAssumption
    <3>2. CASE d \in displaced \/ pools[route[f]] = d
      BY <2>1, <3>1, <3>2 DEF Listing
    <3>3. CASE \E k \in Keys \ {route[f]} : pools[k] = d
      BY <2>1, <3>3 DEF Listing
    <3>4. QED
      BY <2>2, <3>2, <3>3 DEF Listing
  <2>3. QED
    BY <2>1, <2>2, CloseKeeps
<1>3. ASSUME NEW f \in Forwards, ReuseHop(f)
      PROVE  NoClientLostUnlessDisplaced'
  <2>1. /\ client[conn[f]] \in Clients /\ AddHop(f, client[conn[f]], "reused")
        /\ UNCHANGED <<pools, all, displaced>> /\ UNCHANGED clientVars
    BY <1>3, AtStep, AnswersOver DEF ReuseHop, TakeRef
  <2>2. \A g \in Forwards : Created(g) \subseteq Created(g)'
    BY <1>0, <2>1, CreatedGrows
  <2>3. ASSUME NEW l \in Clients, Up(l)'
        PROVE  Kept(l)'
    BY <1>p, <2>1, <2>2, <2>3, NothingCut, StillKept
  <2>4. QED
    BY <2>3, Zenon DEF NoClientLostUnlessDisplaced
<1>4. ASSUME NEW f \in Forwards, DialHop(f)
      PROVE  NoClientLostUnlessDisplaced'
  <2>1. PICK l \in Clients : /\ AddHop(f, l, "created")
                             /\ \A m \in Clients \ {l} : Up(m)' => Up(m)
    BY <1>4, Dialled
  <2>2. UNCHANGED <<pools, all, displaced>>
    BY <1>4, Zenon DEF DialHop, connVars
  <2>3. (\A g \in Forwards : Created(g) \subseteq Created(g)') /\ l \in Created(f)'
    BY <1>0, <2>1, CreatedGrows
  <2>4. Kept(l)'
    BY <2>3, Zenon DEF Kept
  <2>5. ASSUME NEW m \in Clients \ {l}, Up(m)'
        PROVE  Kept(m)'
    BY <1>p, <2>1, <2>2, <2>3, <2>5, StillKept
  <2>6. QED
    BY <2>4, <2>5, Zenon DEF NoClientLostUnlessDisplaced
<1>5. ASSUME NEW f \in Forwards, AddPartial(f)
      PROVE  NoClientLostUnlessDisplaced'
  <2> DEFINE k == SubSeq(route[f], 1, Len(hopInfos[f]))
             last == Last(hopInfos[f]).client
  <2>1. k \in Keys /\ last \in Clients
    BY <1>0, <1>5, AtStep, HopClients DEF AddPartial
  <2>2. \/ pools[k] = NoConn /\ PoolConn(k, last, <<>>)
        \/ UNCHANGED <<pools, connVars>>
    BY <1>5, Zenon DEF AddPartial
  <2>3. UNCHANGED <<hopInfos, displaced>> /\ UNCHANGED clientVars
    BY <1>5, Zenon DEF AddPartial
  <2> HIDE DEF k, last
  <2>4. CASE pools[k] = NoConn /\ PoolConn(k, last, <<>>)
    <3>1. displaced' = (displaced \cup {pools[k]}) \ {NoConn}
      BY <1>0, <2>3, <2>4, RoutesAssumption DEF TypeOK
    <3>2. \A c \in Conns : Listing(c) => Listing(c)' /\ all'[c] = all[c]
      BY <2>1, <2>4, <3>1, PoolKeeps
    <3>3. ASSUME NEW l \in Clients, Up(l)'
          PROVE  Kept(l)'
      <4>1. \A g \in Forwards : l \in Created(g) => l \in Created(g)'
        BY <2>3, CreatedKept
      <4>2. QED
        BY <2>3, <3>2, <3>3, <4>1, NothingCut, StillKept
    <3>4. QED
      BY <3>3, Zenon DEF NoClientLostUnlessDisplaced
  <2>5. CASE UNCHANGED <<pools, connVars>>
    BY <2>3, <2>5, NothingCut, LostNothing DEF connVars
  <2>6. QED
    BY <2>2, <2>4, <2>5
<1>6. ASSUME NEW f \in Forwards, Insert(f)
      PROVE  NoClientLostUnlessDisplaced'
  <2> DEFINE last == Last(hopInfos[f]).client
             ls == [i \in DOMAIN hopInfos[f] |-> hopInfos[f][i].client]
  <2>1. route[f] \in Keys /\ last \in Clients
    BY <1>0, <1>6, AtStep, HopClients, WholeRoute DEF Insert
  <2>2. PoolConn(route[f], last, ls)
        /\ displaced' = (displaced \cup {pools[route[f]]}) \ {NoConn}
    BY <1>6, Zenon DEF Insert
  <2>3. /\ UNCHANGED clientVars
        /\ \A g \in Forwards \ {f} : hopInfos'[g] = hopInfos[g]
    BY <1>0, <1>6 DEF Insert, TypeOK
  <2>4. \A l \in Created(f) : l \in ToSet(ls)
    <3>1. \A i \in DOMAIN hopInfos[f] : ls[i] = hopInfos[f][i].client
      OBVIOUS
    <3>2. DOMAIN ls = DOMAIN hopInfos[f]
      OBVIOUS
    <3> HIDE DEF ls
    <3>3. ASSUME NEW l \in Created(f)
          PROVE  \E i \in DOMAIN ls : ls[i] = l
      <4>1. PICK i \in DOMAIN hopInfos[f] : hopInfos[f][i].client = l
        BY CreatedAre, Zenon
      <4>2. QED
        BY <3>1, <3>2, <4>1
    <3>4. QED
      BY <3>3 DEF ToSet
  <2> HIDE DEF last, ls
  <2>5. /\ \A c \in Conns : Listing(c) => Listing(c)' /\ all'[c] = all[c]
        /\ NewConn \in Conns /\ pools'[route[f]] = NewConn /\ all'[NewConn] = ls
    BY <2>1, <2>2, PoolKeeps
  <2>6. ASSUME NEW l \in Clients, Up(l)'
        PROVE  Kept(l)'
    <3>1. CASE l \in Created(f)
      <4>1. pools'[route[f]] # NoConn /\ l \in ToSet(all'[pools'[route[f]]])
        BY <2>4, <2>5, <3>1, RoutesAssumption
      <4>2. QED
        BY <2>1, <4>1 DEF Kept
    <3>2. CASE l \notin Created(f)
      <4>1. \A g \in Forwards : l \in Created(g) => l \in Created(g)'
        BY <2>3, <3>2, CreatedKept
      <4>2. QED
        BY <2>3, <2>5, <2>6, <4>1, NothingCut, StillKept
    <3>3. QED
      BY <3>1, <3>2
  <2>7. QED
    BY <2>6, Zenon DEF NoClientLostUnlessDisplaced
<1>7. ASSUME NEW f \in Forwards, EstablishFails(f)
      PROVE  NoClientLostUnlessDisplaced'
  <2>1. /\ CloseClients(Created(f)) /\ UNCHANGED <<pools, all, displaced>>
        /\ \A g \in Forwards \ {f} : hopInfos'[g] = hopInfos[g]
    BY <1>0, <1>7 DEF EstablishFails, connVars, TypeOK
  <2>2. ASSUME NEW l \in Clients, Up(l)'
        PROVE  Kept(l)'
    <3>1. Up(l) /\ l \notin Created(f)
      BY <1>0, <2>1, <2>2, Closing
    <3>2. \A g \in Forwards : l \in Created(g) => l \in Created(g)'
      BY <2>1, <3>1, CreatedKept
    <3>3. QED
      BY <1>p, <2>1, <3>1, <3>2, StillKept
  <2>3. QED
    BY <2>2, Zenon DEF NoClientLostUnlessDisplaced
<1>8. ASSUME NEW c \in Conns, CloseIdle(c) \/ Evict(c)
      PROVE  NoClientLostUnlessDisplaced'
  <2>1. /\ CloseConn(c, NoForward) /\ hopInfos' = hopInfos
        /\ \A k \in Keys : pools[k] # c => pools'[k] = pools[k]
        /\ displaced' = displaced \ {c}
    BY <1>8, ClosedLeaves
  <2>2. \A d \in Conns \ {c} : Listing(d) => Listing(d)'
    BY <2>1 DEF Listing
  <2>3. QED
    BY <2>1, <2>2, CloseKeeps
<1>9. ASSUME NEW l \in Clients, PeerLost(l)
      PROVE  NoClientLostUnlessDisplaced'
  <2>1. CloseClients({l}) /\ UNCHANGED <<pools, all, hopInfos, displaced>>
    BY <1>9 DEF PeerLost, connVars
  <2>2. QED
    BY <1>0, <2>1, Closing, LostNothing
<1>10. QED
  BY <1>1, <1>2, <1>3, <1>4, <1>5, <1>6, <1>7, <1>8, <1>9 DEF Next

-----------------------------------------------------------------------------
LEMMA HopStutter ==
    ASSUME HopIInv, UNCHANGED vars
    PROVE  HopIInv'
<1> USE DEF vars, connVars, clientVars
<1>1. TypeOK' /\ HopsCounted' /\ PooledByKey' /\ CallsByRoute'
  BY DEF HopIInv, TypeOK, HopsCounted, PooledByKey, CallsByRoute
<1>2. ConnInHand'
  BY DEF HopIInv, ConnInHand, InHand, Key
<1>3. RoutesKept'
  BY NothingCut, RoutesStay
<1>4. NoClientLostUnlessDisplaced'
  BY NothingCut, LostNothing
<1>5. QED
  BY <1>1, <1>2, <1>3, <1>4 DEF HopIInv

(* The invariant holds however many forwards need a chain, whatever they   *)
(* look up, join, find, dial, add, insert, drop, release and give up, and  *)
(* whatever connections expire, are evicted or lose a peer, in any order.  *)
THEOREM HopInvariant == FairSpec => []HopIInv
<1>1. HopIInv /\ [Next]_vars => HopIInv'
  <2>1. HopIInv /\ Next => HopIInv'
    BY TypeStep, CountStep, CallsStep, PoolStep, RoutesStep, LostStep DEF HopIInv
  <2>2. QED
    BY <2>1, HopStutter
<1>2. QED
  BY InitHop, <1>1, PTL DEF FairSpec, Spec

(* NoClientLostUnlessDisplaced: a path through EstablishWithReuse, Acquire,*)
(* closing or eviction that leaves an SSH client up that no call and no    *)
(* pooled connection lists is one on which a caller of the same chain took *)
(* out of the pool, open, the connection that lists it.                    *)
THEOREM OnlyTheDisplacedAreLost == FairSpec => []NoClientLostUnlessDisplaced
BY HopInvariant, PTL DEF HopIInv

(* RunsOverItsRoute: a pooled connection that answers runs over exactly    *)
(* the machines of its signature, in order.                                *)
THEOREM ChainsRunOverRoutes == FairSpec => []RunsOverItsRoute
<1>1. HopIInv => RunsOverItsRoute
  <2> SUFFICES ASSUME HopIInv, NEW k \in Keys, pools[k] # NoConn, Answers(pools[k])
               PROVE  Over(client[pools[k]]) = k
    BY Zenon DEF RunsOverItsRoute, Over
  <2>1. pools[k] \in Conns /\ key[pools[k]] = k /\ k # <<>>
    BY InPool
  <2>2. client[pools[k]] \in Clients /\ Alive(client[pools[k]])
    BY <2>1, AnswersOver
  <2>3. ConnRoute(pools[k])
    BY <2>1, Zenon DEF HopIInv, RoutesKept
  <2>4. QED
    BY <2>1, <2>2, <2>3, Zenon DEF ConnRoute
<1>2. QED
  BY <1>1, HopInvariant, PTL
=============================================================================
