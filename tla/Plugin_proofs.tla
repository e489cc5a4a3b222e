---------------------------- MODULE Plugin_proofs ----------------------------
(***************************************************************************)
(* Proofs about Plugin for every value of its constants.                   *)
(*                                                                         *)
(* The inductive invariant has a part for the panel of interfaces and its  *)
(* store, one for the settings and one for the menus.  CapturesKnown needs *)
(* that the store is part of what the kernel has unless others changed it, *)
(* SettingsHold that config.ini is the dialog that was saved, OpensNamed   *)
(* that the sub-panels are those of some settings.                         *)
(***************************************************************************)
EXTENDS Plugin, FiniteSetTheorems, SequenceTheorems, TLAPS

\* What is stored of an interface is what the kernel has of it.
PartOf(s, k) == DOMAIN s \subseteq DOMAIN k /\ \A n \in DOMAIN s : s[n] = k[n]

IfaceTyped ==
  /\ net \in Stores /\ nifs \in Stores /\ running \subseteq Names
  /\ change \in BOOLEAN /\ behind \in BOOLEAN /\ lost \in BOOLEAN /\ outer \in BOOLEAN
  /\ tcpdump \in Seq(Names) /\ Len(tcpdump) =< MaxCaptures
  /\ asked \in [Names -> SUBSET BOOLEAN]
  /\ refused \subseteq Names /\ strayed \subseteq Names

Due    == behind => change \/ lost
Known  == running \subseteq ToSet(tcpdump) \cup strayed
Kept   == \A n \in DOMAIN net : asked[n] \subseteq {net[n]} \/ n \in refused
Follow == ~outer => PartOf(nifs, net)

IfaceSafe == IfaceTyped /\ Due /\ Known /\ Kept /\ Follow

\* config.ini says what the dialog said when it was saved.
Saved == kept # None =>
           /\ ini # None
           /\ ini.menu = kept.menu /\ ini.multicast = kept.multicast
           /\ ini.logEnable = kept.logEnable
           /\ ini.logEnable => ini.logfile = kept.logfile

CfgTyped == /\ cfg \in Settings \cup {None} /\ ini \in Settings \cup {None}
            /\ kept \in Settings \cup {None}
            /\ fresh \in BOOLEAN /\ typedOff \in BOOLEAN

CfgSafe == CfgTyped /\ Saved /\ SettingsHold

PickedTyped == picked = [menu |-> picked.menu, sub |-> picked.sub]

ViewTyped == /\ PickedTyped
             /\ view \in Panels \cup {None} /\ (cfg = None => view = None)
             /\ active = 1 \/ active \in DOMAIN panels

\* The sub-panels are those of the settings at the start.
Built == cfg # None => /\ \E s \in Settings : panels = SubPanels(s)
                       /\ fresh => panels = SubPanels(cfg)

MenuSafe == ViewTyped /\ Built /\ OpensNamed

-----------------------------------------------------------------------------
(***************************************************************************)
(* The store.                                                              *)
(***************************************************************************)

LEMMA EmptyStore == << >> \in Stores /\ \A k : PartOf(<< >>, k)
BY DEF Stores, PartOf

\* However a load ends, what is stored is part of what the kernel has.
LEMMA UpdateStores ==
  ASSUME NEW k \in Stores, NEW u \in Update(k)
  PROVE  u.ok \in BOOLEAN /\ u.ifs \in Stores /\ PartOf(u.ifs, k)
<1>1. \A l \in Linked(k) : l \in Stores /\ PartOf(l, k)
  BY DEF Linked, Restrict, Stores, PartOf
<1>2. \A v \in UpdateByNetlink(k) : v.ok \in BOOLEAN /\ v.ifs \in Stores /\ PartOf(v.ifs, k)
  <2> SUFFICES ASSUME NEW v \in UpdateByNetlink(k)
               PROVE  v.ok \in BOOLEAN /\ v.ifs \in Stores /\ PartOf(v.ifs, k)
    OBVIOUS
  <2>1. CASE v = [ok |-> FALSE, ifs |-> << >>]
    BY <2>1, EmptyStore
  <2>2. CASE \E ok \in BOOLEAN, l \in Linked(k) : v = [ok |-> ok, ifs |-> l]
    BY <2>2, <1>1
  <2>3. v = [ok |-> FALSE, ifs |-> << >>]
          \/ \E ok \in BOOLEAN, l \in Linked(k) : v = [ok |-> ok, ifs |-> l]
    BY DEF UpdateByNetlink
  <2> QED BY <2>1, <2>2, <2>3
<1>3. \A v \in UpdateByNetlink(k) : \A w \in UpdateByProcNet(k, v.ifs) :
        w.ok \in BOOLEAN /\ w.ifs \in Stores /\ PartOf(w.ifs, k)
  <2> SUFFICES ASSUME NEW v \in UpdateByNetlink(k), NEW w \in UpdateByProcNet(k, v.ifs)
               PROVE  w.ok \in BOOLEAN /\ w.ifs \in Stores /\ PartOf(w.ifs, k)
    OBVIOUS
  <2>1. PartOf(k, k)
    BY DEF PartOf
  <2>2. w = [ok |-> FALSE, ifs |-> v.ifs] \/ w = [ok |-> TRUE, ifs |-> k]
    BY DEF UpdateByProcNet
  <2>3. CASE w = [ok |-> FALSE, ifs |-> v.ifs]
    BY <1>2, <2>3
  <2>4. CASE w = [ok |-> TRUE, ifs |-> k]
    BY <2>1, <2>4
  <2> QED BY <2>2, <2>3, <2>4
<1>4. PICK v \in UpdateByNetlink(k) : u \in (IF v.ok THEN {v} ELSE UpdateByProcNet(k, v.ifs))
  BY DEF Update
<1> QED BY <1>2, <1>3, <1>4

\* What the redraw of the panel leaves.
LEMMA GetFindDataKeeps ==
  ASSUME NEW due \in BOOLEAN, NEW dirty \in BOOLEAN, NEW other \in BOOLEAN,
         net' \in Stores, nifs \in Stores, lost \in BOOLEAN, GetFindData(due, dirty, other)
  PROVE  /\ nifs' \in Stores
         /\ change' \in BOOLEAN /\ behind' \in BOOLEAN /\ outer' \in BOOLEAN
         /\ lost' \in BOOLEAN
         /\ behind' => change' \/ (dirty /\ ~due)
         /\ due => PartOf(nifs', net')
         /\ ~due => nifs' = nifs /\ outer' = other /\ lost' = lost
<1>1. PICK u \in IF due THEN Update(net') ELSE {[ok |-> FALSE, ifs |-> nifs]} :
        /\ nifs' = u.ifs
        /\ change' = (due /\ ~u.ok)
        /\ behind' = ((dirty \/ due) /\ ~u.ok)
        /\ outer' = (other /\ ~u.ok)
        /\ lost' = (lost /\ ~due)
  BY DEF GetFindData
<1>2. CASE due
  <2>1. u.ok \in BOOLEAN /\ u.ifs \in Stores /\ PartOf(u.ifs, net')
    BY <1>1, <1>2, UpdateStores
  <2>2. nifs' \in Stores /\ PartOf(nifs', net')
    BY <1>1, <2>1
  <2>3. change' \in BOOLEAN /\ behind' \in BOOLEAN /\ outer' \in BOOLEAN /\ lost' \in BOOLEAN
    BY <1>1, <2>1
  <2>4. behind' => change'
    BY <1>1, <1>2, <2>1
  <2> QED BY <1>2, <2>2, <2>3, <2>4
<1>3. CASE ~due
  <2>1. u = [ok |-> FALSE, ifs |-> nifs]
    BY <1>1, <1>3
  <2>2. u.ok = FALSE /\ u.ifs = nifs
    BY <2>1
  <2> QED BY <1>1, <1>3, <2>2
<1> QED BY <1>2, <1>3
\* A handler that reloads keeps the invariant, whatever it has done to the
\* kernel before, if it has accounted for captures and what they asked for.
LEMMA ReloadKeeps ==
  ASSUME IfaceSafe, NEW due \in BOOLEAN, NEW dirty \in BOOLEAN,
         GetFindData(due, dirty, outer),
         net' \in Stores, running' \subseteq Names, refused' \subseteq Names,
         tcpdump' \in Seq(Names), Len(tcpdump') =< MaxCaptures,
         asked' \in [Names -> SUBSET BOOLEAN], strayed' \subseteq Names,
         Known', Kept', ~due => net' = net /\ dirty = behind /\ ~change
  PROVE  IfaceSafe'
<1>1. nifs \in Stores /\ change \in BOOLEAN /\ behind \in BOOLEAN /\ lost \in BOOLEAN
        /\ outer \in BOOLEAN
  BY DEF IfaceSafe, IfaceTyped
<1>2. /\ nifs' \in Stores
      /\ change' \in BOOLEAN /\ behind' \in BOOLEAN /\ outer' \in BOOLEAN /\ lost' \in BOOLEAN
      /\ behind' => change' \/ (dirty /\ ~due)
      /\ due => PartOf(nifs', net')
      /\ ~due => nifs' = nifs /\ outer' = outer /\ lost' = lost
  BY <1>1, GetFindDataKeeps
<1>3. IfaceTyped'
  BY <1>1, <1>2 DEF IfaceTyped
<1>4. Follow'
  BY <1>2 DEF IfaceSafe, Follow
<1>5. Due'
  <2>1. CASE due
    BY <1>2, <2>1 DEF Due
  <2>2. CASE ~due
    BY <1>2, <2>2 DEF IfaceSafe, Due
  <2> QED BY <2>1, <2>2
<1> QED BY <1>3, <1>4, <1>5 DEF IfaceSafe
\* A handler that does not reload keeps it if it leaves the interfaces alone.
LEMMA NoRedrawKeeps ==
  ASSUME IfaceSafe, NoRedraw, net' = net, running' \subseteq Names,
         tcpdump' \in Seq(Names), Len(tcpdump') =< MaxCaptures,
         asked' = asked, refused' = refused, strayed' \subseteq Names, Known'
  PROVE  IfaceSafe'
<1>1. IfaceTyped'
  BY DEF IfaceSafe, IfaceTyped, NoRedraw
<1>2. Due'
  BY DEF IfaceSafe, IfaceTyped, Due, NoRedraw
<1>3. Kept'
  BY DEF IfaceSafe, Kept
<1>4. Follow'
  BY DEF IfaceSafe, Follow, NoRedraw
<1> QED BY <1>1, <1>2, <1>3, <1>4 DEF IfaceSafe

-----------------------------------------------------------------------------
(***************************************************************************)
(* The keys of the panel of interfaces.                                    *)
(***************************************************************************)

LEMMA SwitchedStore ==
  ASSUME NEW k \in Stores, NEW n \in DOMAIN k, NEW on \in BOOLEAN
  PROVE  [k EXCEPT ![n] = on] \in Stores
<1>1. PICK S \in SUBSET Names : k \in [S -> BOOLEAN]
  BY DEF Stores
<1>2. [k EXCEPT ![n] = on] \in [S -> BOOLEAN]
  BY <1>1
<1> QED BY <1>2 DEF Stores

LEMMA StoredNames == \A k \in Stores : DOMAIN k \subseteq Names
BY DEF Stores

LEMMA SwitchedFlag ==
  ASSUME NEW k \in Stores
  PROVE  \A n \in DOMAIN k : k[n] \in BOOLEAN
BY DEF Stores

LEMMA RereadKeeps == ASSUME IfaceSafe, Reread PROVE IfaceSafe'
<1>1. Known' /\ Kept'
  BY DEF IfaceSafe, Known, Kept, Reread, kernelVars
<1>2. behind \in BOOLEAN
  BY DEF IfaceSafe, IfaceTyped
<1> QED BY <1>1, <1>2, ReloadKeeps DEF IfaceSafe, IfaceTyped, Reread, kernelVars

\* The edit dialog; whether it changed what the last capture asked for is asked's.
LEMMA EditInterfaceKeeps ==
  ASSUME IfaceSafe, NEW n \in Names, EditInterface(n) PROVE IfaceSafe'
<1>1. Known'
  BY DEF IfaceSafe, Known, EditInterface
<1>2. CASE UNCHANGED << net, asked >> /\ NoRedraw
  BY <1>1, <1>2, NoRedrawKeeps DEF IfaceSafe, IfaceTyped, EditInterface
<1>3. CASE /\ n \in DOMAIN net
           /\ \E on \in BOOLEAN :
                /\ net' = [net EXCEPT ![n] = on]
                /\ asked' = IF on = net[n] THEN asked ELSE [asked EXCEPT ![n] = {}]
           /\ GetFindData(TRUE, TRUE, outer)
  <2>1. PICK on \in BOOLEAN :
          /\ net' = [net EXCEPT ![n] = on]
          /\ asked' = IF on = net[n] THEN asked ELSE [asked EXCEPT ![n] = {}]
    BY <1>3
  <2>2. net \in Stores /\ asked \in [Names -> SUBSET BOOLEAN]
    BY DEF IfaceSafe, IfaceTyped
  <2>3. net' \in Stores
    BY <1>3, <2>1, <2>2, SwitchedStore
  <2>4. asked' \in [Names -> SUBSET BOOLEAN]
    BY <2>1, <2>2
  <2>5. DOMAIN net \subseteq Names
    BY <2>2, StoredNames
  <2>6. Kept'
    <3> SUFFICES ASSUME NEW m \in DOMAIN net PROVE asked'[m] \subseteq {net'[m]} \/ m \in refused'
      BY <2>1 DEF Kept
    <3>1. asked[m] \subseteq {net[m]} \/ m \in refused
      BY DEF IfaceSafe, Kept
    <3>2. m \in refused' <=> m \in refused
      BY DEF EditInterface
    <3>3. CASE m = n
      <4>1. asked'[m] \subseteq asked[m]
        BY <2>1, <2>2, <2>5
      <4>2. on # net[n] => asked'[m] = {}
        BY <2>1, <2>2, <2>5, <3>3
      <4>3. net'[m] = on
        BY <2>1, <3>3
      <4> QED BY <3>1, <3>2, <3>3, <4>1, <4>2, <4>3
    <3>4. CASE m # n
      <4>1. asked'[m] = asked[m] /\ net'[m] = net[m]
        BY <2>1, <2>2, <2>5, <3>4
      <4> QED BY <3>1, <3>2, <4>1
    <3> QED BY <3>3, <3>4
  <2> QED BY <1>1, <1>3, <2>3, <2>4, <2>6, ReloadKeeps DEF IfaceSafe, IfaceTyped, EditInterface
<1> QED BY <1>2, <1>3 DEF EditInterface

\* A command of SetPromisc's that did not fail has set the flag; one that was left
\* out had no need to, because the store is part of what the kernel has unless
\* others changed it.
LEMMA SetPromiscFacts ==
  ASSUME IfaceSafe, NEW n \in DOMAIN nifs, NEW on \in BOOLEAN, NEW p \in SetPromisc(n, on)
  PROVE  /\ p.now \in Stores /\ DOMAIN p.now = DOMAIN net
         /\ \A m \in DOMAIN net \ {n} : p.now[m] = net[m]
         /\ ~p.failed /\ ~(nifs[n] = on /\ outer) /\ n \in DOMAIN net => p.now[n] = on
<1>1. net \in Stores /\ outer \in BOOLEAN
  BY DEF IfaceSafe, IfaceTyped
<1>2. CASE nifs[n] = on
  <2>1. p = [now |-> net, failed |-> FALSE]
    BY <1>2 DEF SetPromisc
  <2>2. ~outer => net[n] = nifs[n]
    BY DEF IfaceSafe, Follow, PartOf
  <2> QED BY <1>1, <1>2, <2>1, <2>2
<1>3. CASE nifs[n] # on
  <2>1. p = [now |-> net, failed |-> TRUE]
          \/ (n \in DOMAIN net /\ p = [now |-> [net EXCEPT ![n] = on], failed |-> FALSE])
    BY <1>3 DEF SetPromisc
  <2>2. CASE p = [now |-> net, failed |-> TRUE]
    BY <1>1, <2>2
  <2>3. CASE n \in DOMAIN net /\ p = [now |-> [net EXCEPT ![n] = on], failed |-> FALSE]
    <3>1. [net EXCEPT ![n] = on] \in Stores
      BY <1>1, <2>3, SwitchedStore
    <3> QED BY <1>1, <2>3, <3>1
  <2> QED BY <2>1, <2>2, <2>3
<1> QED BY <1>2, <1>3
\* A capture that is started enters the list before it can run.
LEMMA TcpDumpStartFacts ==
  ASSUME IfaceSafe, NEW n \in DOMAIN nifs, NEW on \in BOOLEAN, TcpDumpStart(n, on)
  PROVE  /\ net' \in Stores /\ running' \subseteq Names /\ strayed' \subseteq Names
         /\ tcpdump' \in Seq(Names) /\ Len(tcpdump') =< MaxCaptures
         /\ asked' \in [Names -> SUBSET BOOLEAN] /\ refused' \subseteq Names
         /\ Known' /\ Kept'
<1>1. PICK p \in SetPromisc(n, on) :
        /\ net' = p.now
        /\ asked' = [asked EXCEPT ![n] = IF nifs[n] = on /\ outer THEN {} ELSE {on}]
        /\ refused' = IF p.failed THEN refused \cup {n} ELSE refused \ {n}
        /\ \/ UNCHANGED << tcpdump, running, strayed >>
           \/ /\ Len(tcpdump) < MaxCaptures
              /\ tcpdump' = Append(tcpdump, n)
              /\ running' \in {running} \cup {running \cup {n} : m \in {n} \cap DOMAIN net}
              /\ strayed' = strayed
  BY DEF TcpDumpStart
<1>2. /\ net \in Stores /\ nifs \in Stores /\ running \subseteq Names /\ strayed \subseteq Names
      /\ tcpdump \in Seq(Names) /\ Len(tcpdump) =< MaxCaptures
      /\ asked \in [Names -> SUBSET BOOLEAN] /\ refused \subseteq Names
  BY DEF IfaceSafe, IfaceTyped
<1>3. n \in Names /\ DOMAIN net \subseteq Names
  BY <1>2, StoredNames
<1>4. /\ p.now \in Stores /\ DOMAIN p.now = DOMAIN net
      /\ \A m \in DOMAIN net \ {n} : p.now[m] = net[m]
      /\ ~p.failed /\ ~(nifs[n] = on /\ outer) /\ n \in DOMAIN net => p.now[n] = on
  BY SetPromiscFacts
<1>5. asked' \in [Names -> SUBSET BOOLEAN] /\ refused' \subseteq Names
  BY <1>1, <1>2, <1>3
<1>6. Kept'
  <2> SUFFICES ASSUME NEW m \in DOMAIN net PROVE asked'[m] \subseteq {net'[m]} \/ m \in refused'
    BY <1>1, <1>4 DEF Kept
  <2>1. CASE m = n
    BY <1>1, <1>2, <1>3, <1>4, <2>1
  <2>2. CASE m # n
    BY <1>1, <1>2, <1>3, <1>4, <2>2 DEF IfaceSafe, Kept
  <2> QED BY <2>1, <2>2
<1>7. CASE UNCHANGED << tcpdump, running, strayed >>
  BY <1>1, <1>2, <1>4, <1>5, <1>6, <1>7 DEF IfaceSafe, Known
<1>8. CASE /\ Len(tcpdump) < MaxCaptures
           /\ tcpdump' = Append(tcpdump, n)
           /\ running' \in {running} \cup {running \cup {n} : m \in {n} \cap DOMAIN net}
           /\ strayed' = strayed
  <2>1. tcpdump' \in Seq(Names) /\ Len(tcpdump') = Len(tcpdump) + 1
    BY <1>2, <1>3, <1>8
  <2>2. Len(tcpdump') =< MaxCaptures
    BY <1>2, <1>8, <2>1, InterfacesAssumption
  <2>3. ToSet(tcpdump) \cup {n} \subseteq ToSet(tcpdump')
    <3>1. \A i \in DOMAIN tcpdump : i \in DOMAIN tcpdump' /\ tcpdump'[i] = tcpdump[i]
      BY <1>2, <1>3, <1>8
    <3>2. Len(tcpdump) + 1 \in DOMAIN tcpdump' /\ tcpdump'[Len(tcpdump) + 1] = n
      BY <1>2, <1>3, <1>8
    <3> QED BY <3>1, <3>2 DEF ToSet
  <2>4. running' \subseteq running \cup {n}
    BY <1>8
  <2>5. Known'
    BY <1>8, <2>3, <2>4 DEF IfaceSafe, Known
  <2> QED BY <1>1, <1>2, <1>3, <1>4, <1>5, <1>6, <1>8, <2>1, <2>2, <2>4, <2>5
<1> QED BY <1>1, <1>7, <1>8

LEMMA TcpdumpInterfaceKeeps ==
  ASSUME IfaceSafe, NEW n \in Names, TcpdumpInterface(n) PROVE IfaceSafe'
<1>1. CASE UNCHANGED << kernelVars, tcpdump, asked, refused, strayed >>
  <2>1. Known' /\ Kept'
    BY <1>1 DEF IfaceSafe, Known, Kept, kernelVars
  <2> QED BY <1>1, <2>1, ReloadKeeps DEF IfaceSafe, IfaceTyped, TcpdumpInterface, kernelVars
<1>2. CASE \E m \in DOMAIN nifs, on \in BOOLEAN : TcpDumpStart(m, on)
  <2>1. /\ net' \in Stores /\ running' \subseteq Names /\ strayed' \subseteq Names
        /\ tcpdump' \in Seq(Names) /\ Len(tcpdump') =< MaxCaptures
        /\ asked' \in [Names -> SUBSET BOOLEAN] /\ refused' \subseteq Names
        /\ Known' /\ Kept'
    BY <1>2, TcpDumpStartFacts
  <2> QED BY <2>1, ReloadKeeps DEF TcpdumpInterface
<1> QED BY <1>1, <1>2 DEF TcpdumpInterface

\* A list without some of its entries has all the others.
LEMMA WithoutFacts ==
  ASSUME NEW s \in Seq(Names), NEW gone, NEW t \in Without(s, gone)
  PROVE  /\ t \in Seq(Names) /\ Len(t) =< Len(s)
         /\ \A i \in DOMAIN s \ gone : s[i] \in ToSet(t)
<1> DEFINE left == DOMAIN s \ gone
           n == Cardinality(left)
<1>1. PICK f \in Bijection(1 .. n, left) : t = [i \in DOMAIN f |-> s[f[i]]]
  BY DEF Without
<1>2. f \in [1 .. n -> left] /\ \A l \in left : \E i \in 1 .. n : f[i] = l
  BY <1>1 DEF Bijection, Surjection
<1>3. DOMAIN s = 1 .. Len(s) /\ Len(s) \in Nat
  OBVIOUS
<1>4. n \in Nat /\ n =< Len(s)
  <2>1. IsFiniteSet(1 .. Len(s)) /\ Cardinality(1 .. Len(s)) = Len(s)
    <3>1. /\ IsFiniteSet(1 .. Len(s))
          /\ Cardinality(1 .. Len(s)) = IF 1 > Len(s) THEN 0 ELSE Len(s) - 1 + 1
      BY <1>3, 1 \in Int, Len(s) \in Int, FS_Interval, ZenonT(20)
    <3> QED BY <1>3, <3>1
  <2>2. left \subseteq 1 .. Len(s)
    BY <1>3
  <2>3. IsFiniteSet(left) /\ Cardinality(left) =< Cardinality(1 .. Len(s))
    BY <2>1, <2>2, FS_Subset
  <2>4. Cardinality(left) \in Nat
    BY <2>3, FS_CardinalityType
  <2> QED BY <2>1, <2>3, <2>4
<1> HIDE DEF n, left
<1>5. \A i \in 1 .. n : s[f[i]] \in Names
  BY <1>2, <1>3 DEF left
<1>6. t = [i \in 1 .. n |-> s[f[i]]]
  BY <1>1, <1>2
<1>7. t \in Seq(Names) /\ Len(t) = n
  BY <1>4, <1>5, <1>6
<1>8. \A i \in left : s[i] \in ToSet(t)
  BY <1>2, <1>6 DEF ToSet
<1> QED BY <1>4, <1>7, <1>8 DEF left
LEMMA StopCaptureKeeps == ASSUME IfaceSafe, StopCapture PROVE IfaceSafe'
<1>1. /\ running \subseteq Names /\ strayed \subseteq Names
      /\ tcpdump \in Seq(Names) /\ Len(tcpdump) =< MaxCaptures
  BY DEF IfaceSafe, IfaceTyped
<1>2. CASE UNCHANGED << tcpdump, running, strayed >>
  <2>1. Known'
    BY <1>2 DEF IfaceSafe, Known
  <2> QED BY <1>1, <1>2, <2>1, NoRedrawKeeps DEF StopCapture
<1>3. ASSUME NEW k \in DOMAIN tcpdump, TcpDumpStop(k)
      PROVE  /\ tcpdump' \in Seq(Names) /\ Len(tcpdump') =< MaxCaptures
             /\ running' \subseteq Names /\ strayed' \subseteq Names
             /\ Known'
  <2> DEFINE n     == tcpdump[k]
             first == CHOOSE i \in DOMAIN tcpdump :
                        tcpdump[i] = n /\ \A j \in DOMAIN tcpdump : tcpdump[j] = n => i =< j
             next  == {i \in DOMAIN tcpdump : i > first /\ (n \in Short \/ tcpdump[i] = n)}
  <2>1. PICK rest \in SUBSET next :
          LET gone == {tcpdump[i] : i \in {first} \cup rest}
          IN  \E killed \in SUBSET gone :
                /\ tcpdump' \in Without(tcpdump, {first} \cup rest)
                /\ running' = running \ UNION {Longer[m] : m \in killed}
                /\ strayed' = strayed \cup ((gone \ killed) \cap running)
    BY <1>3 DEF TcpDumpStop
  <2> DEFINE out  == {first} \cup rest
             gone == {tcpdump[i] : i \in out}
  <2>2. PICK killed \in SUBSET gone :
          /\ tcpdump' \in Without(tcpdump, out)
          /\ running' = running \ UNION {Longer[m] : m \in killed}
          /\ strayed' = strayed \cup ((gone \ killed) \cap running)
    BY <2>1
  <2> HIDE DEF first, next, out
  <2>3. /\ tcpdump' \in Seq(Names) /\ Len(tcpdump') =< Len(tcpdump)
        /\ \A i \in DOMAIN tcpdump \ out : tcpdump[i] \in ToSet(tcpdump')
    BY <1>1, <2>2, WithoutFacts
  <2>4. Len(tcpdump') =< MaxCaptures
    BY <1>1, <2>3, InterfacesAssumption
  <2>5. running' \subseteq running /\ strayed' \subseteq strayed \cup running
    BY <2>2
  <2>6. ASSUME NEW r \in running' PROVE r \in ToSet(tcpdump') \cup strayed'
    <3>1. r \in running /\ r \in ToSet(tcpdump) \cup strayed
      BY <2>5, <2>6 DEF IfaceSafe, Known
    <3>2. CASE r \in strayed
      BY <2>2, <3>2
    <3>3. CASE r \in ToSet(tcpdump)
      <4>1. PICK i \in DOMAIN tcpdump : tcpdump[i] = r
        BY <3>3 DEF ToSet
      <4>2. CASE i \notin out
        BY <2>3, <4>1, <4>2
      <4>3. CASE i \in out
        <5>1. r \in gone
          BY <4>1, <4>3
        <5>2. r \in killed => r \in UNION {Longer[m] : m \in killed}
          BY <1>1, <3>1, InterfacesAssumption
        <5>3. r \notin killed
          BY <2>2, <2>6, <5>2
        <5> HIDE DEF gone
        <5> QED BY <2>2, <3>1, <5>1, <5>3
      <4> QED BY <4>2, <4>3
    <3> QED BY <3>1, <3>2, <3>3
  <2> QED BY <1>1, <2>3, <2>4, <2>5, <2>6 DEF Known
<1>4. CASE \E k \in DOMAIN tcpdump : TcpDumpStop(k)
  BY <1>1, <1>3, <1>4, NoRedrawKeeps DEF StopCapture
<1> QED BY <1>2, <1>4 DEF StopCapture
\* Other programs: the interface they touch is no more what a capture asked for.
LEMMA EventKeeps == ASSUME IfaceSafe, NEW n \in Names, Event(n) PROVE IfaceSafe'
<1>1. /\ net \in Stores /\ running \subseteq Names /\ outer \in BOOLEAN
      /\ asked \in [Names -> SUBSET BOOLEAN]
  BY DEF IfaceSafe, IfaceTyped
<1>2. DOMAIN net \subseteq Names /\ \A m \in DOMAIN net : net[m] \in BOOLEAN
  BY <1>1, StoredNames, SwitchedFlag
<1>3. /\ net' \in Stores /\ running' \subseteq running
      /\ \A m \in DOMAIN net' \ {n} : m \in DOMAIN net /\ net'[m] = net[m]
  <2>1. CASE Appear(n)
    <3> DEFINE S == DOMAIN net \cup {n}
    <3>1. net' \in [S -> BOOLEAN] /\ S \subseteq Names
      BY <1>2, <2>1 DEF Appear
    <3>2. net' \in Stores
      BY <3>1 DEF Stores
    <3> QED BY <2>1, <3>2 DEF Appear
  <2>2. CASE Disappear(n)
    <3>1. net' \in Stores
      BY <1>2, <2>2 DEF Disappear, Restrict, Stores
    <3> QED BY <2>2, <3>1 DEF Disappear, Restrict
  <2>3. CASE Switch(n)
    <3>1. net' = [net EXCEPT ![n] = ~net[n]] /\ n \in DOMAIN net /\ running' = running
      BY <2>3 DEF Switch
    <3>2. (~net[n]) \in BOOLEAN
      OBVIOUS
    <3>3. net' \in Stores
      BY <1>1, <3>1, <3>2, SwitchedStore
    <3> QED BY <3>1, <3>3
  <2>4. CASE EndCapture(n)
    BY <1>1, <2>4 DEF EndCapture
  <2> QED BY <2>1, <2>2, <2>3, <2>4 DEF Event
<1>4. IfaceTyped'
  <2>1. asked' \in [Names -> SUBSET BOOLEAN]
    BY <1>1 DEF Event
  <2>2. outer' \in BOOLEAN
    BY <1>1 DEF Event
  <2> QED BY <1>3, <2>1, <2>2 DEF IfaceSafe, IfaceTyped, Event, panelVars
<1>5. Due' /\ Known'
  BY <1>3 DEF IfaceSafe, Due, Known, Event, panelVars
<1>6. Kept'
  <2>1. CASE net' = net
    BY <2>1 DEF IfaceSafe, Kept, Event
  <2>2. CASE net' # net
    <3>1. asked' = [asked EXCEPT ![n] = {}]
      BY <2>2 DEF Event
    <3>2. \A m \in DOMAIN net' : m # n => asked'[m] = asked[m]
      BY <1>1, <3>1
    <3>3. asked'[n] = {}
      BY <1>1, <3>1
    <3>4. refused' = refused
      BY DEF Event
    <3> SUFFICES ASSUME NEW m \in DOMAIN net'
                 PROVE  asked'[m] \subseteq {net'[m]} \/ m \in refused'
      BY DEF Kept
    <3>5. CASE m = n
      BY <3>3, <3>5
    <3>6. CASE m # n
      <4>1. m \in DOMAIN net /\ net'[m] = net[m]
        BY <1>3, <3>6
      <4>2. asked[m] \subseteq {net[m]} \/ m \in refused
        BY <4>1 DEF IfaceSafe, Kept
      <4> QED BY <3>2, <3>4, <3>6, <4>1, <4>2
    <3> QED BY <3>5, <3>6
  <2> QED BY <2>1, <2>2
<1>7. Follow'
  BY <1>1 DEF IfaceSafe, Follow, Event, panelVars
<1> QED BY <1>4, <1>5, <1>6, <1>7 DEF IfaceSafe

\* A start and an end of the plugin: what runs then counts as strayed.
LEMMA NewPanelKeeps ==
  ASSUME IfaceSafe, NewPanel, UNCHANGED kernelVars PROVE IfaceSafe'
<1>1. net' = net /\ net \in Stores /\ running' = running /\ running \subseteq Names
  BY DEF IfaceSafe, IfaceTyped, kernelVars
<1>2. IfaceTyped'
  <2>1. tcpdump' \in Seq(Names) /\ Len(tcpdump') =< MaxCaptures
    BY InterfacesAssumption DEF NewPanel
  <2>2. asked' \in [Names -> SUBSET BOOLEAN]
    BY DEF NewPanel
  <2> QED BY <1>1, <2>1, <2>2, EmptyStore DEF NewPanel, IfaceTyped
<1>3. Due' /\ Known' /\ Follow'
  BY <1>1, EmptyStore DEF NewPanel, Due, Known, Follow
<1>4. Kept'
  BY <1>1, StoredNames DEF NewPanel, Kept
<1> QED BY <1>2, <1>3, <1>4 DEF IfaceSafe

LEMMA IfaceInitSafe == IfaceInit => IfaceSafe
<1> SUFFICES ASSUME IfaceInit PROVE IfaceSafe
  OBVIOUS
<1>1. net \in Stores
  <2>1. PICK S \in SUBSET Names : net \in [S -> {FALSE}]
    BY DEF IfaceInit
  <2>2. \A n \in S : net[n] = FALSE
    BY <2>1
  <2>3. net \in [S -> BOOLEAN]
    BY <2>1, <2>2
  <2> QED BY <2>3 DEF Stores
<1>2. tcpdump \in Seq(Names) /\ Len(tcpdump) =< MaxCaptures
  BY InterfacesAssumption DEF IfaceInit
<1>3. IfaceTyped
  BY <1>1, <1>2, EmptyStore DEF IfaceInit, IfaceTyped
<1>4. Due /\ Known /\ Follow
  BY EmptyStore DEF IfaceInit, Due, Known, Follow
<1>5. Kept
  BY <1>1, StoredNames DEF IfaceInit, Kept
<1> QED BY <1>3, <1>4, <1>5 DEF IfaceSafe

LEMMA IfaceSame == ASSUME IfaceSafe, UNCHANGED ifaceVars PROVE IfaceSafe'
BY DEF IfaceSafe, IfaceTyped, Due, Known, Kept, Follow, ifaceVars, kernelVars, panelVars, history

\* Every step keeps the part about the panel of interfaces.
LEMMA IfaceStep == ASSUME IfaceSafe, [Next]_vars PROVE IfaceSafe'
<1>1. CASE SetStartupInfoW
  BY <1>1, NewPanelKeeps DEF SetStartupInfoW
<1>2. CASE ExitFARW
  BY <1>2, NewPanelKeeps DEF ExitFARW, kernelVars
<1>3. CASE ClosePlugin
  BY <1>3, IfaceSame DEF ClosePlugin
<1>4. ASSUME NEW m \in Menus, NEW item \in {0, 1}, OpenPlugin(m, item) PROVE IfaceSafe'
  <2>1. CASE UNCHANGED ifaceVars
    BY <2>1, IfaceSame
  <2>2. CASE /\ UNCHANGED << kernelVars, tcpdump, asked, refused, strayed >>
             /\ GetFindData(change, behind, outer)
    <3>1. Known' /\ Kept'
      BY <2>2 DEF IfaceSafe, Known, Kept, kernelVars
    <3>2. change \in BOOLEAN /\ behind \in BOOLEAN
      BY DEF IfaceSafe, IfaceTyped
    <3> QED BY <2>2, <3>1, <3>2, ReloadKeeps DEF IfaceSafe, IfaceTyped, kernelVars
  <2> QED BY <1>4, <2>1, <2>2 DEF OpenPlugin
<1>5. ASSUME NEW boxes, NEW text, NEW save, ConfigureW(boxes, text, save) PROVE IfaceSafe'
  BY <1>5, IfaceSame DEF ConfigureW
<1>6. CASE IfaceKey
  BY <1>6, RereadKeeps, EditInterfaceKeeps, TcpdumpInterfaceKeeps, StopCaptureKeeps DEF IfaceKey
<1>7. ASSUME NEW i \in 1 .. 5, SelectActivePanel(i) PROVE IfaceSafe'
  BY <1>7, IfaceSame DEF SelectActivePanel
<1>8. CASE Outside
  BY <1>8, EventKeeps DEF Outside
<1>9. CASE UNCHANGED vars
  BY <1>9, IfaceSame DEF vars
<1> QED BY <1>1, <1>2, <1>3, <1>4, <1>5, <1>6, <1>7, <1>8, <1>9 DEF Next
-----------------------------------------------------------------------------
(***************************************************************************)
(* The settings.                                                           *)
(***************************************************************************)

LEMMA SettingsFields ==
  \A s \in Settings : /\ s.menu \in [Menus -> SUBSET Panels] /\ s.multicast \in SUBSET Multicast
                      /\ s.logEnable \in BOOLEAN /\ s.logfile \in LogFiles
BY DEF Settings

LEMMA ReadFacts ==
  ASSUME NEW saved \in Settings \cup {None}
  PROVE  /\ Read(saved) \in Settings
         /\ Read(saved).logEnable \/ Read(saved).logfile = "/dev/null"
         /\ saved # None =>
              /\ Read(saved).menu = saved.menu /\ Read(saved).multicast = saved.multicast
              /\ Read(saved).logEnable = saved.logEnable
              /\ saved.logEnable => Read(saved).logfile = saved.logfile
<1> DEFINE s == IF saved = None THEN Defaults ELSE saved
<1>1. Defaults \in Settings
  BY DEF Defaults, Settings, LogFiles
<1>2. s \in Settings
  BY <1>1
<1>3. Read(saved) = IF s.logEnable THEN s ELSE [s EXCEPT !.logfile = "/dev/null"]
  BY DEF Read
<1> HIDE DEF s
<1>4. CASE s.logEnable
  <2>1. Read(saved) = s
    BY <1>3, <1>4
  <2> QED BY <1>2, <1>4, <2>1 DEF s
<1>5. CASE ~s.logEnable
  <2>1. Read(saved) = [s EXCEPT !.logfile = "/dev/null"]
    BY <1>3, <1>5
  <2>2. Read(saved) \in Settings
    BY <1>2, <2>1 DEF Settings, LogFiles
  <2>3. /\ Read(saved).logfile = "/dev/null" /\ Read(saved).menu = s.menu
        /\ Read(saved).multicast = s.multicast /\ Read(saved).logEnable = s.logEnable
    BY <1>2, <2>1 DEF Settings
  <2> QED BY <1>5, <2>2, <2>3 DEF s
<1> QED BY <1>4, <1>5

LEMMA FormType ==
  ASSUME NEW s \in Settings, NEW boxes \in SUBSET Boxes, NEW text \in LogFiles
  PROVE  Form(s, boxes, text) \in Settings /\ Form(s, boxes, text).logfile = text
<1>1. ASSUME NEW m \in Menus PROVE Toggled(s.menu[m], boxes, m) \subseteq Panels
  <2>1. ASSUME NEW x \in Multicast PROVE x \notin s.menu[m] /\ << m, x >> \notin Boxes
    BY SettingsFields DEF Boxes, Menus, Multicast, Panels
  <2> QED BY <2>1 DEF Toggled
<1>2. Toggled(s.multicast, boxes, "multicast") \subseteq Multicast
  <2>1. ASSUME NEW x \in Panels PROVE x \notin s.multicast /\ << "multicast", x >> \notin Boxes
    BY SettingsFields DEF Boxes, Menus, Multicast, Panels
  <2> QED BY <2>1 DEF Toggled
<1>3. [m \in Menus |-> Toggled(s.menu[m], boxes, m)] \in [Menus -> SUBSET Panels]
  BY <1>1
<1>4. (s.logEnable # (<< "log", "enable" >> \in boxes)) \in BOOLEAN
  OBVIOUS
<1> DEFINE menu == [m \in Menus |-> Toggled(s.menu[m], boxes, m)]
           multicast == Toggled(s.multicast, boxes, "multicast")
           log == s.logEnable # (<< "log", "enable" >> \in boxes)
<1>5. Form(s, boxes, text) =
        [menu |-> menu, multicast |-> multicast, logEnable |-> log, logfile |-> text]
  BY DEF Form
<1> HIDE DEF menu, multicast, log
<1>6. menu \in [Menus -> SUBSET Panels] /\ multicast \in SUBSET Multicast /\ log \in BOOLEAN
  BY <1>2, <1>3, <1>4 DEF menu, multicast, log
<1> QED BY <1>5, <1>6 DEF Settings

\* OK in the dialog: all boxes are taken over, and the text of the log file if
\* logging is on.
LEMMA AppliedFacts ==
  ASSUME NEW s \in Settings, NEW form \in Settings
  PROVE  /\ Applied(s, form) \in Settings
         /\ Applied(s, form).menu = form.menu /\ Applied(s, form).multicast = form.multicast
         /\ Applied(s, form).logEnable = form.logEnable
         /\ form.logEnable => Applied(s, form).logfile = form.logfile
         /\ ~form.logEnable /\ form.logfile = s.logfile =>
              Applied(s, form).logfile \in {s.logfile, "/dev/null"}
         /\ ~form.logEnable /\ form.logfile = s.logfile /\ s.logEnable =>
              Applied(s, form).logfile = "/dev/null"
<1> DEFINE file == IF form.logfile # s.logfile THEN form.logfile
                   ELSE IF s.logEnable /\ ~form.logEnable THEN "/dev/null" ELSE s.logfile
<1>1. Applied(s, form) = [form EXCEPT !.logfile = file]
  BY DEF Applied
<1>2. file \in LogFiles
  BY SettingsFields DEF LogFiles
<1>3. /\ form.logEnable => file = form.logfile
      /\ ~form.logEnable /\ form.logfile = s.logfile => file \in {s.logfile, "/dev/null"}
      /\ ~form.logEnable /\ form.logfile = s.logfile /\ s.logEnable => file = "/dev/null"
  OBVIOUS
<1> HIDE DEF file
<1>4. Applied(s, form) \in Settings
  BY <1>1, <1>2 DEF Settings
<1>5. /\ Applied(s, form).logfile = file /\ Applied(s, form).menu = form.menu
      /\ Applied(s, form).multicast = form.multicast
      /\ Applied(s, form).logEnable = form.logEnable
  BY <1>1 DEF Settings
<1> QED BY <1>3, <1>4, <1>5

LEMMA ReadSettingsKeeps == ASSUME CfgSafe, ReadSettings PROVE CfgSafe' /\ cfg' \in Settings
<1>1. ini \in Settings \cup {None} /\ kept \in Settings \cup {None}
  BY DEF CfgSafe, CfgTyped
<1>2. cfg' = Read(ini) /\ fresh' = TRUE /\ typedOff' = FALSE /\ ini' = ini /\ kept' = kept
  BY DEF ReadSettings
<1>3. /\ Read(ini) \in Settings
      /\ Read(ini).logEnable \/ Read(ini).logfile = "/dev/null"
      /\ ini # None =>
           /\ Read(ini).menu = ini.menu /\ Read(ini).multicast = ini.multicast
           /\ Read(ini).logEnable = ini.logEnable
           /\ ini.logEnable => Read(ini).logfile = ini.logfile
  BY <1>1, ReadFacts
<1>4. CfgTyped' /\ Saved'
  BY <1>1, <1>2, <1>3 DEF CfgSafe, CfgTyped, Saved
<1>5. SettingsHold'
  BY <1>2, <1>3 DEF CfgSafe, Saved, SettingsHold
<1> QED BY <1>2, <1>3, <1>4, <1>5 DEF CfgSafe

LEMMA ConfigureKeeps ==
  ASSUME CfgSafe, cfg # None, NEW form \in Settings, NEW save \in BOOLEAN,
         Configure(form, save)
  PROVE  CfgSafe' /\ cfg' \in Settings
<1>1. /\ cfg \in Settings /\ ini \in Settings \cup {None} /\ kept \in Settings \cup {None}
      /\ typedOff \in BOOLEAN
  BY DEF CfgSafe, CfgTyped
<1>2. /\ cfg' = Applied(cfg, form) /\ fresh' = FALSE
      /\ ini' = (IF save THEN cfg' ELSE ini) /\ kept' = (IF save THEN form ELSE kept)
      /\ typedOff' = (~form.logEnable /\ (typedOff \/ form.logfile # cfg.logfile))
  BY DEF Configure, SaveConfig
<1>3. cfg' \in Settings
  BY <1>1, <1>2, AppliedFacts
<1>4. CfgTyped'
  BY <1>1, <1>2, <1>3 DEF CfgTyped
<1>5. Saved'
  <2>1. CASE save
    <3>1. cfg' # None
      BY <1>3, NoneAssumption
    <3> QED BY <1>1, <1>2, <2>1, <3>1, AppliedFacts DEF Saved
  <2>2. CASE ~save
    BY <1>2, <2>2 DEF CfgSafe, Saved
  <2> QED BY <2>1, <2>2
<1>6. cfg'.logEnable \/ cfg'.logfile = "/dev/null" \/ typedOff'
  <2>1. CASE form.logEnable
    BY <1>1, <1>2, <2>1, AppliedFacts
  <2>2. CASE ~form.logEnable /\ form.logfile # cfg.logfile
    BY <1>2, <2>2
  <2>3. CASE ~form.logEnable /\ form.logfile = cfg.logfile /\ cfg.logEnable
    BY <1>1, <1>2, <2>3, AppliedFacts
  <2>4. CASE ~form.logEnable /\ form.logfile = cfg.logfile /\ ~cfg.logEnable
    <3>1. cfg'.logfile \in {cfg.logfile, "/dev/null"}
      BY <1>1, <1>2, <2>4, AppliedFacts
    <3>2. cfg.logfile = "/dev/null" \/ typedOff
      BY <2>4 DEF CfgSafe, SettingsHold
    <3> QED BY <1>2, <2>4, <3>1, <3>2
  <2> QED BY <2>1, <2>2, <2>3, <2>4
<1> QED BY <1>2, <1>3, <1>4, <1>5, <1>6 DEF CfgSafe, SettingsHold

LEMMA CfgInitSafe == CfgInit => CfgSafe
<1> SUFFICES ASSUME CfgInit PROVE CfgSafe
  OBVIOUS
<1>1. Defaults \in Settings /\ [Defaults EXCEPT !.multicast = {}] \in Settings
  BY DEF Defaults, Settings, LogFiles
<1> QED BY <1>1 DEF CfgInit, CfgSafe, CfgTyped, Saved, SettingsHold
LEMMA CfgSame == ASSUME CfgSafe, UNCHANGED cfgVars PROVE CfgSafe'
BY DEF CfgSafe, CfgTyped, Saved, SettingsHold, cfgVars

\* Every step keeps the part about the settings.
LEMMA CfgStep == ASSUME CfgSafe, [Next]_vars PROVE CfgSafe'
<1>1. CASE SetStartupInfoW
  BY <1>1, ReadSettingsKeeps DEF SetStartupInfoW
<1>2. CASE ExitFARW
  BY <1>2 DEF ExitFARW, DropSettings, CfgSafe, CfgTyped, Saved, SettingsHold
<1>3. CASE ClosePlugin
  BY <1>3, CfgSame DEF ClosePlugin
<1>4. ASSUME NEW m \in Menus, NEW item \in {0, 1}, OpenPlugin(m, item) PROVE CfgSafe'
  BY <1>4, CfgSame DEF OpenPlugin
<1>5. ASSUME NEW boxes \in SUBSET Boxes, NEW text \in LogFiles, NEW save \in BOOLEAN,
             ConfigureW(boxes, text, save)
      PROVE  CfgSafe'
  <2>1. cfg \in Settings /\ cfg # None
    BY <1>5 DEF CfgSafe, CfgTyped, ConfigureW
  <2>2. Form(cfg, boxes, text) \in Settings
    BY <2>1, FormType
  <2> QED BY <1>5, <2>1, <2>2, ConfigureKeeps DEF ConfigureW
<1>6. CASE IfaceKey
  BY <1>6, CfgSame DEF IfaceKey
<1>7. ASSUME NEW i \in 1 .. 5, SelectActivePanel(i) PROVE CfgSafe'
  BY <1>7, CfgSame DEF SelectActivePanel
<1>8. CASE Outside
  BY <1>8, CfgSame DEF Outside
<1>9. CASE UNCHANGED vars
  BY <1>9, CfgSame DEF vars
<1> QED BY <1>1, <1>2, <1>3, <1>4, <1>5, <1>6, <1>7, <1>8, <1>9 DEF Next

-----------------------------------------------------------------------------
(***************************************************************************)
(* The menus.                                                              *)
(***************************************************************************)

\* Whichever panels a menu offers, an entry opens the panel it is called by.
LEMMA OpenedNamed ==
  ASSUME NEW s \in Settings, NEW m \in Menus, NEW item \in {0, 1},
         item < Len(MenuStrings(s, m))
  PROVE  /\ Opened(s, m, item) \in Panels
         /\ Opened(s, m, item) = MenuStrings(s, m)[item + 1]
<1> DEFINE both == {"ifaces", "routes"}
<1>0. both # {"ifaces"} /\ both # {"routes"} /\ {"ifaces"} # {"routes"} /\ Panels = both
  <2>1. "routes" \in both /\ "routes" \notin {"ifaces"} /\ "ifaces" \in both
          /\ "ifaces" \notin {"routes"} /\ "ifaces" \in {"ifaces"}
    OBVIOUS
  <2>2. Panels = both
    BY DEF Panels
  <2> HIDE DEF both
  <2> QED BY <2>1, <2>2, Zenon
<1> HIDE DEF both
<1>2. CASE s.menu[m] = both
  <2>1. MenuStrings(s, m) = << "ifaces", "routes" >>
    BY <1>0, <1>2 DEF MenuStrings
  <2>2. Opened(s, m, item) = IF item = 1 THEN "routes" ELSE "ifaces"
    BY <1>0, <1>2 DEF Opened
  <2> QED BY <2>1, <2>2 DEF Panels
<1>3. CASE s.menu[m] = {"ifaces"}
  <2>1. MenuStrings(s, m) = << "ifaces" >>
    BY <1>0, <1>3 DEF MenuStrings
  <2>2. item = 0
    BY <2>1
  <2>3. Opened(s, m, item) = "ifaces"
    BY <1>0, <1>3, <2>2 DEF Opened
  <2> QED BY <2>1, <2>2, <2>3 DEF Panels
<1>4. CASE s.menu[m] = {"routes"}
  <2>1. MenuStrings(s, m) = << "routes" >>
    BY <1>0, <1>4 DEF MenuStrings
  <2>2. item = 0
    BY <2>1
  <2>3. Opened(s, m, item) = "routes"
    BY <1>4 DEF Opened
  <2> QED BY <2>1, <2>2, <2>3 DEF Panels
<1>5. CASE s.menu[m] \notin {both, {"ifaces"}, {"routes"}}
  <2>1. MenuStrings(s, m) = << >>
    BY <1>0, <1>5 DEF MenuStrings
  <2> QED BY <2>1
<1> QED BY <1>2, <1>3, <1>4, <1>5

\* The first three sub-panels are always the same, any other is a multicast one.
LEMMA SubPanelsFacts ==
  ASSUME NEW s \in Settings
  PROVE  /\ Len(SubPanels(s)) \in Nat /\ DOMAIN SubPanels(s) = 1 .. Len(SubPanels(s))
         /\ Len(SubPanels(s)) >= 3
         /\ SubPanels(s)[1] = "inet" /\ SubPanels(s)[2] = "inet6" /\ SubPanels(s)[3] = "arp"
         /\ \A i \in DOMAIN SubPanels(s) : i > 3 => SubPanels(s)[i] \in Multicast
<1> DEFINE base == << "inet", "inet6", "arp" >>
           four == IF "mcinet" \in s.multicast THEN << "mcinet" >> ELSE << >>
           six  == IF "mcinet6" \in s.multicast THEN << "mcinet6" >> ELSE << >>
           Titles  == {"inet", "inet6", "arp", "mcinet", "mcinet6"}
<1>1. base \in Seq(Titles) /\ Len(base) = 3 /\ base[1] = "inet" /\ base[2] = "inet6"
        /\ base[3] = "arp"
  OBVIOUS
<1>2. four \in Seq(Titles) /\ \A i \in 1 .. Len(four) : four[i] \in Multicast
  <2>1. CASE "mcinet" \in s.multicast
    <3>1. four = << "mcinet" >>
      BY <2>1
    <3> HIDE DEF four
    <3> QED BY <3>1 DEF Multicast
  <2>2. CASE "mcinet" \notin s.multicast
    <3>1. four = << >>
      BY <2>2
    <3> HIDE DEF four
    <3>2. << >> \in Seq(Titles) /\ Len(<< >>) = 0
      OBVIOUS
    <3> QED BY <3>1, <3>2
  <2> QED BY <2>1, <2>2
<1>3. six \in Seq(Titles) /\ \A i \in 1 .. Len(six) : six[i] \in Multicast
  <2>1. CASE "mcinet6" \in s.multicast
    <3>1. six = << "mcinet6" >>
      BY <2>1
    <3> HIDE DEF six
    <3> QED BY <3>1 DEF Multicast
  <2>2. CASE "mcinet6" \notin s.multicast
    <3>1. six = << >>
      BY <2>2
    <3> HIDE DEF six
    <3>2. << >> \in Seq(Titles) /\ Len(<< >>) = 0
      OBVIOUS
    <3> QED BY <3>1, <3>2
  <2> QED BY <2>1, <2>2
<1>4. SubPanels(s) = base \o four \o six
  BY DEF SubPanels
<1> HIDE DEF base, four, six, Titles
<1>5. base \o four \in Seq(Titles) /\ Len(base \o four) = 3 + Len(four)
        /\ \A i \in 1 .. 3 + Len(four) :
             (base \o four)[i] = IF i =< 3 THEN base[i] ELSE four[i - 3]
  <2>1. /\ base \o four \in Seq(Titles) /\ Len(base \o four) = Len(base) + Len(four)
        /\ \A i \in 1 .. Len(base) + Len(four) :
             (base \o four)[i] = IF i <= Len(base) THEN base[i] ELSE four[i - Len(base)]
    BY <1>1, <1>2, ConcatProperties, Zenon
  <2> QED BY <1>1, <2>1
<1>6. base \o four \o six \in Seq(Titles) /\ Len(base \o four \o six) = 3 + Len(four) + Len(six)
        /\ \A i \in 1 .. 3 + Len(four) + Len(six) :
             (base \o four \o six)[i] = IF i =< 3 + Len(four) THEN (base \o four)[i]
                                        ELSE six[i - (3 + Len(four))]
  <2> DEFINE front == base \o four
  <2>1. front \in Seq(Titles) /\ Len(front) = 3 + Len(four)
    BY <1>5
  <2> HIDE DEF front
  <2>2. /\ front \o six \in Seq(Titles) /\ Len(front \o six) = Len(front) + Len(six)
        /\ \A i \in 1 .. Len(front) + Len(six) :
             (front \o six)[i] = IF i <= Len(front) THEN front[i] ELSE six[i - Len(front)]
    BY <1>3, <2>1, ConcatProperties, ZenonT(60)
  <2>3. /\ front \o six \in Seq(Titles) /\ Len(front \o six) = 3 + Len(four) + Len(six)
        /\ \A i \in 1 .. 3 + Len(four) + Len(six) :
             (front \o six)[i] = IF i <= 3 + Len(four) THEN front[i]
                                 ELSE six[i - (3 + Len(four))]
    BY <2>1, <2>2, Zenon
  <2> QED BY <2>3 DEF front
<1>7. Len(four) \in Nat /\ Len(six) \in Nat
  BY <1>2, <1>3
<1>8. ASSUME NEW i \in DOMAIN SubPanels(s), i > 3 PROVE SubPanels(s)[i] \in Multicast
  <2>1. i \in 1 .. 3 + Len(four) + Len(six)
    BY <1>4, <1>6
  <2>2. CASE i =< 3 + Len(four)
    BY <1>2, <1>4, <1>5, <1>6, <1>7, <1>8, <2>1, <2>2
  <2>3. CASE i > 3 + Len(four)
    BY <1>3, <1>4, <1>6, <1>7, <2>1, <2>3
  <2> QED BY <1>7, <2>1, <2>2, <2>3
<1> QED BY <1>1, <1>4, <1>5, <1>6, <1>7, <1>8

LEMMA MenuSame ==
  ASSUME MenuSafe, UNCHANGED << cfg, fresh >>, UNCHANGED pluginVars PROVE MenuSafe'
BY DEF MenuSafe, ViewTyped, PickedTyped, Built, OpensNamed, pluginVars

\* Every step keeps the part about the menus.
LEMMA MenuStep == ASSUME MenuSafe, CfgSafe, CfgSafe', [Next]_vars PROVE MenuSafe'
<1>1. CASE SetStartupInfoW
  <2>1. cfg' \in Settings
    BY <1>1, ReadSettingsKeeps DEF SetStartupInfoW
  <2>2. /\ panels' = SubPanels(cfg') /\ active' = 1 /\ view' = None
        /\ picked' = [menu |-> None, sub |-> "inet"]
    BY <1>1 DEF SetStartupInfoW
  <2>3. panels'[active'] = picked'.sub
    BY <2>1, <2>2, SubPanelsFacts
  <2> QED BY <2>1, <2>2, <2>3 DEF MenuSafe, ViewTyped, PickedTyped, Built, OpensNamed
<1>2. CASE ExitFARW
  BY <1>2 DEF ExitFARW, DropSettings, MenuSafe, ViewTyped, PickedTyped, Built, OpensNamed
<1>3. CASE ClosePlugin
  BY <1>3 DEF ClosePlugin, cfgVars, MenuSafe, ViewTyped, PickedTyped, Built, OpensNamed
<1>4. ASSUME NEW m \in Menus, NEW item \in {0, 1}, OpenPlugin(m, item) PROVE MenuSafe'
  <2>1. cfg \in Settings /\ cfg # None
    BY <1>4 DEF CfgSafe, CfgTyped, OpenPlugin
  <2>2. Opened(cfg, m, item) \in Panels /\ Opened(cfg, m, item) = MenuStrings(cfg, m)[item + 1]
    BY <1>4, <2>1, OpenedNamed DEF OpenPlugin
  <2>3. /\ view' = Opened(cfg, m, item)
        /\ picked' = [picked EXCEPT !.menu = MenuStrings(cfg, m)[item + 1]]
        /\ UNCHANGED << cfg, fresh, panels, active >>
    BY <1>4 DEF OpenPlugin, cfgVars
  <2>4. ViewTyped' /\ Built'
    BY <2>1, <2>2, <2>3 DEF MenuSafe, ViewTyped, PickedTyped, Built
  <2>5. picked'.menu = MenuStrings(cfg, m)[item + 1] /\ picked'.sub = picked.sub
    BY <2>3 DEF MenuSafe, ViewTyped, PickedTyped
  <2> QED BY <2>2, <2>3, <2>4, <2>5 DEF MenuSafe, OpensNamed
<1>5. ASSUME NEW boxes \in SUBSET Boxes, NEW text \in LogFiles, NEW save \in BOOLEAN,
             ConfigureW(boxes, text, save)
      PROVE  MenuSafe'
  <2>1. fresh' = FALSE /\ UNCHANGED << view, panels, active, picked >> /\ cfg # None
    BY <1>5 DEF ConfigureW, Configure, pluginVars
  <2>2. cfg' # None
    <3>1. cfg \in Settings
      BY <2>1 DEF CfgSafe, CfgTyped
    <3>2. Form(cfg, boxes, text) \in Settings
      BY <3>1, FormType
    <3>3. cfg' \in Settings
      BY <1>5, <2>1, <3>2, ConfigureKeeps DEF ConfigureW
    <3> QED BY <3>3, NoneAssumption
  <2> QED BY <2>1, <2>2 DEF MenuSafe, ViewTyped, PickedTyped, Built, OpensNamed
<1>6. CASE IfaceKey
  BY <1>6, MenuSame DEF IfaceKey, cfgVars
<1>7. ASSUME NEW i \in 1 .. 5, SelectActivePanel(i) PROVE MenuSafe'
  <2>1. /\ cfg # None /\ i \in DOMAIN SubPanels(cfg) /\ i \in DOMAIN panels
        /\ active' = i /\ picked' = [picked EXCEPT !.sub = SubPanels(cfg)[i]]
        /\ UNCHANGED << cfg, fresh, view, panels >>
    BY <1>7 DEF SelectActivePanel, cfgVars
  <2>2. cfg \in Settings
    BY <2>1 DEF CfgSafe, CfgTyped
  <2>3. picked'.sub = SubPanels(cfg)[i] /\ picked'.menu = picked.menu
    BY <2>1 DEF MenuSafe, ViewTyped, PickedTyped
  <2>4. PICK s \in Settings : panels = SubPanels(s)
    BY <2>1 DEF MenuSafe, Built
  <2>5. \/ panels[i] = SubPanels(cfg)[i]
        \/ ~fresh /\ {panels[i], SubPanels(cfg)[i]} \subseteq Multicast
    <3>1. CASE fresh
      BY <2>1, <3>1 DEF MenuSafe, Built
    <3>2. CASE ~fresh /\ i \in {1, 2, 3}
      BY <2>2, <2>4, <3>2, SubPanelsFacts
    <3>3. CASE ~fresh /\ i > 3
      BY <2>1, <2>2, <2>4, <3>3, SubPanelsFacts
    <3> QED BY <3>1, <3>2, <3>3
  <2>6. ViewTyped' /\ Built'
    BY <2>1 DEF MenuSafe, ViewTyped, PickedTyped, Built
  <2> QED BY <2>1, <2>3, <2>5, <2>6 DEF MenuSafe, OpensNamed
<1>8. CASE Outside
  BY <1>8, MenuSame DEF Outside, cfgVars
<1>9. CASE UNCHANGED vars
  BY <1>9, MenuSame DEF vars, cfgVars
<1> QED BY <1>1, <1>2, <1>3, <1>4, <1>5, <1>6, <1>7, <1>8, <1>9 DEF Next

-----------------------------------------------------------------------------
(***************************************************************************)
(* The theorems.                                                           *)
(***************************************************************************)

\* Every behaviour keeps the three parts of the invariant.
LEMMA PluginSafe == Spec => [](IfaceSafe /\ CfgSafe /\ MenuSafe)
<1>1. Init => IfaceSafe /\ CfgSafe /\ MenuSafe
  <2> SUFFICES ASSUME Init PROVE IfaceSafe /\ CfgSafe /\ MenuSafe
    OBVIOUS
  <2>1. IfaceSafe /\ CfgSafe
    BY IfaceInitSafe, CfgInitSafe DEF Init
  <2>2. MenuSafe
    BY DEF Init, CfgInit, MenuSafe, ViewTyped, PickedTyped, Built, OpensNamed
  <2> QED BY <2>1, <2>2
<1>2. IfaceSafe /\ CfgSafe /\ MenuSafe /\ [Next]_vars => (IfaceSafe /\ CfgSafe /\ MenuSafe)'
  BY IfaceStep, CfgStep, MenuStep
<1> QED BY <1>1, <1>2, PTL DEF Spec
\* The state of the plugin is well typed, for any interfaces and bounds.
THEOREM PluginTypeCorrect == Spec => []TypeOK
<1>1. IfaceSafe /\ CfgSafe /\ MenuSafe => TypeOK
  BY DEF IfaceSafe, IfaceTyped, CfgSafe, CfgTyped, MenuSafe, ViewTyped, TypeOK
<1> QED BY <1>1, PluginSafe, PTL

\* A panel of interfaces that is behind reloads, unless F6, or F4 without a result,
\* took the reload back.
THEOREM ReloadAlwaysDue == Spec => []ReloadStaysDue
<1>1. IfaceSafe => ReloadStaysDue
  BY DEF IfaceSafe, Due, ReloadStaysDue
<1> QED BY <1>1, PluginSafe, PTL

\* However long the list of captures: what runs is in it or has strayed; an
\* interface is as promiscuous as its last capture asked for, but for others and for
\* a command that failed unheard; and the panel shows the flags there are.
THEOREM CapturesAlwaysKnown == Spec => []CapturesKnown
<1>1. IfaceSafe => CapturesKnown
  BY DEF IfaceSafe, Known, Kept, Follow, PartOf, CapturesKnown
<1> QED BY <1>1, PluginSafe, PTL

\* What was saved in the dialog is what the next life of the plugin starts with.
THEOREM SettingsAlwaysHold == Spec => []SettingsHold
<1>1. CfgSafe => SettingsHold
  BY DEF CfgSafe
<1> QED BY <1>1, PluginSafe, PTL

\* Menus open what they name, in any order of settings dialogs and openings.
THEOREM MenusOpenNamed == Spec => []OpensNamed
<1>1. MenuSafe => OpensNamed
  BY DEF MenuSafe
<1> QED BY <1>1, PluginSafe, PTL
=============================================================================
