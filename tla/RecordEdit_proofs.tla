--------------------------- MODULE RecordEdit_proofs ---------------------------
(***************************************************************************)
(* The dialogs of records for every value of the constants: what is in the *)
(* working copy and in new_nh beside what is shown (IInv), and from it the *)
(* properties of RecordEdit about what OK and Cancel leave.                *)
(***************************************************************************)
EXTENDS RecordEdit, FiniteSetTheorems, TLAPS

-----------------------------------------------------------------------------
(***************************************************************************)
(* The invariant.  First a route in its dialog, section by section.        *)
(***************************************************************************)

Attributes == Value \cup {0, 1, 2, Unset} \cup Route!Encs
RouteSecs  == [DOMAIN Route!Main -> Attributes] \cup [DOMAIN Route!Hop -> Attributes]

MainTyped(sec) ==
  /\ sec \in [DOMAIN Route!Main -> Attributes]
  /\ \A f \in Route!MainWidgets : sec[f] \in Values(f)
  /\ sec.rtvia \in Value /\ sec.nhid \in Value /\ sec.enc \in Route!Encs

HopTyped(sec) ==
  /\ sec \in [DOMAIN Route!Hop -> Attributes]
  /\ \A f \in Route!HopWidgets \ {"family"} : sec[f] \in Values(f)
  /\ sec.family \in Values("family") \cup {Unset}
  /\ sec.rtvia \in Value /\ sec.enc \in Route!Encs

Drawn(widgets, form) ==
  DOMAIN form = widgets /\ \A f \in widgets : form[f] \in Values(f)

\* The menus of a section that were left with Esc.
EscOf(left, menus, s) == {f \in menus : << s, f >> \in left}

Esc(left, s) == EscOf(left, Route!MainWidgets \cup Route!HopWidgets, s)

\* The route itself: texts and boxes are as they were first shown, what was
\* chosen is what the buttons say.
MainOk(sec, form, shown, esc) ==
  /\ MainTyped(sec)
  /\ Drawn(Route!MainWidgets, form) /\ Drawn(Route!MainWidgets, shown)
  /\ shown.gateway = Route!Via(sec)
  /\ \A f \in ((Route!MainWidgets \ Route!MainMenus) \ {"gateway"}) \cup {"dev"} :
       shown[f] = sec[f]
  /\ \A f \in Route!MainMenus \ {"dev"} :
       sec[f] = form[f] \/ f \in esc \cap {"family", "scope"}

\* A hop of the route; the encapsulation's bit follows SelectEncap.
HopOk(sec, form, shown, esc) ==
  /\ HopTyped(sec)
  /\ Drawn(Route!HopWidgets, form) /\ Drawn(Route!HopWidgets, shown)
  /\ sec.nexthop = 1 /\ shown.nexthop = 1
  /\ shown.gateway = Route!Via(sec) /\ shown.weight = sec.weight
  /\ shown.onlink = sec.onlink
  /\ sec.encap = IF sec.enc.type = "none" THEN 0 ELSE 1
  /\ sec.dev = form.dev \/ "dev" \in esc
  /\ sec.family = form.family \/ form.family = 0 \/ "family" \in esc

\* The hop that may be added.
NewOk(sec, form, shown, esc, held) ==
  /\ HopTyped(sec)
  /\ Drawn(Route!HopWidgets, form) /\ shown = [f \in Route!HopWidgets |-> 0]
  /\ sec.nexthop = held.nexthop /\ sec.rtvia = held.rtvia
  /\ sec.gateway = held.gateway /\ sec.weight = held.weight
  /\ sec.onlink = held.onlink
  /\ \/ sec.encap = held.encap
     \/ sec.encap = IF sec.enc.type = "none" THEN 0 ELSE 1
  /\ sec.dev = form.dev \/ "dev" \in esc \/ (form.dev = 0 /\ held.dev # 0)
  /\ sec.family = form.family \/ form.family = 0 \/ "family" \in esc

SecOk(s, n, sec, form, shown, esc, held) ==
  /\ s = 1 => MainOk(sec, form, shown, esc)
  /\ s \in 2 .. n => HopOk(sec, form, shown, esc)
  /\ s = n + 1 => NewOk(sec, form, shown, esc, held)

RouteDlg(d, hop) ==
  /\ d.work \in Seq(RouteSecs) /\ Len(d.work) > 0
  /\ DOMAIN d.form = 1 .. Len(d.work) + 1 /\ DOMAIN d.shown = DOMAIN d.form
  /\ \A s \in 1 .. Len(d.work) + 1 :
       SecOk(s, Len(d.work), IF s =< Len(d.work) THEN d.work[s] ELSE hop,
             d.form[s], d.shown[s], Esc(d.left, s), d.held)

\* The one section of a rule, and of a neighbour: texts are as they were first
\* shown, what was chosen is what the buttons say.
RuleSec(sec, form, shown, esc) ==
  /\ DOMAIN sec = Rule!Widgets \cup {"action"}
  /\ \A f \in Rule!Widgets :
       sec[f] \in Values(f) \cup IF f \in Rule!Ends \cup {"fwmark"} THEN {Unset} ELSE {}
  /\ sec.action \in Rule!Actions \cup {Unset} /\ (sec.action = "goto" => sec.goto # 0)
  /\ Drawn(Rule!Widgets, form) /\ Drawn(Rule!Widgets, shown)
  /\ \A f \in Rule!Widgets \ Rule!Menus : shown[f] = Rule!ShownIn(sec, f)
  /\ \A f \in Rule!Menus : sec[f] = form[f] \/ f \in esc \cap {"iif", "oif", "ipproto", "proto"}

NeighSec(sec, form, shown, esc) ==
  /\ Drawn(Neigh!Widgets, sec) /\ Drawn(Neigh!Widgets, form)
  /\ shown.use = IF sec.managed = 1 THEN 0 ELSE sec.use
  /\ \A f \in Neigh!Widgets \ (Neigh!Menus \cup {"use"}) : shown[f] = sec[f]
  /\ \A f \in Neigh!Menus \ {"family"} : sec[f] = form[f] \/ f \in esc \cap {"dev"}
  /\ form.use = 0 \/ form.managed = 0

OneSection(d) == DOMAIN d.work = {1} /\ DOMAIN d.form = {1} /\ DOMAIN d.shown = {1}

RuleDlg(d) ==
  OneSection(d) /\ RuleSec(d.work[1], d.form[1], d.shown[1], EscOf(d.left, Rule!Menus, 1))

NeighDlg(d) ==
  /\ OneSection(d) /\ DOMAIN d.shown[1] = Neigh!Widgets
  /\ NeighSec(d.work[1], d.form[1], d.shown[1], EscOf(d.left, Neigh!Menus, 1))

\* What a dialog that was opened with F4 keeps of the record.
RouteKept(d, rec) ==
  /\ d.work[1].nhid = rec[1].nhid
  /\ d.encs = {} => d.work[1].enc = rec[1].enc

RuleKept(d, rec) ==
  /\ d.work[1].action \in {rec[1].action, "table"}
  /\ d.form[1].table \notin {0, d.shown[1].table} => d.work[1].action = "table"

Members == {"mode", "work", "form", "shown", "change", "left", "encs", "held"}

Dialog(k, d, hop, rec) ==
  /\ DOMAIN d = Members
  /\ d.mode \in {"edit", "create"} /\ d.change \in BOOLEAN
  /\ d.change => k = "route" /\ d.encs # {}
  /\ d.mode = "edit" => rec # None
  /\ k = "route" => RouteDlg(d, hop) /\ (d.mode = "edit" => RouteKept(d, rec))
  /\ k = "rule"  => RuleDlg(d) /\ (d.mode = "edit" => RuleKept(d, rec))
  /\ k = "neigh" => NeighDlg(d)

IsRecord(k, rec) ==
  /\ k = "route" => IsRoute(rec)
  /\ k = "rule"  => IsRule(rec)
  /\ k = "neigh" => IsNeigh(rec)

IInv ==
  /\ kind \in Kinds /\ marked \in BOOLEAN
  /\ count \in [dialogs : 0 .. MaxDialogs, touches : 0 .. MaxTouches]
  /\ HopTyped(new_nh)
  /\ kind = "route" => (marked = (new_nh.nexthop = 1))
  /\ kernel # None => IsRecord(kind, kernel)
  /\ dlg # None => Dialog(kind, dlg, new_nh, kernel)
  /\ EncapAsShown

-----------------------------------------------------------------------------
(***************************************************************************)
(* The marked hops in their order.                                         *)
(***************************************************************************)

\* How many numbers of a set are not greater than one.
Rank(I, i) == Cardinality({j \in I : j =< i})

\* Ranks are those of the places 1 .. Cardinality(I), and differ.
LEMMA RankOrders ==
  ASSUME NEW I \in SUBSET Nat, IsFiniteSet(I), NEW i \in I, NEW k \in I
  PROVE  /\ Rank(I, i) \in 1 .. Cardinality(I)
         /\ i < k => Rank(I, i) < Rank(I, k)
<1> DEFINE below(n) == {j \in I : j =< n}
<1>1. ASSUME NEW n \in I
      PROVE  IsFiniteSet(below(n)) /\ Cardinality(below(n)) \in Nat
               /\ Cardinality(below(n)) =< Cardinality(I)
  <2>1. below(n) \in SUBSET I
    OBVIOUS
  <2> QED BY <2>1, FS_Subset, FS_CardinalityType
<1>2. Cardinality(I) \in Nat
  BY FS_CardinalityType
<1>3. Cardinality(below(i)) # 0
  <2>1. i \in below(i)
    OBVIOUS
  <2> QED BY <1>1, <2>1, FS_EmptySet
<1>4. ASSUME i < k
      PROVE  Cardinality(below(i)) < Cardinality(below(k))
  <2>1. below(i) \in SUBSET below(k) /\ k \notin below(i) /\ k \in below(k)
    <3>1. i \in Nat /\ k \in Nat /\ \A j \in I : j \in Nat
      OBVIOUS
    <3>2. ~(k =< i) /\ i =< i /\ k =< k /\ \A j \in I : j =< i => j =< k
      BY <1>4, <3>1
    <3> QED BY <3>2
  <2>2. Cardinality(below(i)) =< Cardinality(below(k))
          /\ Cardinality(below(i)) # Cardinality(below(k))
    BY <1>1, <2>1, FS_Subset
  <2> QED BY <1>1, <2>2
<1> QED BY <1>1, <1>2, <1>3, <1>4 DEF Rank

\* InOrder in these words.
LEMMA InOrderRanks ==
  ASSUME NEW I
  PROVE  Route!InOrder(I) = [n \in 1 .. Cardinality(I) |-> CHOOSE i \in I : Rank(I, i) = n]
BY DEF Route!InOrder, Rank, Route!Cardinality, Cardinality

\* Every place has a number.
LEMMA InOrderIs ==
  ASSUME NEW I \in SUBSET Nat, IsFiniteSet(I), NEW n \in 1 .. Cardinality(I)
  PROVE  Route!InOrder(I)[n] \in I /\ Rank(I, Route!InOrder(I)[n]) = n
<1> DEFINE c == Cardinality(I)
           rank == [i \in I |-> Rank(I, i)]
<1>1. c \in Nat /\ IsFiniteSet(1 .. c) /\ Cardinality(1 .. c) = c
  <2>1. c \in Nat
    BY FS_CardinalityType
  <2> QED BY <2>1, FS_Interval
<1>2. rank \in [I -> 1 .. c]
  BY RankOrders
<1>3. \A i, k \in I : rank[i] = rank[k] => i = k
  <2> SUFFICES ASSUME NEW i \in I, NEW k \in I, i # k
               PROVE  rank[i] # rank[k]
    OBVIOUS
  <2>1. i < k \/ k < i
    OBVIOUS
  <2>2. Rank(I, i) \in Int /\ Rank(I, k) \in Int
    BY RankOrders
  <2> QED BY <2>1, <2>2, RankOrders
<1>4. rank \in Injection(I, 1 .. c)
  BY <1>2, <1>3 DEF Injection, IsInjective
<1>5. rank \in Surjection(I, 1 .. c)
  BY <1>1, <1>4, FS_Injection
<1>6. \E i \in I : Rank(I, i) = n
  BY <1>5 DEF Surjection
<1> QED BY <1>6, InOrderRanks

\* One more number after all others leaves their places alone.
LEMMA InOrderPrefix ==
  ASSUME NEW I \in SUBSET Nat, IsFiniteSet(I), NEW m \in Nat, \A i \in I : i < m,
         NEW n \in 1 .. Cardinality(I)
  PROVE  Route!InOrder(I \cup {m})[n] = Route!InOrder(I)[n]
<1> DEFINE J == I \cup {m}
           a == Route!InOrder(I)[n]
           b == Route!InOrder(J)[n]
<1>1. IsFiniteSet(J) /\ Cardinality(J) = Cardinality(I) + 1 /\ J \in SUBSET Nat
  BY FS_AddElement
<1>2. Cardinality(I) \in Nat
  BY FS_CardinalityType
<1>3. a \in I /\ Rank(I, a) = n
  BY InOrderIs
<1>4. b \in J /\ Rank(J, b) = n
  BY <1>1, <1>2, InOrderIs
<1>5. Rank(J, a) = n
  <2>1. {j \in J : j =< a} = {j \in I : j =< a}
    <3>1. \A i \in I : i \in Nat /\ ~(m =< i)
      OBVIOUS
    <3>2. ~(m =< a)
      BY <1>3, <3>1
    <3> QED BY <3>2
  <2> QED BY <1>3, <2>1 DEF Rank
<1>6. a \in J /\ a \in Nat /\ b \in Nat
  BY <1>1, <1>3, <1>4
<1>7. ~(a < b) /\ ~(b < a)
  BY <1>1, <1>4, <1>5, <1>6, RankOrders
<1> QED BY <1>6, <1>7

-----------------------------------------------------------------------------
(***************************************************************************)
(* Encapsulations.                                                         *)
(***************************************************************************)

\* The members of an encapsulation.
LEMMA EncMembers ==
  ASSUME NEW enc \in Route!Encs
  PROVE  /\ enc.type \in Route!EncTypes
         /\ enc.valid \in SUBSET (0 .. 7)
         /\ DOMAIN enc.val = Route!MplsFields \cup Route!IpFields
         /\ \A f \in Route!MplsFields \cup Route!IpFields :
              enc.val[f] \in Value \cup {Unset}
         /\ enc = [type |-> enc.type, valid |-> enc.valid, val |-> enc.val]
BY DEF Route!Encs, Route!Value, Value

\* Nothing shares the bit of a field that has the type of it.
LEMMA BitsDiffer ==
  ASSUME NEW type, NEW f \in Route!Fields(type), NEW g \in Route!Fields(type)
  PROVE  /\ Route!Bit[f] = Route!Bit[g] => f = g
         /\ Route!Bit[f] \in 0 .. 7
         /\ f \in Route!MplsFields \cup Route!IpFields
<1>1. CASE type = "mpls"
  BY <1>1 DEF Route!Fields, Route!MplsFields, Route!IpTypes, Route!Bit
<1>2. CASE type \in Route!IpTypes
  <2>1. Route!Fields(type) = Route!IpFields
    BY <1>2 DEF Route!Fields, Route!IpTypes
  <2> QED BY <2>1 DEF Route!IpFields, Route!Bit
<1>3. CASE type # "mpls" /\ type \notin Route!IpTypes
  BY <1>3 DEF Route!Fields
<1> QED BY <1>1, <1>2, <1>3

\* What a command says of an encapsulation.
Said(enc) == {f \in Route!Fields(enc.type) : Route!Bit[f] \in enc.valid}

\* The kernel has the fields that were said, with the values they had.
LEMMA MadeEncIs ==
  ASSUME NEW enc \in Route!Encs, NEW e \in Route!MadeEnc(enc)
  PROVE  /\ enc.type \notin {"none", "other"} /\ e.type = enc.type
         /\ e \in Route!Encs
         /\ e.valid = {Route!Bit[f] : f \in Said(enc)}
         /\ Said(e) = Said(enc)
         /\ \A f \in Route!MplsFields \cup Route!IpFields :
              /\ f \in Said(enc) => /\ e.val[f] \in Value
                                    /\ enc.val[f] # Unset => e.val[f] = enc.val[f]
              /\ f \notin Said(enc) => e.val[f] = 0
<1> DEFINE said == Said(enc)
<1>1. enc.type \notin {"none", "other"}
  BY DEF Route!MadeEnc
<1>2. said = {f \in Route!Fields(enc.type) : Route!Valid(enc, f)}
  BY DEF Said, Route!Valid
<1>3. PICK val \in [said -> Value] :
        /\ \A f \in said : val[f] \in Route!Means(enc.val[f])
        /\ e = [type |-> enc.type, valid |-> {Route!Bit[f] : f \in said},
                val |-> [f \in DOMAIN enc.val |-> IF f \in said THEN val[f]
                                                  ELSE Route!NoEncap.val[f]]]
  BY <1>1, <1>2 DEF Route!MadeEnc, Route!Value, Value
<1>4. \A f \in said : f \in Route!MplsFields \cup Route!IpFields /\ Route!Bit[f] \in 0 .. 7
  BY BitsDiffer DEF Said
<1>5. \A f \in Route!MplsFields \cup Route!IpFields :
        e.val[f] = IF f \in said THEN val[f] ELSE 0
  BY <1>3, EncMembers DEF Route!NoEncap
<1>6. e.val \in [Route!MplsFields \cup Route!IpFields -> Value \cup {Unset}]
  <2>1. 0 \in Value
    BY RecordEditAssumption DEF Value
  <2>2. e.val = [f \in Route!MplsFields \cup Route!IpFields |->
                   IF f \in said THEN val[f] ELSE Route!NoEncap.val[f]]
    BY <1>3, EncMembers
  <2>3. \A f \in Route!MplsFields \cup Route!IpFields : e.val[f] \in Value
    BY <1>3, <1>5, <2>1
  <2> QED BY <2>2, <2>3
<1>7. e \in Route!Encs
  BY <1>3, <1>4, <1>6, EncMembers DEF Route!Encs, Route!Value, Value
<1>8. Said(e) = said
  <2>1. e.type = enc.type /\ e.valid = {Route!Bit[f] : f \in said}
    BY <1>3
  <2>2. \A f \in Route!Fields(enc.type) : Route!Bit[f] \in e.valid => f \in said
    BY <2>1, BitsDiffer DEF Said
  <2> QED BY <2>1, <2>2 DEF Said
<1>9. \A f \in said : enc.val[f] # Unset => val[f] = enc.val[f]
  BY <1>3 DEF Route!Means
<1> QED BY <1>1, <1>3, <1>5, <1>7, <1>8, <1>9

\* Of an encapsulation with a type some command can be made.
LEMMA MadeEncExists ==
  ASSUME NEW enc \in Route!Encs, enc.type \notin {"none", "other"}
  PROVE  Route!MadeEnc(enc) # {}
<1> DEFINE said == {f \in Route!Fields(enc.type) : Route!Valid(enc, f)}
           val  == [f \in said |-> IF enc.val[f] = Unset THEN 0 ELSE enc.val[f]]
<1>1. 0 \in Route!Value
  BY RecordEditAssumption DEF Route!Value
<1>2. \A f \in said : enc.val[f] \in Route!Value \cup {Unset}
  BY BitsDiffer, EncMembers DEF Route!Value, Value
<1>3. val \in [said -> Route!Value]
  BY <1>1, <1>2
<1>4. \A f \in said : val[f] \in Route!Means(enc.val[f])
  BY <1>1 DEF Route!Means
<1> DEFINE vals == {w \in [said -> Route!Value] :
                      \A f \in said : w[f] \in Route!Means(enc.val[f])}
           Rec(w) == [type |-> enc.type, valid |-> {Route!Bit[f] : f \in said},
                      val |-> [f \in DOMAIN enc.val |-> IF f \in said THEN w[f]
                                                        ELSE Route!NoEncap.val[f]]]
<1>5. val \in vals
  BY <1>3, <1>4
<1>6. Route!MadeEnc(enc) = {Rec(w) : w \in vals}
  BY DEF Route!MadeEnc
<1> HIDE DEF vals, val, Rec
<1> QED BY <1>5, <1>6

\* What a command makes another command makes again and nothing else.
LEMMA MadeEncExact ==
  ASSUME NEW enc \in Route!Encs, NEW e \in Route!MadeEnc(enc)
  PROVE  Route!MadeEnc(e) = {e}
<1>1. /\ e.type \notin {"none", "other"} /\ e \in Route!Encs /\ e.valid = {Route!Bit[f] : f \in Said(e)}
      /\ \A f \in Route!MplsFields \cup Route!IpFields :
           /\ f \in Said(e) => e.val[f] \in Value
           /\ f \notin Said(e) => e.val[f] = 0
  BY MadeEncIs
<1>2. ASSUME NEW x \in Route!MadeEnc(e)
      PROVE  x = e
  <2>1. /\ x \in Route!Encs /\ x.type = e.type
        /\ x.valid = {Route!Bit[f] : f \in Said(e)}
    BY <1>1, MadeEncIs
  <2>2. \A f \in Route!MplsFields \cup Route!IpFields : x.val[f] = e.val[f]
    BY <1>1, MadeEncIs, RecordEditAssumption
  <2>3. x.val = e.val
    BY <1>1, <2>1, <2>2 DEF Route!Encs
  <2> QED BY <1>1, <2>1, <2>3, EncMembers
<1> QED BY <1>1, <1>2, MadeEncExists


AllFields == Route!MplsFields \cup Route!IpFields

\* A field that is written, and the others.
Written(enc, g, v, new) ==
  /\ new \in Route!Encs /\ new.type = enc.type
  /\ new.valid = IF v # 0 THEN enc.valid \cup {Route!Bit[g]}
                 ELSE enc.valid \ {Route!Bit[g]}
  /\ new.val[g] = v
  /\ \A f \in AllFields \ {g} :
       new.val[f] = IF (f \in Route!MplsFields) # (g \in Route!MplsFields)
                    THEN Unset ELSE enc.val[f]

LEMMA WriteIs ==
  ASSUME NEW enc \in Route!Encs, NEW g \in AllFields, NEW v \in Value
  PROVE  Written(enc, g, v, Route!Write(enc, g, v))
<1> DEFINE new == Route!Write(enc, g, v)
           val == [f \in AllFields |->
                     CASE f = g -> v
                       [] (f \in Route!MplsFields) # (g \in Route!MplsFields) -> Unset
                       [] OTHER -> enc.val[f]]
<1>1. Route!Bit[g] \in 0 .. 7
  BY DEF AllFields, Route!MplsFields, Route!IpFields, Route!Bit
<1>2. new = [type  |-> enc.type,
             valid |-> IF v # 0 THEN enc.valid \cup {Route!Bit[g]}
                       ELSE enc.valid \ {Route!Bit[g]},
             val   |-> [f \in DOMAIN enc.val |->
                          CASE f = g -> v
                            [] (f \in Route!MplsFields) # (g \in Route!MplsFields) -> Unset
                            [] OTHER -> enc.val[f]]]
  <2>1. enc = [type |-> enc.type, valid |-> enc.valid, val |-> enc.val]
    BY EncMembers
  <2> DEFINE a == IF v # 0 THEN enc.valid \cup {Route!Bit[g]} ELSE enc.valid \ {Route!Bit[g]}
             b == [f \in DOMAIN enc.val |->
                    CASE f = g -> v
                      [] (f \in Route!MplsFields) # (g \in Route!MplsFields) -> Unset
                      [] OTHER -> enc.val[f]]
  <2>2. new = [enc EXCEPT !.valid = a, !.val = b]
    BY DEF Route!Write
  <2> HIDE DEF a, b, new
  <2>3. new = [type |-> enc.type, valid |-> a, val |-> b]
    BY <2>1, <2>2
  <2> QED BY <2>3 DEF a, b
<1>3. new.val = val
  BY <1>2, EncMembers DEF AllFields
<1>4. g \in Route!MplsFields => g \notin Route!IpFields
  BY DEF Route!MplsFields, Route!IpFields
<1>5. /\ val[g] = v
      /\ \A f \in AllFields \ {g} :
           val[f] = IF (f \in Route!MplsFields) # (g \in Route!MplsFields)
                    THEN Unset ELSE enc.val[f]
  BY <1>4 DEF AllFields
<1>6. val \in [AllFields -> Value \cup {Unset}]
  BY <1>5, EncMembers DEF AllFields
<1> HIDE DEF val
<1>7. new \in Route!Encs
  <2>1. new = [type |-> enc.type, valid |-> new.valid, val |-> val]
    BY <1>2, <1>3
  <2>2. new.valid \in SUBSET (0 .. 7)
    BY <1>1, <1>2, EncMembers
  <2> QED BY <1>6, <2>1, <2>2, EncMembers DEF Route!Encs, Route!Value, Value, AllFields
<1> QED BY <1>2, <1>3, <1>5, <1>7 DEF Written

\* What a widget shows of a field that can be read the kernel has.
LEMMA ShownMade ==
  ASSUME NEW enc \in Route!Encs, NEW e \in Route!MadeEnc(enc), NEW f \in Route!EncWidgets,
         Route!ShownIn(enc, f) # Unset
  PROVE  Route!ShownIn(e, f) = Route!ShownIn(enc, f)
<1> DEFINE over == CASE f = "ttl" -> "hoplimit" [] f = "tos" -> "tc" [] OTHER -> f
<1>1. f \in AllFields /\ over \in AllFields
  BY DEF AllFields, Route!EncWidgets, Route!IpFields
<1>2. f \in Route!Fields(enc.type) => over \in Route!Fields(enc.type)
  BY DEF Route!Fields, Route!IpTypes, Route!IpFields, Route!MplsFields
<1>3. e.type = enc.type /\ e.valid = {Route!Bit[g] : g \in Said(enc)}
  BY MadeEncIs
<1>4. ASSUME NEW g \in Route!Fields(enc.type)
      PROVE  /\ Route!Valid(e, g) = Route!Valid(enc, g)
             /\ Route!Valid(enc, g) /\ enc.val[g] # Unset => e.val[g] = enc.val[g]
  <2>1. g \in Said(enc) <=> Route!Valid(enc, g)
    BY DEF Said, Route!Valid
  <2>2. g \in Said(e) <=> Route!Valid(e, g)
    BY <1>3 DEF Said, Route!Valid
  <2>3. g \in AllFields
    BY BitsDiffer DEF AllFields
  <2>4. (g \in Said(enc)) = Route!Valid(enc, g) /\ (g \in Said(e)) = Route!Valid(e, g)
    BY <2>1, <2>2 DEF Route!Valid
  <2> QED BY <2>1, <2>3, <2>4, MadeEncIs DEF AllFields
<1>5. CASE f \notin Route!Fields(enc.type)
  BY <1>3, <1>5 DEF Route!ShownIn
<1>6. CASE f \in Route!Fields(enc.type)
  <2>1. Route!ShownIn(enc, f) = IF Route!Valid(enc, over) THEN enc.val[over]
                                ELSE IF Route!Valid(enc, f) THEN enc.val[f] ELSE 0
    BY <1>6 DEF Route!ShownIn
  <2>2. Route!ShownIn(e, f) = IF Route!Valid(e, over) THEN e.val[over]
                              ELSE IF Route!Valid(e, f) THEN e.val[f] ELSE 0
    BY <1>3, <1>6 DEF Route!ShownIn
  <2> HIDE DEF over
  <2> QED BY <1>2, <1>4, <1>6, <2>1, <2>2
<1> QED BY <1>5, <1>6


\* An encapsulation with other valid bits, and with another value of a field.
LEMMA WithValid ==
  ASSUME NEW enc \in Route!Encs, NEW bits \in SUBSET (0 .. 7)
  PROVE  LET new == [enc EXCEPT !.valid = bits]
         IN  /\ new \in Route!Encs
             /\ new.type = enc.type /\ new.valid = bits /\ new.val = enc.val
BY DEF Route!Encs

LEMMA WithVal ==
  ASSUME NEW enc \in Route!Encs, NEW g \in AllFields, NEW x \in Value \cup {Unset}
  PROVE  LET new == [enc EXCEPT !.val[g] = x]
         IN  /\ new \in Route!Encs
             /\ new.type = enc.type /\ new.valid = enc.valid /\ new.val[g] = x
             /\ \A f \in AllFields \ {g} : new.val[f] = enc.val[f]
BY EncMembers DEF Route!Encs, AllFields, Route!Value, Value

\* What a change of a widget does.
LEMMA ApplyIs ==
  ASSUME NEW enc \in Route!Encs, NEW g \in Route!EncWidgets, NEW v \in Value
  PROVE  LET new == Route!Apply(enc, g, v)
         IN  /\ new \in Route!Encs /\ new.type = enc.type
             /\ g \in {"label", "addr"} =>
                  /\ new.val[g] \in {v, Unset}
                  /\ new.valid = Route!Write(enc, g, v).valid
                  /\ \A f \in AllFields \ {g} : new.val[f] = Route!Write(enc, g, v).val[f]
             /\ g = "flag" => /\ new.val = Route!Write(enc, g, v).val
                              /\ new.valid = enc.valid \cup {Route!Bit[g]}
             /\ g = "id" \/ (g \in {"ttl", "tos"} /\ enc.type \in Route!IpTypes) =>
                  new = Route!Write(enc, Route!Behind(enc.type, g), v)
<1> DEFINE new == Route!Apply(enc, g, v)
           w   == Route!Write(enc, g, v)
<1>1. g \in AllFields /\ Route!Behind(enc.type, g) \in AllFields /\ Route!Bit[g] \in 0 .. 7
  BY DEF AllFields, Route!EncWidgets, Route!Behind, Route!IpFields, Route!MplsFields,
         Route!Bit
<1>2. w \in Route!Encs /\ w.type = enc.type
        /\ w.valid = IF v # 0 THEN enc.valid \cup {Route!Bit[g]}
                     ELSE enc.valid \ {Route!Bit[g]}
  <2>1. g \in AllFields
    BY <1>1
  <2>2. Written(enc, g, v, w)
    BY <2>1, WriteIs
  <2> QED BY <2>2 DEF Written
<1>3. enc.valid \in SUBSET (0 .. 7)
  BY EncMembers
<1>4. CASE g = "mttl"
  <2>1. PICK bits \in SUBSET (0 .. 7) : new = [enc EXCEPT !.valid = bits]
    <3>1. new = [enc EXCEPT !.valid = IF v % 2 = 1 THEN enc.valid \cup {0}
                                      ELSE enc.valid \ {0}]
      BY <1>4 DEF Route!Apply
    <3>2. (IF v % 2 = 1 THEN enc.valid \cup {0} ELSE enc.valid \ {0}) \in SUBSET (0 .. 7)
      BY <1>3
    <3> QED BY <3>1, <3>2
  <2>2. new \in Route!Encs /\ new.type = enc.type
    BY <2>1, WithValid
  <2> QED BY <1>4, <2>2
<1>5. CASE g = "flag"
  <2>1. new = [w EXCEPT !.valid = w.valid \cup {Route!Bit[g]}]
    BY <1>5 DEF Route!Apply
  <2>2. w.valid \cup {Route!Bit[g]} \in SUBSET (0 .. 7)
    BY <1>1, <1>2, <1>3
  <2> HIDE DEF w
  <2>3. /\ new \in Route!Encs /\ new.type = w.type /\ new.val = w.val
        /\ new.valid = w.valid \cup {Route!Bit[g]}
    BY <1>2, <2>1, <2>2, WithValid
  <2>4. new.valid = enc.valid \cup {Route!Bit[g]}
    BY <1>2, <2>3
  <2> QED BY <1>2, <1>5, <2>3, <2>4 DEF w
<1>6. CASE g \in {"label", "addr"}
  <2> DEFINE x == IF enc.val[g] = 0 THEN v ELSE Route!Copied(enc.val[g], v)
  <2>1. new = [w EXCEPT !.val[g] = x]
    BY <1>6 DEF Route!Apply
  <2>2. x \in {v, Unset}
    BY DEF Route!Copied
  <2> HIDE DEF w, x
  <2>3. /\ new \in Route!Encs /\ new.type = w.type /\ new.valid = w.valid
        /\ new.val[g] = x
        /\ \A f \in AllFields \ {g} : new.val[f] = w.val[f]
    BY <1>1, <1>2, <2>1, <2>2, WithVal
  <2> QED BY <1>2, <1>6, <2>2, <2>3 DEF w
<1>7. CASE g = "id"
  <2>1. new = Route!Write(enc, Route!Behind(enc.type, g), v)
    BY <1>7 DEF Route!Apply
  <2>2. new \in Route!Encs /\ new.type = enc.type
    <3>1. Written(enc, Route!Behind(enc.type, g), v, new)
      BY <1>1, <2>1, WriteIs
    <3> QED BY <3>1 DEF Written
  <2> QED BY <1>7, <2>1, <2>2
<1>8. CASE g \in {"ttl", "tos"} /\ enc.type \in Route!IpTypes
  <2>1. new = Route!Write(enc, Route!Behind(enc.type, g), v)
    BY <1>8 DEF Route!Apply
  <2>2. new \in Route!Encs /\ new.type = enc.type
    <3>1. Written(enc, Route!Behind(enc.type, g), v, new)
      BY <1>1, <2>1, WriteIs
    <3> QED BY <3>1 DEF Written
  <2> QED BY <1>8, <2>1, <2>2
<1>9. CASE g \in {"ttl", "tos"} /\ enc.type \notin Route!IpTypes
  <2>1. new = enc
    BY <1>9 DEF Route!Apply
  <2> QED BY <1>9, <2>1
<1> QED
  <2>1. g \in {"label", "mttl", "id", "ttl", "tos", "addr", "flag"}
    BY DEF Route!EncWidgets, Route!IpFields, Route!MplsFields
  <2> QED BY <1>4, <1>5, <1>6, <1>7, <1>8, <1>9, <2>1


\* The type of an encapsulation after OK.
LEMMA FilledEncType ==
  ASSUME NEW enc \in Route!Encs, NEW type \in Route!EncTypes,
         NEW g \in Route!EncWidgets, NEW v \in Value
  PROVE  /\ Route!FilledEnc(enc, type, g, v) \in Route!Encs
         /\ Route!FilledEnc(enc, type, g, v).type = type
<1> DEFINE typed == [enc EXCEPT !.type = type]
<1>1. typed \in Route!Encs /\ typed.type = type
  BY DEF Route!Encs
<1>2. Route!FilledEnc(enc, type, g, v) \in {typed, Route!Apply(typed, g, v)}
  BY DEF Route!FilledEnc
<1> HIDE DEF typed
<1>3. Route!Apply(typed, g, v) \in Route!Encs /\ Route!Apply(typed, g, v).type = typed.type
  BY <1>1, ApplyIs
<1> QED BY <1>1, <1>2, <1>3

\* What the widgets show after one of them was changed, of a type that has it.
LEMMA ApplyShown ==
  ASSUME NEW enc \in Route!Encs, NEW g \in Route!WidgetsOf(enc.type), g # "mttl",
         NEW v \in Value, NEW f \in Route!EncWidgets, ~Route!Foreign(enc, f),
         Route!ShownIn(Route!Apply(enc, g, v), f) # Unset
  PROVE  Route!ShownIn(Route!Apply(enc, g, v), f)
           = IF g = f THEN v ELSE Route!ShownIn(enc, f)
<1> DEFINE new == Route!Apply(enc, g, v)
           w   == Route!Write(enc, Route!Behind(enc.type, g), v)
<1>1. g \in Route!EncWidgets /\ g \in Route!Fields(enc.type)
  BY DEF Route!WidgetsOf
<1>2. /\ new \in Route!Encs /\ new.type = enc.type
      /\ g \in {"label", "addr"} =>
           /\ new.val[g] \in {v, Unset}
           /\ new.valid = Route!Write(enc, g, v).valid
           /\ \A h \in AllFields \ {g} : new.val[h] = Route!Write(enc, g, v).val[h]
      /\ g = "flag" => /\ new.val = Route!Write(enc, g, v).val
                       /\ new.valid = enc.valid \cup {Route!Bit[g]}
      /\ g = "id" \/ (g \in {"ttl", "tos"} /\ enc.type \in Route!IpTypes) => new = w
  BY <1>1, ApplyIs
<1>3. Route!Behind(enc.type, g) \in AllFields
  BY <1>1 DEF AllFields, Route!EncWidgets, Route!Behind, Route!IpFields, Route!MplsFields
<1>4. Written(enc, Route!Behind(enc.type, g), v, w)
  BY <1>3, WriteIs
<1>5. g \notin {"ttl", "tos"} => w = Route!Write(enc, g, v)
  BY DEF Route!Behind
<1> HIDE DEF new, w
<1>6. CASE enc.type = "mpls"
  <2>1. g = "label" /\ Route!Behind(enc.type, g) = "label"
    BY <1>1, <1>6 DEF Route!Fields, Route!MplsFields, Route!IpTypes, Route!Behind
  <2>2. /\ new.val["label"] \in {v, Unset}
        /\ new.valid = IF v # 0 THEN enc.valid \cup {1} ELSE enc.valid \ {1}
        /\ new.val["mttl"] = enc.val["mttl"]
    BY <1>2, <1>4, <1>5, <2>1
       DEF Written, AllFields, Route!MplsFields, Route!IpFields, Route!Bit
  <2>3. \A e \in {enc, new} :
          /\ Route!ShownIn(e, "label") = IF 1 \in e.valid THEN e.val["label"] ELSE 0
          /\ Route!ShownIn(e, "mttl") = IF 0 \in e.valid THEN e.val["mttl"] ELSE 0
          /\ f \notin {"label", "mttl"} => Route!ShownIn(e, f) = 0
    BY <1>2, <1>6 DEF Route!ShownIn, Route!Fields, Route!MplsFields, Route!IpTypes,
                      Route!Valid, Route!Bit
  <2> QED BY <2>1, <2>2, <2>3 DEF new
<1>7. CASE enc.type \in Route!IpTypes
  <2> DEFINE b == Route!Behind(enc.type, g)
  <2>1. /\ g \in {"id", "ttl", "tos", "addr", "flag"}
        /\ b = IF enc.type = "ip6" /\ g = "ttl" THEN "hoplimit"
               ELSE IF enc.type = "ip6" /\ g = "tos" THEN "tc" ELSE g
    BY <1>1, <1>7 DEF Route!Fields, Route!IpFields, Route!IpTypes, Route!EncWidgets,
                      Route!MplsFields, Route!Behind
  <2>2. b \in Route!IpFields /\ b \in AllFields
    BY <2>1 DEF AllFields, Route!IpFields
  <2>3. \A h \in Route!IpFields :
          /\ h \in AllFields /\ h \notin Route!MplsFields
          /\ h # b => Route!Bit[h] # Route!Bit[b]
    BY <2>2 DEF AllFields, Route!IpFields, Route!MplsFields, Route!Bit
  <2>4. /\ w.valid = IF v # 0 THEN enc.valid \cup {Route!Bit[b]}
                    ELSE enc.valid \ {Route!Bit[b]}
        /\ w.val[b] = v /\ \A h \in Route!IpFields \ {b} : w.val[h] = enc.val[h]
    BY <1>4, <2>2, <2>3 DEF Written
  <2>5. /\ new.val[b] \in {v, Unset}
        /\ \A h \in Route!IpFields \ {b} : new.val[h] = enc.val[h]
    <3>1. CASE g = "addr"
      BY <1>2, <1>5, <2>1, <2>3, <2>4, <3>1
    <3>2. CASE g = "flag"
      BY <1>2, <1>5, <2>1, <2>4, <3>2
    <3>3. CASE g \in {"id", "ttl", "tos"}
      BY <1>2, <1>7, <2>4, <3>3
    <3> QED BY <2>1, <3>1, <3>2, <3>3
  <2>6. /\ Route!Valid(new, b) \/ v = 0
        /\ \A h \in Route!IpFields \ {b} : Route!Valid(new, h) = Route!Valid(enc, h)
    <3>1. CASE g = "addr"
      BY <1>2, <1>5, <2>1, <2>3, <2>4, <3>1 DEF Route!Valid
    <3>2. CASE g = "flag"
      BY <1>2, <1>5, <2>1, <2>3, <2>4, <3>2 DEF Route!Valid
    <3>3. CASE g \in {"id", "ttl", "tos"}
      BY <1>2, <1>7, <2>3, <2>4, <3>3 DEF Route!Valid
    <3> QED BY <2>1, <3>1, <3>2, <3>3
  <2>7. \A e \in {enc, new} :
          Route!ShownIn(e, f) =
            IF f \notin Route!IpFields THEN 0
            ELSE LET over == CASE f = "ttl" -> "hoplimit" [] f = "tos" -> "tc" [] OTHER -> f
                 IN  IF Route!Valid(e, over) THEN e.val[over]
                     ELSE IF Route!Valid(e, f) THEN e.val[f] ELSE 0
    <3>1. Route!Fields(enc.type) = Route!IpFields
      BY <1>7 DEF Route!Fields, Route!IpTypes
    <3> QED BY <1>2, <3>1 DEF Route!ShownIn
  <2>8. /\ f = "ttl" => ~Route!Valid(enc, IF enc.type = "ip6" THEN "ttl" ELSE "hoplimit")
        /\ f = "tos" => ~Route!Valid(enc, IF enc.type = "ip6" THEN "tos" ELSE "tc")
    BY DEF Route!Foreign
  <2>9. Route!ShownIn(new, f) # Unset
    BY DEF new
  <2>10. f \in {"id", "ttl", "tos", "addr", "flag"} \/ (f \notin Route!IpFields /\ f # g)
    BY <2>1 DEF Route!EncWidgets, Route!IpFields
  <2>11. CASE f \notin Route!IpFields /\ f # g
    BY <2>7, <2>11 DEF new
  <2>12. CASE f = "ttl"
    BY <2>1, <2>5, <2>6, <2>7, <2>8, <2>9, <2>12 DEF new, Route!IpFields
  <2>13. CASE f = "tos"
    BY <2>1, <2>5, <2>6, <2>7, <2>8, <2>9, <2>13 DEF new, Route!IpFields
  <2>14. CASE f \in {"id", "addr", "flag"}
    BY <2>1, <2>5, <2>6, <2>7, <2>9, <2>14 DEF new, Route!IpFields
  <2> QED BY <2>10, <2>11, <2>12, <2>13, <2>14
<1> QED
  <2>1. enc.type \in Route!IpTypes \cup {"mpls"}
    BY <1>1 DEF Route!Fields
  <2> QED BY <1>6, <1>7, <2>1


\* What EncapAsShown says of a change of an encapsulation.
LEMMA ChangeShown ==
  ASSUME NEW old \in Route!Encs, NEW type \in Route!EncTypes, NEW v \in Value,
         NEW f \in Route!WidgetsOf(type) \cup {"id"},
         f \notin Route!WidgetsOf(type) => v = Route!ShownEnc(old)[f],
         v = Route!ShownEnc(old)[f] => type # old.type /\ f = "id",
         NEW g \in Route!EncWidgets,
         NEW rec \in Route!MadeEnc(Route!FilledEnc(old, type, f, v))
  PROVE  \/ Route!FilledEnc(old, type, f, v).type # old.type
         \/ Route!Foreign(old, g) \/ f = "mttl"
         \/ Route!ShownEnc(Route!FilledEnc(old, type, f, v))[g] = Unset
         \/ Route!ShownEnc(rec)[g] = IF f = g THEN v ELSE Route!ShownEnc(old)[g]
<1> DEFINE new == Route!FilledEnc(old, type, f, v)
<1>1. f \in Route!EncWidgets
  BY DEF Route!WidgetsOf, Route!EncWidgets, Route!IpFields, Route!MplsFields
<1>2. new \in Route!Encs /\ new.type = type
  BY <1>1, FilledEncType
<1>3. \A e : Route!ShownEnc(e)[g] = Route!ShownIn(e, g)
  BY DEF Route!ShownEnc
<1> SUFFICES ASSUME type = old.type, ~Route!Foreign(old, g), f # "mttl",
                    Route!ShownIn(new, g) # Unset
             PROVE  Route!ShownIn(rec, g) = IF f = g THEN v ELSE Route!ShownIn(old, g)
  BY <1>2, <1>3
<1>4. v # Route!ShownEnc(old)[f] /\ f \in Route!WidgetsOf(old.type)
  OBVIOUS
<1>5. [old EXCEPT !.type = type] = old
  BY DEF Route!Encs
<1>6. new = Route!Apply(old, f, v)
  BY <1>4, <1>5 DEF Route!FilledEnc
<1>7. Route!ShownIn(new, g) = IF f = g THEN v ELSE Route!ShownIn(old, g)
  BY <1>4, <1>6, ApplyShown
<1>8. Route!ShownIn(rec, g) = Route!ShownIn(new, g)
  BY <1>2, ShownMade
<1> QED BY <1>7, <1>8

-----------------------------------------------------------------------------
(***************************************************************************)
(* A route's dialog.                                                       *)
(***************************************************************************)

\* What the dialog was opened with.
Fresh(w) ==
  /\ w \in Seq(RouteSecs) /\ Len(w) > 0
  /\ MainTyped(w[1])
  /\ \A s \in 2 .. Len(w) :
       /\ HopTyped(w[s]) /\ w[s].nexthop = 1 /\ (w[s].rtvia # 0 => w[s].family # Unset)
       /\ w[s].encap = IF w[s].enc.type = "none" THEN 0 ELSE 1

\* The attributes and their values.
LEMMA Names ==
  /\ DOMAIN Route!Main = Route!MainWidgets \cup {"rtvia", "nhid", "enc"}
  /\ DOMAIN Route!Hop = Route!HopWidgets \cup {"rtvia", "enc"}
BY DEF Route!Main, Route!Hop

LEMMA ValuesAre ==
  /\ \A f : Values(f) \subseteq Attributes /\ {0, 1} \subseteq Values(f)
  /\ \A f \in {"onlink", "encap", "nexthop"} : Values(f) = {0, 1}
  /\ Values("family") = {0, 1, 2}
  /\ \A f \in (Route!MainWidgets \cup Route!HopWidgets)
                 \ {"onlink", "encap", "nexthop", "family"} : Values(f) = Value
  /\ {0, 1} \subseteq Value /\ Unset \notin Value \cup {0, 1, 2}
<1>1. {0, 1} \subseteq Value /\ Unset \notin Value \cup {0, 1, 2}
  BY RecordEditAssumption DEF Value
<1>2. \A f : Values(f) \subseteq Attributes /\ {0, 1} \subseteq Values(f)
  BY <1>1 DEF Values, Attributes, Route!Families
<1>3. /\ \A f \in {"onlink", "encap", "nexthop"} : Values(f) = {0, 1}
      /\ Values("family") = {0, 1, 2}
  BY DEF Values, Checks, Route!Checks, Rule!Checks, Neigh!Checks, Route!Families
<1>4. \A f \in (Route!MainWidgets \cup Route!HopWidgets)
                  \ {"onlink", "encap", "nexthop", "family"} : f \notin Checks
  BY DEF Route!MainWidgets, Route!HopWidgets, Route!MainMenus, Route!HopMenus,
         Checks, Route!Checks, Rule!Checks, Neigh!Checks
<1> QED BY <1>1, <1>2, <1>3, <1>4 DEF Values


\* What is shown at first.
LEMMA ShownMainOk ==
  ASSUME NEW sec, MainTyped(sec)
  PROVE  MainOk(sec, Route!ShownMain(sec), Route!ShownMain(sec), {})
<1> DEFINE form == Route!ShownMain(sec)
<1>1. /\ DOMAIN form = Route!MainWidgets
      /\ \A f \in Route!MainWidgets \ {"gateway"} : form[f] = sec[f]
      /\ form.gateway = Route!Via(sec)
  BY DEF Route!ShownMain, Route!MainWidgets
<1>2. "gateway" \in Route!MainWidgets /\ "gateway" \notin Route!MainMenus
        /\ "dev" \in Route!MainMenus /\ Route!MainMenus \subseteq Route!MainWidgets
  BY DEF Route!MainWidgets, Route!MainMenus
<1>3. Values("gateway") = Value
  BY <1>2, ValuesAre
<1>4. Route!Via(sec) \in Value
  BY <1>2, <1>3 DEF MainTyped, Route!Via
<1> HIDE DEF form
<1>5. Drawn(Route!MainWidgets, form)
  BY <1>1, <1>3, <1>4 DEF Drawn, MainTyped
<1> QED BY <1>1, <1>2, <1>5 DEF MainOk, form

LEMMA ShownHopOk ==
  ASSUME NEW sec, HopTyped(sec), sec.nexthop = 1, sec.rtvia # 0 => sec.family # Unset,
         sec.encap = IF sec.enc.type = "none" THEN 0 ELSE 1
  PROVE  HopOk(sec, Route!ShownHop(sec), Route!ShownHop(sec), {})
<1> DEFINE form == Route!ShownHop(sec)
<1>1. /\ DOMAIN form = Route!HopWidgets
      /\ \A f \in Route!HopWidgets \ {"gateway", "nexthop", "family"} : form[f] = sec[f]
      /\ form.gateway = Route!Via(sec) /\ form.nexthop = 1
      /\ form.family = IF sec.rtvia # 0 THEN sec.family ELSE 0
  BY DEF Route!ShownHop, Route!HopWidgets, Route!HopMenus
<1>2. {"gateway", "nexthop", "dev", "weight", "family", "onlink"} \subseteq Route!HopWidgets
  BY DEF Route!HopWidgets, Route!HopMenus
<1>3. Values("gateway") = Value /\ Values("family") = {0, 1, 2} /\ Values("nexthop") = {0, 1}
  BY <1>2, ValuesAre
<1>4. Route!Via(sec) \in Value
  BY <1>2, <1>3 DEF HopTyped, Route!Via
<1> HIDE DEF form
<1>5. form.family \in Values("family")
  BY <1>1, <1>3 DEF HopTyped
<1>6. Drawn(Route!HopWidgets, form)
  BY <1>1, <1>3, <1>4, <1>5 DEF Drawn, HopTyped
<1> QED BY <1>1, <1>2, <1>6 DEF HopOk, form

LEMMA FreshOpens ==
  ASSUME NEW d, NEW hop, Fresh(d.work), HopTyped(hop),
         d.form = Route!Shown(d.work), d.shown = d.form, d.left = {}, d.held = hop
  PROVE  RouteDlg(d, hop)
<1> DEFINE n == Len(d.work)
<1>1. n \in Nat /\ n > 0 /\ d.work \in Seq(RouteSecs)
  BY DEF Fresh
<1>2. /\ DOMAIN d.form = 1 .. n + 1
      /\ \A s \in 1 .. n + 1 :
           d.form[s] = CASE s = 1 -> Route!ShownMain(d.work[1])
                         [] s \in 2 .. n -> Route!ShownHop(d.work[s])
                         [] OTHER -> [f \in Route!HopWidgets |-> 0]
  BY DEF Route!Shown
<1>3. \A s : Esc(d.left, s) = {}
  BY DEF Esc, EscOf
<1>4. MainOk(d.work[1], d.form[1], d.shown[1], Esc(d.left, 1))
  <2>1. MainTyped(d.work[1])
    BY DEF Fresh
  <2>2. d.form[1] = Route!ShownMain(d.work[1])
    BY <1>1, <1>2
  <2> QED BY <1>3, <2>1, <2>2, ShownMainOk
<1>5. ASSUME NEW s \in 2 .. n
      PROVE  HopOk(d.work[s], d.form[s], d.shown[s], Esc(d.left, s))
  <2>1. d.form[s] = Route!ShownHop(d.work[s])
    BY <1>1, <1>2
  <2>2. HopOk(d.work[s], Route!ShownHop(d.work[s]), Route!ShownHop(d.work[s]), {})
    BY ShownHopOk DEF Fresh
  <2> QED BY <1>3, <2>1, <2>2
<1>6. NewOk(hop, d.form[n + 1], d.shown[n + 1], Esc(d.left, n + 1), d.held)
  <2>1. d.form[n + 1] = [f \in Route!HopWidgets |-> 0]
    BY <1>1, <1>2
  <2>2. Drawn(Route!HopWidgets, d.form[n + 1])
    BY <2>1, ValuesAre DEF Drawn
  <2>3. {"family", "dev"} \subseteq Route!HopWidgets
    BY DEF Route!HopWidgets, Route!HopMenus
  <2> QED BY <2>1, <2>2, <2>3 DEF NewOk
<1>7. ASSUME NEW s \in 1 .. n + 1
      PROVE  SecOk(s, n, IF s =< n THEN d.work[s] ELSE hop, d.form[s], d.shown[s],
                   Esc(d.left, s), d.held)
  BY <1>1, <1>4, <1>5, <1>6 DEF SecOk
<1> QED BY <1>1, <1>2, <1>7 DEF RouteDlg

\* A record of the kernel, and the blank one, open a dialog.
LEMMA RouteIsFresh ==
  ASSUME NEW rec, IsRoute(rec)
  PROVE  Fresh(rec)
<1> DEFINE Sec(s) == IF s = 1 THEN Route!Main ELSE Route!Hop
<1>1. /\ Len(rec) \in Nat /\ Len(rec) > 0 /\ DOMAIN rec = 1 .. Len(rec)
      /\ rec = [s \in 1 .. Len(rec) |-> [f \in DOMAIN Sec(s) |-> rec[s][f]]]
  BY DEF IsRoute
<1>2. {"nexthop", "encap"} \subseteq DOMAIN Route!Hop
  BY Names DEF Route!HopWidgets
<1>3. Route!NoEncap.type = "none"
  BY DEF Route!NoEncap
<1>4. ASSUME NEW s \in 1 .. Len(rec)
      PROVE  /\ rec[s] \in [DOMAIN Sec(s) -> Attributes]
             /\ \A f \in DOMAIN Sec(s) \ {"enc", "family"} : rec[s][f] \in Values(f)
             /\ rec[s].family \in IF s > 1 /\ rec[s].rtvia = 0 THEN {Unset} ELSE Route!Families
             /\ rec[s].enc \in Route!Encs
             /\ IF rec[s].encap = 1 THEN Route!MadeEnc(rec[s].enc) = {rec[s].enc}
                ELSE rec[s].enc = Route!NoEncap
             /\ s > 1 => rec[s].nexthop = 1
  <2>1. rec[s] = [f \in DOMAIN Sec(s) |-> rec[s][f]]
    BY <1>1
  <2>2. DOMAIN rec[s] = DOMAIN Sec(s)
    BY <2>1
  <2>3. /\ \A f \in DOMAIN Sec(s) \ {"enc", "family"} : rec[s][f] \in Values(f)
        /\ rec[s].family \in IF s > 1 /\ rec[s].rtvia = 0 THEN {Unset} ELSE Route!Families
        /\ rec[s].enc \in Route!Encs
        /\ IF rec[s].encap = 1 THEN Route!MadeEnc(rec[s].enc) = {rec[s].enc}
           ELSE rec[s].enc = Route!NoEncap
        /\ s > 1 => rec[s].nexthop = 1
    BY <1>1, <2>2 DEF IsRoute
  <2>4. Route!Families \cup {Unset} \cup Route!Encs \subseteq Attributes
    BY DEF Attributes, Route!Families
  <2>5. \A f \in DOMAIN Sec(s) : rec[s][f] \in Attributes
    BY <2>3, <2>4, ValuesAre
  <2> QED BY <2>1, <2>3, <2>5
<1>0. rec \in Seq(RouteSecs)
  <2>1. \A s \in 1 .. Len(rec) : rec[s] \in RouteSecs
    BY <1>4 DEF RouteSecs
  <2> QED BY <1>1, <2>1
<1>5. MainTyped(rec[1])
  <2>1. 1 \in 1 .. Len(rec) /\ ~(1 > 1)
    BY <1>1
  <2>2. {"rtvia", "nhid"} \subseteq DOMAIN Route!Main
          /\ \A f \in Route!MainWidgets : f \in DOMAIN Route!Main /\ f # "enc"
    BY Names DEF Route!MainWidgets, Route!MainMenus
  <2>3. Values("rtvia") = Value /\ Values("nhid") = Value
    BY DEF Values, Checks, Route!Checks, Rule!Checks, Neigh!Checks
  <2>4. Route!Families \subseteq Values("family")
    BY ValuesAre DEF Route!Families
  <2> QED BY <1>4, <2>1, <2>2, <2>3, <2>4 DEF MainTyped
<1>6. ASSUME NEW s \in 2 .. Len(rec)
      PROVE  /\ HopTyped(rec[s]) /\ rec[s].nexthop = 1
             /\ rec[s].rtvia # 0 => rec[s].family # Unset
             /\ rec[s].encap = IF rec[s].enc.type = "none" THEN 0 ELSE 1
  <2>1. s \in 1 .. Len(rec) /\ s # 1 /\ s > 1
    BY <1>1
  <2>2. {"rtvia"} \subseteq DOMAIN Route!Hop
          /\ \A f \in Route!HopWidgets : f \in DOMAIN Route!Hop /\ f # "enc"
    BY Names DEF Route!HopWidgets, Route!HopMenus
  <2>3. Values("rtvia") = Value
    BY DEF Values, Checks, Route!Checks, Rule!Checks, Neigh!Checks
  <2>4. Route!Families \subseteq Values("family") /\ Unset \notin Route!Families
    BY ValuesAre DEF Route!Families
  <2>5. HopTyped(rec[s])
    BY <1>4, <2>1, <2>2, <2>3, <2>4 DEF HopTyped
  <2>6. rec[s].encap \in {0, 1}
    BY <1>2, <1>4, <2>1, ValuesAre
  <2>7. rec[s].encap = IF rec[s].enc.type = "none" THEN 0 ELSE 1
    <3>1. rec[s].encap = 1 => rec[s].enc.type # "none"
      BY <1>4, <2>1, MadeEncIs
    <3>2. rec[s].encap = 0 => rec[s].enc.type = "none"
      BY <1>3, <1>4, <2>1
    <3> QED BY <2>6, <3>1, <3>2
  <2> QED BY <1>4, <2>1, <2>4, <2>5, <2>7
<1> QED BY <1>0, <1>1, <1>5, <1>6 DEF Fresh


-----------------------------------------------------------------------------
(***************************************************************************)
(* One widget used.                                                        *)
(***************************************************************************)

\* Section s of a dialog and what is shown of it have become sec and form.
Touched(d, hop, e, hop2, s, sec, form) ==
  /\ DOMAIN e = Members
  /\ e.mode = d.mode /\ e.shown = d.shown /\ e.held = d.held
  /\ DOMAIN e.form = DOMAIN d.form
  /\ \A t \in DOMAIN d.form : e.form[t] = IF t = s THEN form ELSE d.form[t]
  /\ e.work \in {d.work, [d.work EXCEPT ![s] = sec]}
  /\ \A t \in DOMAIN d.work : e.work[t] = IF t = s THEN sec ELSE d.work[t]
  /\ hop2 = IF s \in DOMAIN d.work THEN hop ELSE sec

\* Menus left in the other sections are as they were.
LeftAlone(old, new, s) == \A t, f : t # s => (<< t, f >> \in old <=> << t, f >> \in new)

LEMMA RouteTouched ==
  ASSUME NEW d, NEW hop, NEW e, NEW hop2, NEW s, NEW sec, NEW form,
         RouteDlg(d, hop), s \in DOMAIN d.form, Touched(d, hop, e, hop2, s, sec, form),
         LeftAlone(d.left, e.left, s), sec \in RouteSecs,
         SecOk(s, Len(d.work), sec, form, d.shown[s], Esc(e.left, s), d.held)
  PROVE  RouteDlg(e, hop2)
<1> DEFINE n == Len(d.work)
<1>1. n \in Nat /\ n > 0 /\ DOMAIN d.work = 1 .. n /\ d.work \in Seq(RouteSecs)
        /\ DOMAIN d.form = 1 .. n + 1 /\ DOMAIN d.shown = DOMAIN d.form
  BY DEF RouteDlg
<1>2. e.work \in Seq(RouteSecs) /\ Len(e.work) = n
  <2>1. CASE s \in DOMAIN d.work
    BY <1>1, <2>1 DEF Touched
  <2>2. CASE s \notin DOMAIN d.work
    BY <1>1, <2>2 DEF Touched
  <2> QED BY <2>1, <2>2
<1>3. DOMAIN e.form = 1 .. n + 1 /\ e.shown = d.shown /\ e.held = d.held
        /\ e.form[s] = form /\ \A t \in (1 .. n + 1) \ {s} : e.form[t] = d.form[t]
  BY <1>1 DEF Touched
<1>4. ASSUME NEW t \in 1 .. n + 1
      PROVE  SecOk(t, n, IF t =< n THEN e.work[t] ELSE hop2, e.form[t], e.shown[t],
                   Esc(e.left, t), e.held)
  <2>1. t =< n <=> t \in DOMAIN d.work
    BY <1>1
  <2>2. CASE t = s
    <3>1. (IF t =< n THEN e.work[t] ELSE hop2) = sec
      BY <1>1, <2>1, <2>2 DEF Touched
    <3> QED BY <1>3, <2>2, <3>1
  <2>3. CASE t # s
    <3>1. (IF t =< n THEN e.work[t] ELSE hop2) = (IF t =< n THEN d.work[t] ELSE hop)
      <4>1. CASE t =< n
        BY <1>1, <2>1, <2>3, <4>1 DEF Touched
      <4>2. CASE ~(t =< n)
        <5>1. t = n + 1 /\ s =< n /\ s \in DOMAIN d.work
          BY <1>1, <2>3, <4>2
        <5> QED BY <4>2, <5>1 DEF Touched
      <4> QED BY <4>1, <4>2
    <3>2. Esc(e.left, t) = Esc(d.left, t)
      BY <2>3 DEF LeftAlone, Esc, EscOf
    <3>3. SecOk(t, n, IF t =< n THEN d.work[t] ELSE hop, d.form[t], d.shown[t],
                Esc(d.left, t), d.held)
      BY DEF RouteDlg
    <3> QED BY <1>3, <2>3, <3>1, <3>2, <3>3
  <2> QED BY <2>2, <2>3
<1> QED BY <1>1, <1>2, <1>3, <1>4 DEF RouteDlg

\* Another value of an attribute, and of a widget.
LEMMA WithField ==
  ASSUME NEW D, NEW sec \in [D -> Attributes], NEW f \in D, NEW x \in Attributes
  PROVE  /\ [sec EXCEPT ![f] = x] \in [D -> Attributes]
         /\ \A g \in D : [sec EXCEPT ![f] = x][g] = IF g = f THEN x ELSE sec[g]
OBVIOUS

LEMMA WithWidget ==
  ASSUME NEW widgets, NEW form, Drawn(widgets, form), NEW f \in widgets, NEW v \in Values(f)
  PROVE  /\ Drawn(widgets, [form EXCEPT ![f] = v])
         /\ \A g \in widgets : [form EXCEPT ![f] = v][g] = IF g = f THEN v ELSE form[g]
BY DEF Drawn

MainMore == {"gateway", "dev"} \cup Route!MainMenus

\* The names that the invariant mentions.
LEMMA MoreNames ==
  /\ {"family", "scope", "dev", "table", "type", "proto", "pref"} = Route!MainMenus
  /\ Route!MainMenus \subseteq Route!MainWidgets /\ {"gateway", "encap"} \subseteq Route!MainWidgets
  /\ Route!HopMenus = {"family", "dev"}
  /\ {"family", "dev", "nexthop", "gateway", "weight", "encap", "onlink"} \subseteq Route!HopWidgets
  /\ "rtvia" \notin Route!MainWidgets \cup Route!HopWidgets
  /\ "enc" \notin Route!MainWidgets \cup Route!HopWidgets
  /\ "gateway" \notin Route!MainMenus /\ "encap" \notin Route!MainMenus
  /\ "nhid" \notin Route!MainWidgets
BY DEF Route!MainMenus, Route!MainWidgets, Route!HopMenus, Route!HopWidgets

LEMMA TypeSec ==
  ASSUME NEW s, NEW n \in Nat \ {0}, NEW sec, NEW form, NEW shown, NEW esc, NEW held,
         SecOk(s, n, sec, form, shown, esc, held), s \in 1 .. n + 1,
         NEW f \in IF s = 1 THEN Route!MainWidgets \ Route!MainMenus
                   ELSE Route!HopWidgets \ Route!HopMenus,
         NEW v \in Values(f)
  PROVE  SecOk(s, n, sec, [form EXCEPT ![f] = v], shown, esc, held)
<1> DEFINE form2 == [form EXCEPT ![f] = v]
<1>1. CASE s = 1
  <2>2. ASSUME MainOk(sec, form, shown, esc)
        PROVE  MainOk(sec, form2, shown, esc)
    <3>1. Drawn(Route!MainWidgets, form2)
            /\ \A g \in Route!MainWidgets : form2[g] = IF g = f THEN v ELSE form[g]
      BY <1>1, <2>2, WithWidget DEF MainOk
    <3>2. \A g \in Route!MainMenus \ {"dev"} : form2[g] = form[g]
      BY <1>1, <3>1, MoreNames
    <3> HIDE DEF form2
    <3> QED BY <2>2, <3>1, <3>2 DEF MainOk
  <2> QED BY <1>1, <2>2 DEF SecOk
<1>2. CASE s # 1
  <2>0. ASSUME Drawn(Route!HopWidgets, form)
        PROVE  Drawn(Route!HopWidgets, form2) /\ form2.dev = form.dev
                 /\ form2.family = form.family
    BY <1>2, <2>0, WithWidget, MoreNames
  <2>1. ASSUME HopOk(sec, form, shown, esc)
        PROVE  HopOk(sec, form2, shown, esc)
    <3>1. Drawn(Route!HopWidgets, form2) /\ form2.dev = form.dev /\ form2.family = form.family
      BY <2>0, <2>1 DEF HopOk
    <3> HIDE DEF form2
    <3> QED BY <2>1, <3>1 DEF HopOk
  <2>2. ASSUME NewOk(sec, form, shown, esc, held)
        PROVE  NewOk(sec, form2, shown, esc, held)
    <3>1. Drawn(Route!HopWidgets, form2) /\ form2.dev = form.dev /\ form2.family = form.family
      BY <2>0, <2>2 DEF NewOk
    <3>2. /\ sec.dev = form.dev \/ "dev" \in esc \/ (form.dev = 0 /\ held.dev # 0)
          /\ sec.family = form.family \/ form.family = 0 \/ "family" \in esc
      BY <2>2 DEF NewOk
    <3> HIDE DEF form2
    <3> QED BY <2>2, <3>1, <3>2 DEF NewOk
  <2> QED BY <1>2, <2>1, <2>2 DEF SecOk
<1> QED BY <1>1, <1>2

\* A value chosen for a button.
LEMMA PickSec ==
  ASSUME NEW s, NEW n \in Nat \ {0}, NEW sec, NEW form, NEW shown, NEW esc, NEW held,
         SecOk(s, n, sec, form, shown, esc, held), s \in 1 .. n + 1,
         NEW f \in IF s = 1 THEN Route!MainMenus ELSE Route!HopMenus,
         NEW v \in Values(f)
  PROVE  SecOk(s, n, Route!Picked(sec, s, f, v), [form EXCEPT ![f] = v], shown,
               esc \ {f}, held)
<1> DEFINE form2 == [form EXCEPT ![f] = v]
           sec2  == Route!Picked(sec, s, f, v)
<1>0. v \in Attributes
  BY ValuesAre
<1>1. CASE s = 1
  <2>1. ASSUME MainOk(sec, form, shown, esc)
        PROVE  MainOk(sec2, form2, shown, esc \ {f})
    <3>0. f \in Route!MainWidgets /\ f # "gateway" /\ f # "rtvia" /\ f # "enc" /\ f # "nhid"
      BY <1>1, MoreNames
    <3>1. Drawn(Route!MainWidgets, form2)
            /\ \A g \in Route!MainWidgets : form2[g] = IF g = f THEN v ELSE form[g]
      BY <2>1, <3>0, WithWidget DEF MainOk
    <3>2. sec \in [DOMAIN Route!Main -> Attributes]
      BY <2>1 DEF MainOk, MainTyped
    <3>3. /\ sec2 \in [DOMAIN Route!Main -> Attributes]
          /\ \A g \in DOMAIN Route!Main :
               sec2[g] = IF g = f /\ f # "dev" THEN v ELSE sec[g]
      BY <1>0, <1>1, <3>0, <3>2, WithField, Names DEF Route!Picked
    <3> HIDE DEF form2, sec2
    <3>4. MainTyped(sec2)
      BY <2>1, <3>0, <3>3, Names DEF MainOk, MainTyped
    <3>5. Route!Via(sec2) = Route!Via(sec)
      BY <3>0, <3>3, Names, MoreNames DEF Route!Via
    <3>6. \A g \in ((Route!MainWidgets \ Route!MainMenus) \ {"gateway"}) \cup {"dev"} :
            sec2[g] = sec[g]
      BY <1>1, <3>3, Names, MoreNames
    <3>7. \A g \in Route!MainMenus \ {"dev"} :
            sec2[g] = form2[g] \/ g \in (esc \ {f}) \cap {"family", "scope"}
      BY <2>1, <3>1, <3>3, Names, MoreNames DEF MainOk
    <3> QED BY <2>1, <3>1, <3>4, <3>5, <3>6, <3>7 DEF MainOk
  <2> QED BY <1>1, <2>1 DEF SecOk
<1>2. CASE s # 1
  <2>0. f \in Route!HopWidgets /\ f \in {"family", "dev"}
    BY <1>2, MoreNames
  <2>1. ASSUME HopTyped(sec), Drawn(Route!HopWidgets, form)
        PROVE  /\ HopTyped(sec2) /\ Drawn(Route!HopWidgets, form2)
               /\ \A g \in {"family", "dev"} :
                    /\ form2[g] = IF g = f THEN v ELSE form[g]
                    /\ sec2[g] = IF g = f THEN v ELSE sec[g]
               /\ \A g \in {"nexthop", "rtvia", "gateway", "weight", "onlink", "enc", "encap"} :
                    sec2[g] = sec[g]
    <3>1. Drawn(Route!HopWidgets, form2)
            /\ \A g \in Route!HopWidgets : form2[g] = IF g = f THEN v ELSE form[g]
      BY <2>0, <2>1, WithWidget
    <3>2. sec \in [DOMAIN Route!Hop -> Attributes]
      BY <2>1 DEF HopTyped
    <3>3. /\ sec2 \in [DOMAIN Route!Hop -> Attributes]
          /\ \A g \in DOMAIN Route!Hop : sec2[g] = IF g = f THEN v ELSE sec[g]
      BY <1>0, <1>2, <2>0, <3>2, WithField, Names DEF Route!Picked
    <3> HIDE DEF form2, sec2
    <3>4. HopTyped(sec2)
      BY <2>0, <2>1, <3>3, Names, MoreNames DEF HopTyped
    <3> QED BY <2>0, <3>1, <3>3, <3>4, Names, MoreNames
  <2> HIDE DEF form2, sec2
  <2>2. ASSUME HopOk(sec, form, shown, esc)
        PROVE  HopOk(sec2, form2, shown, esc \ {f})
    <3>1. HopTyped(sec) /\ Drawn(Route!HopWidgets, form)
      BY <2>2 DEF HopOk
    <3> QED BY <2>0, <2>1, <2>2, <3>1 DEF HopOk, Route!Via
  <2>3. ASSUME NewOk(sec, form, shown, esc, held)
        PROVE  NewOk(sec2, form2, shown, esc \ {f}, held)
    <3>1. HopTyped(sec) /\ Drawn(Route!HopWidgets, form)
      BY <2>3 DEF NewOk
    <3>2. \/ f = "dev" \/ sec.dev = form.dev \/ "dev" \in esc
          \/ (form.dev = 0 /\ held.dev # 0)
      BY <2>3 DEF NewOk
    <3> QED BY <2>0, <2>1, <2>3, <3>1, <3>2 DEF NewOk
  <2> QED BY <1>2, <2>2, <2>3 DEF SecOk, form2, sec2
<1> QED BY <1>1, <1>2

\* A menu left with Esc.
LEMMA LeaveSec ==
  ASSUME NEW s, NEW n \in Nat \ {0}, NEW sec, NEW form, NEW shown, NEW esc, NEW held,
         SecOk(s, n, sec, form, shown, esc, held), s \in 1 .. n + 1,
         NEW f \in IF s = 1 THEN Route!MainMenus ELSE Route!HopMenus,
         NEW sec2 \in Route!Left(sec, s, f, form[f])
  PROVE  SecOk(s, n, sec2, form, shown, esc \cup {f}, held)
<1>0. {0, 1} \subseteq Values(f) /\ Values(f) \subseteq Attributes
  BY ValuesAre
<1>1. CASE s = 1
  <2>1. ASSUME MainOk(sec, form, shown, esc)
        PROVE  MainOk(sec2, form, shown, esc \cup {f})
    <3>0. f \in Route!MainWidgets /\ f # "gateway" /\ f # "rtvia" /\ f # "enc" /\ f # "nhid"
      BY <1>1, MoreNames
    <3>1. form[f] \in Values(f)
      BY <2>1, <3>0 DEF MainOk, Drawn
    <3>2. sec2 = sec \/ (f \in {"family", "scope"} /\ \E x \in Values(f) : sec2 = [sec EXCEPT ![f] = x])
      BY <1>0, <1>1, <3>1 DEF Route!Left, Route!Global
    <3>3. CASE sec2 = sec
      BY <2>1, <3>3 DEF MainOk
    <3>4. ASSUME f \in {"family", "scope"}, NEW x \in Values(f), sec2 = [sec EXCEPT ![f] = x]
          PROVE  MainOk(sec2, form, shown, esc \cup {f})
      <4>1. sec \in [DOMAIN Route!Main -> Attributes]
        BY <2>1 DEF MainOk, MainTyped
      <4>2. /\ sec2 \in [DOMAIN Route!Main -> Attributes]
            /\ \A g \in DOMAIN Route!Main : sec2[g] = IF g = f THEN x ELSE sec[g]
        BY <1>0, <3>0, <3>4, <4>1, WithField, Names
      <4>3. MainTyped(sec2)
        BY <2>1, <3>0, <4>2, Names DEF MainOk, MainTyped
      <4>4. Route!Via(sec2) = Route!Via(sec)
        BY <3>0, <4>2, Names, MoreNames DEF Route!Via
      <4>5. \A g \in ((Route!MainWidgets \ Route!MainMenus) \ {"gateway"}) \cup {"dev"} :
              sec2[g] = sec[g]
        BY <1>1, <3>4, <4>2, Names, MoreNames
      <4>6. \A g \in Route!MainMenus \ {"dev"} :
              sec2[g] = form[g] \/ g \in (esc \cup {f}) \cap {"family", "scope"}
        BY <2>1, <3>4, <4>2, Names, MoreNames DEF MainOk
      <4> QED BY <2>1, <4>3, <4>4, <4>5, <4>6 DEF MainOk
    <3> QED BY <3>2, <3>3, <3>4
  <2> QED BY <1>1, <2>1 DEF SecOk
<1>2. CASE s # 1
  <2>0. f \in Route!HopWidgets
    BY <1>2, MoreNames
  <2>1. sec2 = [sec EXCEPT ![f] = 0]
    BY <1>2, MoreNames DEF Route!Left
  <2>2. ASSUME HopTyped(sec)
        PROVE  /\ HopTyped(sec2) /\ sec2[f] = 0
               /\ \A g \in {"family", "dev"} \ {f} : sec2[g] = sec[g]
               /\ \A g \in {"nexthop", "rtvia", "gateway", "weight", "onlink", "enc", "encap"} :
                    sec2[g] = sec[g]
    <3>1. sec \in [DOMAIN Route!Hop -> Attributes]
      BY <2>2 DEF HopTyped
    <3>2. /\ sec2 \in [DOMAIN Route!Hop -> Attributes]
          /\ \A g \in DOMAIN Route!Hop : sec2[g] = IF g = f THEN 0 ELSE sec[g]
      BY <1>0, <2>0, <2>1, <3>1, WithField, Names
    <3>3. HopTyped(sec2)
      BY <1>0, <2>0, <2>2, <3>2, Names, MoreNames DEF HopTyped
    <3> QED BY <1>2, <2>0, <3>2, <3>3, Names, MoreNames
  <2>3. f \in {"family", "dev"}
    BY <1>2, MoreNames
  <2>4. ASSUME HopOk(sec, form, shown, esc)
        PROVE  HopOk(sec2, form, shown, esc \cup {f})
    <3>1. HopTyped(sec)
      BY <2>4 DEF HopOk
    <3> QED BY <2>2, <2>3, <2>4, <3>1 DEF HopOk, Route!Via
  <2>5. ASSUME NewOk(sec, form, shown, esc, held)
        PROVE  NewOk(sec2, form, shown, esc \cup {f}, held)
    <3>1. HopTyped(sec)
      BY <2>5 DEF NewOk
    <3> QED BY <2>2, <2>3, <2>5, <3>1 DEF NewOk
  <2> QED BY <1>2, <2>4, <2>5 DEF SecOk
<1> QED BY <1>1, <1>2

\* SelectEncap came back.
LEMMA EncapSec ==
  ASSUME NEW s, NEW n \in Nat \ {0}, NEW sec, NEW form, NEW shown, NEW esc, NEW held,
         SecOk(s, n, sec, form, shown, esc, held), s \in 1 .. n + 1, NEW enc \in Route!Encs
  PROVE  SecOk(s, n, Route!Encapsulated(sec, s, enc), form, shown, esc, held)
<1> DEFINE sec2 == Route!Encapsulated(sec, s, enc)
<1>0. enc \in Attributes /\ {0, 1} \subseteq Attributes
  BY ValuesAre DEF Attributes
<1>1. CASE s = 1
  <2>1. ASSUME MainOk(sec, form, shown, esc)
        PROVE  MainOk(sec2, form, shown, esc)
    <3>1. sec \in [DOMAIN Route!Main -> Attributes]
      BY <2>1 DEF MainOk, MainTyped
    <3>2. /\ sec2 \in [DOMAIN Route!Main -> Attributes]
          /\ \A g \in DOMAIN Route!Main : sec2[g] = IF g = "enc" THEN enc ELSE sec[g]
      BY <1>0, <1>1, <3>1, WithField, Names DEF Route!Encapsulated
    <3> HIDE DEF sec2
    <3>3. MainTyped(sec2)
      BY <2>1, <3>2, Names, MoreNames DEF MainOk, MainTyped
    <3>4. Route!Via(sec2) = Route!Via(sec)
      BY <3>2, Names, MoreNames DEF Route!Via
    <3> QED BY <2>1, <3>2, <3>3, <3>4, Names, MoreNames DEF MainOk
  <2> QED BY <1>1, <2>1 DEF SecOk
<1>2. CASE s # 1
  <2>1. ASSUME HopTyped(sec)
        PROVE  /\ HopTyped(sec2)
               /\ sec2.encap = IF sec2.enc.type = "none" THEN 0 ELSE 1
               /\ \A g \in {"nexthop", "rtvia", "gateway", "weight", "onlink", "family", "dev"} :
                    sec2[g] = sec[g]
    <3>1. sec \in [DOMAIN Route!Hop -> Attributes]
      BY <2>1 DEF HopTyped
    <3> DEFINE bit == IF enc.type = "none" THEN 0 ELSE 1
    <3>2. bit \in {0, 1} /\ Values("encap") = {0, 1}
      BY ValuesAre
    <3>3. sec2 = [sec EXCEPT !.enc = enc, !.encap = bit]
      BY <1>2 DEF Route!Encapsulated
    <3>4. /\ sec2 \in [DOMAIN Route!Hop -> Attributes]
          /\ \A g \in DOMAIN Route!Hop :
               sec2[g] = IF g = "enc" THEN enc ELSE IF g = "encap" THEN bit ELSE sec[g]
      <4> HIDE DEF bit, sec2
      <4> QED BY <1>0, <3>1, <3>2, <3>3, Names, MoreNames
    <3>5. HopTyped(sec2)
      <4> HIDE DEF bit, sec2
      <4> QED BY <2>1, <3>2, <3>4, Names, MoreNames DEF HopTyped
    <3> QED BY <3>4, <3>5, Names, MoreNames
  <2> HIDE DEF sec2
  <2>2. ASSUME HopOk(sec, form, shown, esc)
        PROVE  HopOk(sec2, form, shown, esc)
    <3>1. HopTyped(sec)
      BY <2>2 DEF HopOk
    <3> QED BY <2>1, <2>2, <3>1 DEF HopOk, Route!Via
  <2>3. ASSUME NewOk(sec, form, shown, esc, held)
        PROVE  NewOk(sec2, form, shown, esc, held)
    <3>1. HopTyped(sec)
      BY <2>3 DEF NewOk
    <3> QED BY <2>1, <2>3, <3>1 DEF NewOk
  <2> QED BY <1>2, <2>2, <2>3 DEF SecOk, sec2
<1> QED BY <1>1, <1>2

\* Sections stay what the working copy can hold.
LEMMA SecIn ==
  ASSUME NEW s, NEW n \in Nat \ {0}, NEW sec, NEW form, NEW shown, NEW esc, NEW held,
         SecOk(s, n, sec, form, shown, esc, held), s \in 1 .. n + 1
  PROVE  /\ sec \in RouteSecs /\ sec.enc \in Route!Encs
         /\ s = 1 => MainTyped(sec)
         /\ s # 1 => HopTyped(sec)
<1>1. s = 1 \/ s \in 2 .. n \/ s = n + 1
  OBVIOUS
<1>2. s # 1 => HopTyped(sec)
  BY <1>1 DEF SecOk, HopOk, NewOk
<1>3. s = 1 => MainTyped(sec)
  BY DEF SecOk, MainOk
<1> QED BY <1>2, <1>3 DEF MainTyped, HopTyped, RouteSecs

-----------------------------------------------------------------------------
(***************************************************************************)
(* The steps in an open dialog, for every kind.                            *)
(***************************************************************************)

\* What SetSection writes.
LEMMA SetSectionIs ==
  ASSUME NEW s, NEW sec, NEW more, NEW form, SetSection(s, sec, more),
         DOMAIN more = Members, more.mode = dlg.mode, more.shown = dlg.shown,
         more.held = dlg.held, more.work = dlg.work, DOMAIN more.form = DOMAIN dlg.form,
         \A t \in DOMAIN dlg.form : more.form[t] = IF t = s THEN form ELSE dlg.form[t]
  PROVE  /\ Touched(dlg, new_nh, dlg', new_nh', s, sec, form)
         /\ dlg'.left = more.left /\ dlg'.encs = more.encs /\ dlg'.change = more.change
<1>1. CASE s \in DOMAIN dlg.work
  <2>1. dlg' = [more EXCEPT !.work[s] = sec] /\ new_nh' = new_nh
    BY <1>1 DEF SetSection
  <2>2. /\ DOMAIN dlg' = Members
        /\ dlg'.work = [more.work EXCEPT ![s] = sec]
        /\ \A m \in Members \ {"work"} : dlg'[m] = more[m]
    BY <2>1 DEF Members
  <2>3. /\ dlg'.mode = more.mode /\ dlg'.shown = more.shown /\ dlg'.held = more.held
        /\ dlg'.form = more.form /\ dlg'.left = more.left /\ dlg'.encs = more.encs
        /\ dlg'.change = more.change
    BY <2>2 DEF Members
  <2> QED BY <1>1, <2>1, <2>2, <2>3 DEF Touched
<1>2. CASE s \notin DOMAIN dlg.work
  <2>1. dlg' = more /\ new_nh' = sec
    BY <1>2 DEF SetSection
  <2> QED BY <1>2, <2>1 DEF Touched
<1> QED BY <1>1, <1>2

LEMMA TypeStep ==
  ASSUME DOMAIN dlg = Members, NEW s, NEW f, NEW v, Type(s, f, v)
  PROVE  /\ Touched(dlg, new_nh, dlg', new_nh', s, Section(s), Typed(dlg.form[s], f, v))
         /\ dlg'.left = dlg.left /\ dlg'.encs = dlg.encs /\ dlg'.change = dlg.change
<1> DEFINE form == Typed(dlg.form[s], f, v)
<1>1. s \in DOMAIN dlg.form /\ new_nh' = new_nh
        /\ dlg' = [dlg EXCEPT !.form[s] = form]
  BY DEF Type, Touch, Typed
<1> HIDE DEF form
<1>2. /\ DOMAIN dlg' = Members
      /\ dlg'.form = [dlg.form EXCEPT ![s] = form]
      /\ \A m \in Members \ {"form"} : dlg'[m] = dlg[m]
  BY <1>1 DEF Members
<1>3. /\ dlg'.mode = dlg.mode /\ dlg'.shown = dlg.shown /\ dlg'.held = dlg.held
      /\ dlg'.work = dlg.work /\ dlg'.left = dlg.left /\ dlg'.encs = dlg.encs
      /\ dlg'.change = dlg.change
  BY <1>2 DEF Members
<1> QED BY <1>1, <1>2, <1>3 DEF Touched, Section, form

LEMMA PickStep ==
  ASSUME DOMAIN dlg = Members, NEW s, NEW f, NEW v, Pick(s, f, v)
  PROVE  /\ Touched(dlg, new_nh, dlg', new_nh', s, Picked(Section(s), s, f, v),
                    [dlg.form[s] EXCEPT ![f] = v])
         /\ dlg'.left = dlg.left \ {<< s, f >>}
         /\ dlg'.encs = dlg.encs /\ dlg'.change = dlg.change
<1> DEFINE form == [dlg.form[s] EXCEPT ![f] = v]
           left == dlg.left \ {<< s, f >>}
           more == [dlg EXCEPT !.form[s][f] = v, !.left = @ \ {<< s, f >>}]
           sec  == Picked(Section(s), s, f, v)
<1>1. s \in DOMAIN dlg.form /\ SetSection(s, sec, more)
  BY DEF Pick, Touch
<1>2. more = [dlg EXCEPT !.form = [dlg.form EXCEPT ![s] = form], !.left = left]
  BY DEF Members
<1> HIDE DEF more, form, left, sec
<1>3. /\ DOMAIN more = Members
      /\ more.form = [dlg.form EXCEPT ![s] = form] /\ more.left = left
      /\ \A m \in Members \ {"form", "left"} : more[m] = dlg[m]
  BY <1>2 DEF Members
<1>4. /\ more.mode = dlg.mode /\ more.shown = dlg.shown /\ more.held = dlg.held
      /\ more.work = dlg.work /\ more.encs = dlg.encs /\ more.change = dlg.change
  BY <1>3 DEF Members
<1>5. /\ DOMAIN more.form = DOMAIN dlg.form
      /\ \A t \in DOMAIN dlg.form : more.form[t] = IF t = s THEN form ELSE dlg.form[t]
  BY <1>1, <1>3
<1>6. /\ Touched(dlg, new_nh, dlg', new_nh', s, sec, form)
      /\ dlg'.left = left /\ dlg'.encs = dlg.encs /\ dlg'.change = dlg.change
  BY <1>1, <1>3, <1>4, <1>5, SetSectionIs
<1> QED BY <1>6 DEF form, left, sec

LEMMA LeaveStep ==
  ASSUME DOMAIN dlg = Members, NEW s, NEW f, Leave(s, f)
  PROVE  \E sec \in Left(Section(s), s, f, dlg.form[s][f]) :
           /\ Touched(dlg, new_nh, dlg', new_nh', s, sec, dlg.form[s])
           /\ dlg'.left = dlg.left \cup {<< s, f >>}
           /\ dlg'.encs = dlg.encs /\ dlg'.change = dlg.change
<1> DEFINE left == dlg.left \cup {<< s, f >>}
           more == [dlg EXCEPT !.left = left]
<1>1. PICK sec \in Left(Section(s), s, f, dlg.form[s][f]) : SetSection(s, sec, more)
  BY DEF Leave
<1> HIDE DEF left
<1>2. /\ DOMAIN more = Members /\ more.left = left
      /\ more.form = dlg.form
      /\ more.mode = dlg.mode /\ more.shown = dlg.shown /\ more.held = dlg.held
      /\ more.work = dlg.work /\ more.encs = dlg.encs /\ more.change = dlg.change
  BY DEF Members
<1> HIDE DEF more
<1>3. /\ Touched(dlg, new_nh, dlg', new_nh', s, sec, dlg.form[s])
      /\ dlg'.left = left /\ dlg'.encs = dlg.encs /\ dlg'.change = dlg.change
  BY <1>1, <1>2, SetSectionIs
<1> QED BY <1>1, <1>3 DEF left

\* An encapsulation that was looked at, and one that was changed.
EncapChange(old, new, e) ==
  \/ new = old /\ e.encs = dlg.encs /\ e.change = dlg.change
  \/ /\ e.change = TRUE
     /\ \E type \in Route!EncTypes :
          \E f \in Route!WidgetsOf(type) \cup {"id"}, v \in Value :
            /\ f \notin Route!WidgetsOf(type) => v = Route!ShownEnc(old)[f]
            /\ v = Route!ShownEnc(old)[f] => type # old.type /\ f = "id"
            /\ new = Route!FilledEnc(old, type, f, v)
            /\ e.encs = {[old |-> old, new |-> new, f |-> f, v |-> v]}

LEMMA EncapStep ==
  ASSUME DOMAIN dlg = Members, NEW s, Encap(s)
  PROVE  \E new :
           /\ Touched(dlg, new_nh, dlg', new_nh', s,
                      Route!Encapsulated(Section(s), s, new), dlg.form[s])
           /\ dlg'.left = dlg.left
           /\ EncapChange(Section(s).enc, new, dlg')
<1> DEFINE old == Section(s).enc
<1>0. s \in DOMAIN dlg.form
  BY Zenon DEF Encap, Touch
<1>1. CASE SetSection(s, Route!Encapsulated(Section(s), s, old), dlg)
  <2>1. /\ Touched(dlg, new_nh, dlg', new_nh', s,
                   Route!Encapsulated(Section(s), s, old), dlg.form[s])
        /\ dlg'.left = dlg.left /\ dlg'.encs = dlg.encs /\ dlg'.change = dlg.change
    BY <1>0, <1>1, SetSectionIs
  <2> QED BY <2>1 DEF EncapChange
<1>2. CASE ~SetSection(s, Route!Encapsulated(Section(s), s, old), dlg)
  <2>1. PICK type \in Route!EncTypes :
          \E f \in Route!WidgetsOf(type) \cup {"id"}, v \in Value :
            LET text == Route!ShownEnc(old)[f]
                new  == Route!FilledEnc(old, type, f, v)
            IN  /\ f \notin Route!WidgetsOf(type) => v = text
                /\ v = text => type # old.type /\ f = "id"
                /\ SetSection(s, Route!Encapsulated(Section(s), s, new),
                              [dlg EXCEPT !.change = TRUE,
                                          !.encs = {[old |-> old, new |-> new,
                                                     f |-> f, v |-> v]}])
    BY <1>2, Zenon DEF Encap
  <2>2. PICK f \in Route!WidgetsOf(type) \cup {"id"}, v \in Value :
            LET text == Route!ShownEnc(old)[f]
                new  == Route!FilledEnc(old, type, f, v)
            IN  /\ f \notin Route!WidgetsOf(type) => v = text
                /\ v = text => type # old.type /\ f = "id"
                /\ SetSection(s, Route!Encapsulated(Section(s), s, new),
                              [dlg EXCEPT !.change = TRUE,
                                          !.encs = {[old |-> old, new |-> new,
                                                     f |-> f, v |-> v]}])
    BY <2>1, Zenon
  <2> DEFINE new == Route!FilledEnc(old, type, f, v)
             e == [old |-> old, new |-> new, f |-> f, v |-> v]
             more == [dlg EXCEPT !.change = TRUE, !.encs = {e}]
  <2>3. SetSection(s, Route!Encapsulated(Section(s), s, new), more)
    BY <2>2
  <2>4. /\ f \notin Route!WidgetsOf(type) => v = Route!ShownEnc(old)[f]
        /\ v = Route!ShownEnc(old)[f] => type # old.type /\ f = "id"
    BY <2>2
  <2> HIDE DEF e, new, old
  <2>5. /\ DOMAIN more = Members /\ more.left = dlg.left /\ more.form = dlg.form
        /\ more.mode = dlg.mode /\ more.shown = dlg.shown /\ more.held = dlg.held
        /\ more.work = dlg.work /\ more.encs = {e} /\ more.change = TRUE
    BY DEF Members
  <2> HIDE DEF more
  <2>6. /\ Touched(dlg, new_nh, dlg', new_nh', s,
                   Route!Encapsulated(Section(s), s, new), dlg.form[s])
        /\ dlg'.left = dlg.left /\ dlg'.encs = {e} /\ dlg'.change = TRUE
    BY <1>0, <2>3, <2>5, SetSectionIs
  <2>7. EncapChange(old, new, dlg')
    BY <2>4, <2>6 DEF EncapChange, e, new
  <2> QED BY <2>6, <2>7 DEF old
<1> QED BY <1>1, <1>2

-----------------------------------------------------------------------------
(***************************************************************************)
(* The steps in a route's dialog.                                          *)
(***************************************************************************)

\* The section under the cursor.
LEMMA SectionOk ==
  ASSUME RouteDlg(dlg, new_nh), NEW s \in DOMAIN dlg.form
  PROVE  /\ Len(dlg.work) \in Nat \ {0} /\ s \in 1 .. Len(dlg.work) + 1
         /\ DOMAIN dlg.work = 1 .. Len(dlg.work)
         /\ SecOk(s, Len(dlg.work), Section(s), dlg.form[s], dlg.shown[s],
                  Esc(dlg.left, s), dlg.held)
<1>1. /\ Len(dlg.work) \in Nat \ {0} /\ s \in 1 .. Len(dlg.work) + 1
      /\ DOMAIN dlg.work = 1 .. Len(dlg.work)
  BY DEF RouteDlg
<1>2. Section(s) = IF s =< Len(dlg.work) THEN dlg.work[s] ELSE new_nh
  BY <1>1 DEF Section
<1>3. SecOk(s, Len(dlg.work), IF s =< Len(dlg.work) THEN dlg.work[s] ELSE new_nh,
            dlg.form[s], dlg.shown[s], Esc(dlg.left, s), dlg.held)
  BY <1>1 DEF RouteDlg
<1> QED BY <1>1, <1>2, <1>3

\* What a section that was touched keeps of the one it was.
Keeps(s, old, new) ==
  /\ s = 1 => new.nhid = old.nhid
  /\ s # 1 => new.nexthop = old.nexthop

LEMMA PickKeeps ==
  ASSUME NEW s, NEW sec, s = 1 => MainTyped(sec), s # 1 => HopTyped(sec),
         NEW f \in IF s = 1 THEN Route!MainMenus ELSE Route!HopMenus, NEW v
  PROVE  /\ Keeps(s, sec, Route!Picked(sec, s, f, v))
         /\ Route!Picked(sec, s, f, v).enc = sec.enc
<1>1. f # "enc" /\ f # "nhid" /\ f # "nexthop"
  BY DEF Route!MainMenus, Route!HopMenus
<1>2. /\ \E D : sec \in [D -> Attributes] /\ "enc" \in D
      /\ Route!Picked(sec, s, f, v) = sec \/ Route!Picked(sec, s, f, v) = [sec EXCEPT ![f] = v]
  BY Names DEF MainTyped, HopTyped, Route!Picked
<1>3. (s = 1 => "nhid" \in DOMAIN sec) /\ (s # 1 => "nexthop" \in DOMAIN sec) /\ "enc" \in DOMAIN sec
  BY Names, MoreNames DEF MainTyped, HopTyped
<1> QED BY <1>1, <1>2, <1>3 DEF Keeps

LEMMA LeaveKeeps ==
  ASSUME NEW s, NEW sec, s = 1 => MainTyped(sec), s # 1 => HopTyped(sec),
         NEW f \in IF s = 1 THEN Route!MainMenus ELSE Route!HopMenus, NEW text,
         NEW new \in Route!Left(sec, s, f, text)
  PROVE  Keeps(s, sec, new) /\ new.enc = sec.enc
<1>1. f # "enc" /\ f # "nhid" /\ f # "nexthop"
  BY DEF Route!MainMenus, Route!HopMenus
<1>2. new = sec \/ \E x : new = [sec EXCEPT ![f] = x]
  BY DEF Route!Left
<1>3. (s = 1 => "nhid" \in DOMAIN sec) /\ (s # 1 => "nexthop" \in DOMAIN sec) /\ "enc" \in DOMAIN sec
  BY Names, MoreNames DEF MainTyped, HopTyped
<1> QED BY <1>1, <1>2, <1>3 DEF Keeps

\* What follows of a section that is in order again.
LEMMA RouteAgain ==
  ASSUME Dialog("route", dlg, new_nh, kernel), NEW s \in DOMAIN dlg.form, NEW sec, NEW form,
         Touched(dlg, new_nh, dlg', new_nh', s, sec, form),
         LeftAlone(dlg.left, dlg'.left, s),
         SecOk(s, Len(dlg.work), sec, form, dlg.shown[s], Esc(dlg'.left, s), dlg.held),
         Keeps(s, Section(s), sec),
         dlg'.encs = {} => dlg.encs = {} /\ sec.enc = Section(s).enc,
         dlg'.change \in BOOLEAN, dlg'.change => dlg'.encs # {}, HopTyped(new_nh)
  PROVE  /\ Dialog("route", dlg', new_nh', kernel)
         /\ HopTyped(new_nh') /\ new_nh'.nexthop = new_nh.nexthop
<1> DEFINE n == Len(dlg.work)
<1>1. RouteDlg(dlg, new_nh)
  BY DEF Dialog
<1>2. /\ n \in Nat \ {0} /\ s \in 1 .. n + 1 /\ DOMAIN dlg.work = 1 .. n
      /\ sec \in RouteSecs /\ sec.enc \in Route!Encs
      /\ s = 1 => MainTyped(sec)
      /\ s # 1 => HopTyped(sec)
  BY <1>1, SectionOk, SecIn
<1>3. RouteDlg(dlg', new_nh')
  BY <1>1, <1>2, RouteTouched
<1>4. /\ s = 1 => sec.nhid = Section(s).nhid
      /\ s # 1 => sec.nexthop = Section(s).nexthop
  BY DEF Keeps
<1>5. HopTyped(new_nh') /\ new_nh'.nexthop = new_nh.nexthop
  <2>1. CASE s \in DOMAIN dlg.work
    BY <2>1 DEF Touched
  <2>2. CASE s \notin DOMAIN dlg.work
    <3>1. new_nh' = sec /\ s # 1 /\ Section(s) = new_nh
      BY <1>2, <2>2 DEF Touched, Section
    <3> QED BY <1>2, <1>4, <3>1
  <2> QED BY <2>1, <2>2
<1>6. dlg'.mode = dlg.mode /\ DOMAIN dlg' = Members
  BY DEF Touched
<1>7. ASSUME dlg.mode = "edit"
      PROVE  RouteKept(dlg', kernel)
  <2>1. 1 \in DOMAIN dlg.work /\ (s = 1 => Section(s) = dlg.work[1])
    BY <1>2 DEF Section
  <2>2. dlg'.work[1] = IF s = 1 THEN sec ELSE dlg.work[1]
    BY <2>1 DEF Touched
  <2>3. RouteKept(dlg, kernel)
    BY <1>7 DEF Dialog
  <2> QED BY <1>4, <2>1, <2>2, <2>3 DEF RouteKept
<1> QED BY <1>3, <1>5, <1>6, <1>7 DEF Dialog

\* A widget used in section s of a dialog.
Used(s) ==
  \/ Encap(s)
  \/ \E f \in Menus(s) : Leave(s, f) \/ \E v \in Values(f) : Pick(s, f, v)
  \/ \E f \in Widgets(s) \ Menus(s) : \E v \in Values(f) : Type(s, f, v)

\* EncapAsShown of the changes of one dialog.
EncsShown(encs) ==
  \A e \in encs, f \in Route!EncWidgets :
    \A rec \in Route!MadeEnc(e.new) :
      \/ e.new.type # e.old.type \/ Route!Foreign(e.old, f)
      \/ e.f = "mttl" \/ Route!ShownEnc(e.new)[f] = Unset
      \/ Route!ShownEnc(rec)[f] = IF e.f = f THEN e.v ELSE Route!ShownEnc(e.old)[f]

LEMMA EncapChangeIs ==
  ASSUME NEW old \in Route!Encs, NEW new, NEW e, EncapChange(old, new, e),
         EncsShown(dlg.encs), dlg.change \in BOOLEAN, dlg.change => dlg.encs # {}
  PROVE  /\ new \in Route!Encs
         /\ e.encs = {} => dlg.encs = {} /\ new = old
         /\ e.change \in BOOLEAN /\ (e.change => e.encs # {})
         /\ EncsShown(e.encs)
<1>1. CASE new = old /\ e.encs = dlg.encs /\ e.change = dlg.change
  BY <1>1
<1>2. ASSUME e.change = TRUE, NEW type \in Route!EncTypes,
             NEW f \in Route!WidgetsOf(type) \cup {"id"}, NEW v \in Value,
             f \notin Route!WidgetsOf(type) => v = Route!ShownEnc(old)[f],
             v = Route!ShownEnc(old)[f] => type # old.type /\ f = "id",
             new = Route!FilledEnc(old, type, f, v),
             e.encs = {[old |-> old, new |-> new, f |-> f, v |-> v]}
      PROVE  /\ new \in Route!Encs /\ e.encs # {} /\ e.change \in BOOLEAN
             /\ EncsShown(e.encs)
  <2>1. f \in Route!EncWidgets
    BY DEF Route!WidgetsOf, Route!EncWidgets, Route!IpFields, Route!MplsFields
  <2>2. new \in Route!Encs
    BY <1>2, <2>1, FilledEncType
  <2>3. ASSUME NEW g \in Route!EncWidgets, NEW rec \in Route!MadeEnc(new)
        PROVE  \/ new.type # old.type \/ Route!Foreign(old, g) \/ f = "mttl"
               \/ Route!ShownEnc(new)[g] = Unset
               \/ Route!ShownEnc(rec)[g] = IF f = g THEN v ELSE Route!ShownEnc(old)[g]
    BY <1>2, ChangeShown
  <2> DEFINE x == [old |-> old, new |-> new, f |-> f, v |-> v]
  <2>4. x.old = old /\ x.new = new /\ x.f = f /\ x.v = v /\ e.encs = {x}
    BY <1>2
  <2> HIDE DEF x
  <2>5. EncsShown(e.encs)
    BY <2>3, <2>4 DEF EncsShown
  <2> QED BY <1>2, <2>2, <2>5
<1> QED BY <1>1, <1>2 DEF EncapChange

LEMMA RouteStep ==
  ASSUME kind = "route", Dialog("route", dlg, new_nh, kernel), HopTyped(new_nh),
         EncsShown(dlg.encs), NEW s \in DOMAIN dlg.form, Used(s)
  PROVE  /\ Dialog("route", dlg', new_nh', kernel)
         /\ HopTyped(new_nh') /\ new_nh'.nexthop = new_nh.nexthop
         /\ EncsShown(dlg'.encs)
<1> DEFINE n == Len(dlg.work)
           sec == Section(s)
           form == dlg.form[s]
           shown == dlg.shown[s]
           esc == Esc(dlg.left, s)
<1>1. /\ DOMAIN dlg = Members /\ RouteDlg(dlg, new_nh)
      /\ dlg.change \in BOOLEAN /\ (dlg.change => dlg.encs # {})
  BY DEF Dialog
<1>2. /\ n \in Nat \ {0} /\ s \in 1 .. n + 1
      /\ SecOk(s, n, sec, form, shown, esc, dlg.held)
  BY <1>1, SectionOk
<1>3. /\ s = 1 => MainTyped(sec)
      /\ s # 1 => HopTyped(sec)
      /\ sec.enc \in Route!Encs
  BY <1>2, SecIn
<1>4. /\ Menus(s) = IF s = 1 THEN Route!MainMenus ELSE Route!HopMenus
      /\ Widgets(s) = IF s = 1 THEN Route!MainWidgets ELSE Route!HopWidgets
  BY DEF Menus, Widgets
<1>5. ASSUME Encap(s)
      PROVE  /\ Dialog("route", dlg', new_nh', kernel)
             /\ HopTyped(new_nh') /\ new_nh'.nexthop = new_nh.nexthop
             /\ EncsShown(dlg'.encs)
  <2>1. PICK new :
          /\ Touched(dlg, new_nh, dlg', new_nh', s, Route!Encapsulated(sec, s, new), form)
          /\ dlg'.left = dlg.left
          /\ EncapChange(sec.enc, new, dlg')
    BY <1>1, <1>5, EncapStep
  <2>2. /\ new \in Route!Encs
        /\ dlg'.encs = {} => dlg.encs = {} /\ new = sec.enc
        /\ dlg'.change \in BOOLEAN /\ (dlg'.change => dlg'.encs # {})
        /\ EncsShown(dlg'.encs)
    BY <1>1, <1>3, <2>1, EncapChangeIs
  <2> DEFINE sec2 == Route!Encapsulated(sec, s, new)
  <2>3. SecOk(s, n, sec2, form, shown, Esc(dlg'.left, s), dlg.held)
    BY <1>2, <2>1, <2>2, EncapSec
  <2>4. Keeps(s, sec, sec2) /\ sec2.enc = new
    BY <1>3, Names, MoreNames DEF Keeps, Route!Encapsulated, MainTyped, HopTyped
  <2>5. LeftAlone(dlg.left, dlg'.left, s)
    BY <2>1 DEF LeftAlone
  <2> HIDE DEF sec2
  <2>6. Touched(dlg, new_nh, dlg', new_nh', s, sec2, form)
    BY <2>1 DEF sec2
  <2> QED BY <2>2, <2>3, <2>4, <2>5, <2>6, RouteAgain
<1>6. ASSUME NEW f \in Menus(s), Leave(s, f)
      PROVE  /\ Dialog("route", dlg', new_nh', kernel)
             /\ HopTyped(new_nh') /\ new_nh'.nexthop = new_nh.nexthop
             /\ EncsShown(dlg'.encs)
  <2>1. PICK sec2 \in Route!Left(sec, s, f, form[f]) :
          /\ Touched(dlg, new_nh, dlg', new_nh', s, sec2, form)
          /\ dlg'.left = dlg.left \cup {<< s, f >>}
          /\ dlg'.encs = dlg.encs /\ dlg'.change = dlg.change
    BY <1>1, <1>6, LeaveStep DEF Left
  <2>2. Esc(dlg'.left, s) = esc \cup {f} /\ LeftAlone(dlg.left, dlg'.left, s)
    <3>1. f \in Route!MainWidgets \cup Route!HopWidgets
      BY <1>4, MoreNames
    <3> QED BY <2>1, <3>1 DEF Esc, EscOf, LeftAlone
  <2>3. SecOk(s, n, sec2, form, shown, Esc(dlg'.left, s), dlg.held)
    <3>1. SecOk(s, n, sec2, form, shown, esc \cup {f}, dlg.held)
      <4> HIDE DEF n, sec, form, shown, esc
      <4> QED BY <1>2, <1>4, <2>1, LeaveSec
    <3> QED BY <2>2, <3>1
  <2>4. Keeps(s, sec, sec2) /\ sec2.enc = sec.enc
    BY <1>3, <1>4, <2>1, LeaveKeeps
  <2> QED BY <1>1, <2>1, <2>2, <2>3, <2>4, RouteAgain
<1>7. ASSUME NEW f \in Menus(s), NEW v \in Values(f), Pick(s, f, v)
      PROVE  /\ Dialog("route", dlg', new_nh', kernel)
             /\ HopTyped(new_nh') /\ new_nh'.nexthop = new_nh.nexthop
             /\ EncsShown(dlg'.encs)
  <2> DEFINE sec2 == Route!Picked(sec, s, f, v)
             form2 == [form EXCEPT ![f] = v]
  <2>1. /\ Touched(dlg, new_nh, dlg', new_nh', s, sec2, form2)
        /\ dlg'.left = dlg.left \ {<< s, f >>}
        /\ dlg'.encs = dlg.encs /\ dlg'.change = dlg.change
    BY <1>1, <1>7, PickStep DEF Picked
  <2>2. Esc(dlg'.left, s) = esc \ {f} /\ LeftAlone(dlg.left, dlg'.left, s)
    <3>1. f \in Route!MainWidgets \cup Route!HopWidgets
      BY <1>4, MoreNames
    <3> QED BY <2>1, <3>1 DEF Esc, EscOf, LeftAlone
  <2>3. SecOk(s, n, sec2, form2, shown, Esc(dlg'.left, s), dlg.held)
    <3>1. SecOk(s, n, sec2, form2, shown, esc \ {f}, dlg.held)
      BY <1>2, <1>4, PickSec
    <3> QED BY <2>2, <3>1
  <2>4. Keeps(s, sec, sec2) /\ sec2.enc = sec.enc
    BY <1>3, <1>4, PickKeeps
  <2> HIDE DEF sec2, form2
  <2> QED BY <1>1, <2>1, <2>2, <2>3, <2>4, RouteAgain
<1>8. ASSUME NEW f \in Widgets(s) \ Menus(s), NEW v \in Values(f), Type(s, f, v)
      PROVE  /\ Dialog("route", dlg', new_nh', kernel)
             /\ HopTyped(new_nh') /\ new_nh'.nexthop = new_nh.nexthop
             /\ EncsShown(dlg'.encs)
  <2> DEFINE form2 == [form EXCEPT ![f] = v]
  <2>1. /\ Touched(dlg, new_nh, dlg', new_nh', s, sec, form2)
        /\ dlg'.left = dlg.left
        /\ dlg'.encs = dlg.encs /\ dlg'.change = dlg.change
    BY <1>1, <1>8, TypeStep DEF Typed
  <2>2. SecOk(s, n, sec, form2, shown, Esc(dlg'.left, s), dlg.held)
    BY <1>2, <1>4, <2>1, TypeSec
  <2>3. Keeps(s, sec, sec) /\ LeftAlone(dlg.left, dlg'.left, s)
    BY <2>1 DEF Keeps, LeftAlone
  <2> HIDE DEF form2
  <2> QED BY <1>1, <2>1, <2>2, <2>3, RouteAgain
<1> QED BY <1>5, <1>6, <1>7, <1>8 DEF Used

-----------------------------------------------------------------------------
(***************************************************************************)
(* A rule's dialog.                                                        *)
(***************************************************************************)

LEMMA RuleNames ==
  /\ Rule!Menus \subseteq Rule!Widgets /\ Rule!Begins \cup Rule!Ends \subseteq Rule!Widgets
  /\ {"fwmark", "fwmask", "goto", "table", "realms_to", "realms_from",
      "suppress_prefixlength", "suppress_ifgroup"} \subseteq Rule!Widgets
  /\ Rule!Menus = {"not", "iif", "oif", "ipproto", "table", "proto"}
  /\ "action" \notin Rule!Widgets
  /\ \A f \in Rule!Ends : Rule!BeginOf[f] \in Rule!Widgets \ (Rule!Menus \cup Rule!Ends \cup {"fwmark"})
  /\ (Rule!Ends \cup {"fwmark", "goto", "fwmask", "realms_to"}) \cap Rule!Menus = {}
BY DEF Rule!Menus, Rule!Widgets, Rule!Begins, Rule!Ends, Rule!BeginOf

LEMMA RuleValues ==
  /\ \A f \in Rule!Widgets \ {"not", "l3mdev"} : Values(f) = Value
  /\ \A f : {0, 1} \subseteq Values(f) /\ Unset \notin Values(f)
  /\ {0, 1} \subseteq Value
<1>1. \A f \in Rule!Widgets \ {"not", "l3mdev"} : f \notin Checks /\ f # "family"
  BY DEF Rule!Menus, Rule!Widgets, Rule!Begins, Rule!Ends,
         Checks, Route!Checks, Rule!Checks, Neigh!Checks
<1>2. Unset \notin Value \cup {0, 1, 2} /\ {0, 1} \subseteq Value
  BY ValuesAre
<1>3. \A f : Unset \notin Values(f)
  BY <1>2 DEF Values, Route!Families
<1> QED BY <1>1, <1>2, <1>3, ValuesAre DEF Values

\* The texts depend on what no button writes.
LEMMA RuleTexts ==
  ASSUME NEW sec, NEW sec2, \A f \in Rule!Widgets \ Rule!Menus : sec2[f] = sec[f]
  PROVE  \A f \in Rule!Widgets \ Rule!Menus : Rule!ShownIn(sec2, f) = Rule!ShownIn(sec, f)
BY RuleNames DEF Rule!ShownIn

LEMMA RuleOpens ==
  ASSUME NEW sec, DOMAIN sec = Rule!Widgets \cup {"action"},
         \A f \in Rule!Widgets :
           sec[f] \in Values(f) \cup IF f \in Rule!Ends \cup {"fwmark"} THEN {Unset} ELSE {},
         sec.action \in Rule!Actions \cup {Unset}, sec.action = "goto" => sec.goto # 0
  PROVE  RuleSec(sec, [f \in Rule!Widgets |-> Rule!ShownIn(sec, f)],
                 [f \in Rule!Widgets |-> Rule!ShownIn(sec, f)], {})
<1> DEFINE form == [f \in Rule!Widgets |-> Rule!ShownIn(sec, f)]
<1>1. \A f \in Rule!Widgets : form[f] = Rule!ShownIn(sec, f)
  OBVIOUS
<1>2. \A f \in Rule!Widgets : Rule!ShownIn(sec, f) \in Values(f)
  BY RuleValues DEF Rule!ShownIn
<1>3. Drawn(Rule!Widgets, form)
  BY <1>2 DEF Drawn
<1>4. \A f \in Rule!Menus : form[f] = sec[f]
  BY <1>1, RuleNames, RuleValues DEF Rule!ShownIn
<1> HIDE DEF form
<1> QED BY <1>1, <1>3, <1>4 DEF RuleSec, form

\* What buttons and texts do to the section.
LEMMA RulePick ==
  ASSUME NEW sec, NEW form, NEW shown, NEW esc, RuleSec(sec, form, shown, esc),
         NEW f \in Rule!Menus, NEW v \in Values(f)
  PROVE  /\ RuleSec(Rule!Picked(sec, f, v), [form EXCEPT ![f] = v], shown, esc \ {f})
         /\ Rule!Picked(sec, f, v).action =
              IF f = "table" /\ v # 0 THEN "table" ELSE sec.action
<1> DEFINE sec2 == Rule!Picked(sec, f, v)
           form2 == [form EXCEPT ![f] = v]
<1>1. f \in Rule!Widgets /\ f \notin {"action", "goto"} /\ f \notin Rule!Ends \cup {"fwmark"}
  BY RuleNames
<1>2. /\ DOMAIN sec2 = DOMAIN sec /\ sec2[f] = v
      /\ \A g \in DOMAIN sec \ {f, "action"} : sec2[g] = sec[g]
      /\ sec2.action = IF f = "table" /\ v # 0 THEN "table" ELSE sec.action
  BY <1>1, Zenon DEF Rule!Picked, RuleSec
<1>3. Drawn(Rule!Widgets, form2)
        /\ \A g \in Rule!Widgets : form2[g] = IF g = f THEN v ELSE form[g]
  BY <1>1, WithWidget DEF RuleSec
<1> HIDE DEF sec2, form2
<1>4. \A g \in Rule!Widgets \ Rule!Menus : Rule!ShownIn(sec2, g) = Rule!ShownIn(sec, g)
  BY <1>1, <1>2, RuleTexts, RuleNames DEF RuleSec
<1>5. /\ \A g \in Rule!Widgets :
           sec2[g] \in Values(g) \cup IF g \in Rule!Ends \cup {"fwmark"} THEN {Unset} ELSE {}
      /\ sec2.action \in Rule!Actions \cup {Unset}
  <2>1. "table" \in Rule!Actions
    BY DEF Rule!Actions
  <2> QED BY <1>1, <1>2, <2>1, RuleNames DEF RuleSec
<1>51. sec2.action = "goto" => sec2.goto # 0
  <2>1. "goto" \in DOMAIN sec \ {f, "action"}
    BY <1>1, RuleNames DEF RuleSec
  <2> QED BY <1>2, <2>1 DEF RuleSec
<1>6. \A g \in Rule!Menus :
        sec2[g] = form2[g] \/ g \in (esc \ {f}) \cap {"iif", "oif", "ipproto", "proto"}
  BY <1>2, <1>3, RuleNames DEF RuleSec
<1> QED BY <1>2, <1>3, <1>4, <1>5, <1>51, <1>6 DEF RuleSec, sec2, form2

LEMMA RuleLeave ==
  ASSUME NEW sec, NEW form, NEW shown, NEW esc, RuleSec(sec, form, shown, esc),
         NEW f \in Rule!Menus, NEW sec2 \in Rule!Left(sec, f, form[f])
  PROVE  /\ RuleSec(sec2, form, shown, esc \cup {f})
         /\ sec2.action \in {sec.action, "table"}
<1>1. f \in Rule!Widgets /\ f \notin {"action", "goto"} /\ f \notin Rule!Ends \cup {"fwmark"}
  BY RuleNames
<1>2. form[f] \in Values(f) /\ {0, 1} \subseteq Values(f) /\ sec[f] \in Values(f)
  BY <1>1, RuleValues DEF RuleSec, Drawn
<1>3. \/ sec2 = sec
      \/ f = "table" /\ sec2 = [sec EXCEPT ![f] = sec[f], !.action = "table"]
      \/ f = "table" /\ sec2 = [sec EXCEPT ![f] = sec[f]]
      \/ f \in {"iif", "oif", "ipproto", "proto"}
           /\ \E x \in Values(f) : sec2 = [sec EXCEPT ![f] = x]
  BY <1>2, Zenon DEF Rule!Left, Rule!Picked, Rule!IpProto, Rule!Redirect
<1>4. /\ DOMAIN sec2 = DOMAIN sec /\ sec2[f] \in Values(f)
      /\ f \in {"iif", "oif", "ipproto", "proto"} \/ sec2[f] = sec[f]
      /\ \A g \in DOMAIN sec \ {f, "action"} : sec2[g] = sec[g]
      /\ sec2.action \in {sec.action, "table"}
  BY <1>1, <1>2, <1>3, Zenon DEF RuleSec
<1>5. \A g \in Rule!Widgets \ Rule!Menus : Rule!ShownIn(sec2, g) = Rule!ShownIn(sec, g)
  BY <1>1, <1>4, RuleTexts, RuleNames DEF RuleSec
<1>6. /\ \A g \in Rule!Widgets :
           sec2[g] \in Values(g) \cup IF g \in Rule!Ends \cup {"fwmark"} THEN {Unset} ELSE {}
      /\ sec2.action \in Rule!Actions \cup {Unset}
  <2>1. "table" \in Rule!Actions
    BY DEF Rule!Actions
  <2> QED BY <1>1, <1>4, <2>1, RuleNames DEF RuleSec
<1>61. sec2.action = "goto" => sec2.goto # 0
  <2>1. "goto" \in DOMAIN sec \ {f, "action"}
    BY <1>1, RuleNames DEF RuleSec
  <2> QED BY <1>4, <2>1 DEF RuleSec
<1>7. \A g \in Rule!Menus :
        sec2[g] = form[g] \/ g \in (esc \cup {f}) \cap {"iif", "oif", "ipproto", "proto"}
  BY <1>4, RuleNames DEF RuleSec
<1> QED BY <1>4, <1>5, <1>6, <1>61, <1>7 DEF RuleSec

LEMMA RuleType ==
  ASSUME NEW sec, NEW form, NEW shown, NEW esc, RuleSec(sec, form, shown, esc),
         NEW f \in Rule!Widgets \ Rule!Menus, NEW v \in Values(f)
  PROVE  RuleSec(sec, [form EXCEPT ![f] = v], shown, esc)
<1> DEFINE form2 == [form EXCEPT ![f] = v]
<1>1. Drawn(Rule!Widgets, form2)
        /\ \A g \in Rule!Widgets : form2[g] = IF g = f THEN v ELSE form[g]
  BY WithWidget DEF RuleSec
<1>2. \A g \in Rule!Menus : form2[g] = form[g]
  BY <1>1, RuleNames
<1> HIDE DEF form2
<1> QED BY <1>1, <1>2 DEF RuleSec, form2

-----------------------------------------------------------------------------
(***************************************************************************)
(* A neighbour's dialog.                                                   *)
(***************************************************************************)

LEMMA NeighNames ==
  /\ Neigh!Menus \subseteq Neigh!Widgets /\ Neigh!Menus = {"family", "dev", "proto", "state"}
  /\ {"use", "managed", "proxy", "mac"} \subseteq Neigh!Widgets \ Neigh!Menus
  /\ Values("use") = {0, 1} /\ Values("managed") = {0, 1} /\ Values("proxy") = {0, 1}
  /\ \A f : {0, 1} \subseteq Values(f)
BY ValuesAre DEF Neigh!Menus, Neigh!Widgets, Neigh!Checks, Checks, Values

LEMMA NeighOpens ==
  ASSUME NEW sec, Drawn(Neigh!Widgets, sec)
  PROVE  NeighSec(sec, Neigh!Shown(<< sec >>)[1], Neigh!Shown(<< sec >>)[1], {})
<1> DEFINE form == [f \in Neigh!Widgets |-> IF f = "use" /\ sec.managed = 1 THEN 0 ELSE sec[f]]
<1>1. Neigh!Shown(<< sec >>)[1] = form
  BY DEF Neigh!Shown
<1>2. /\ \A f \in Neigh!Widgets \ {"use"} : form[f] = sec[f]
      /\ form.use = IF sec.managed = 1 THEN 0 ELSE sec.use
  BY NeighNames
<1>3. Drawn(Neigh!Widgets, form)
  BY NeighNames DEF Drawn
<1>4. form.use = 0 \/ form.managed = 0
  BY <1>2, NeighNames DEF Drawn
<1> HIDE DEF form
<1> QED BY <1>1, <1>2, <1>3, <1>4, NeighNames DEF NeighSec

LEMMA NeighPick ==
  ASSUME NEW sec, NEW form, NEW shown, NEW esc, NeighSec(sec, form, shown, esc),
         NEW f \in Neigh!Menus, NEW v \in Values(f)
  PROVE  NeighSec(Neigh!Picked(sec, f, v), [form EXCEPT ![f] = v], shown, esc \ {f})
<1> DEFINE sec2 == [sec EXCEPT ![f] = v]
           form2 == [form EXCEPT ![f] = v]
<1>1. /\ Drawn(Neigh!Widgets, sec2) /\ Drawn(Neigh!Widgets, form2)
      /\ \A g \in Neigh!Widgets : /\ sec2[g] = IF g = f THEN v ELSE sec[g]
                                  /\ form2[g] = IF g = f THEN v ELSE form[g]
  BY WithWidget, NeighNames DEF NeighSec
<1> HIDE DEF sec2, form2
<1>2. f \notin {"use", "managed"}
  BY NeighNames
<1>3. /\ sec2.use = sec.use /\ sec2.managed = sec.managed
      /\ form2.use = form.use /\ form2.managed = form.managed
      /\ \A g \in Neigh!Widgets \ (Neigh!Menus \cup {"use"}) : sec2[g] = sec[g]
  BY <1>1, <1>2, NeighNames
<1>4. \A g \in Neigh!Menus \ {"family"} : sec2[g] = form2[g] \/ g \in (esc \ {f}) \cap {"dev"}
  BY <1>1, NeighNames DEF NeighSec
<1> QED BY <1>1, <1>3, <1>4 DEF NeighSec, sec2, form2, Neigh!Picked

LEMMA NeighLeave ==
  ASSUME NEW sec, NEW form, NEW shown, NEW esc, NeighSec(sec, form, shown, esc),
         NEW f \in Neigh!Menus
  PROVE  NeighSec(Neigh!Left(sec, f), form, shown, esc \cup {f})
<1> DEFINE sec2 == Neigh!Left(sec, f)
<1>1. CASE f \notin {"family", "dev"}
  BY <1>1 DEF Neigh!Left, NeighSec
<1>2. CASE f \in {"family", "dev"}
  <2>1. sec2 = [sec EXCEPT ![f] = 0] /\ 0 \in Values(f)
    BY <1>2, NeighNames DEF Neigh!Left
  <2>2. Drawn(Neigh!Widgets, sec2)
          /\ \A g \in Neigh!Widgets : sec2[g] = IF g = f THEN 0 ELSE sec[g]
    <3>1. f \in Neigh!Widgets /\ Drawn(Neigh!Widgets, sec)
      BY NeighNames DEF NeighSec
    <3>2. /\ Drawn(Neigh!Widgets, [sec EXCEPT ![f] = 0])
          /\ \A g \in Neigh!Widgets : [sec EXCEPT ![f] = 0][g] = IF g = f THEN 0 ELSE sec[g]
      BY <2>1, <3>1 DEF Drawn
    <3> QED BY <2>1, <3>2
  <2> HIDE DEF sec2
  <2>3. /\ sec2.use = sec.use /\ sec2.managed = sec.managed
        /\ \A g \in Neigh!Widgets \ (Neigh!Menus \cup {"use"}) : sec2[g] = sec[g]
    BY <1>2, <2>2, NeighNames
  <2>4. \A g \in Neigh!Menus \ {"family"} : sec2[g] = form[g] \/ g \in (esc \cup {f}) \cap {"dev"}
    BY <1>2, <2>2, NeighNames DEF NeighSec
  <2> QED BY <2>2, <2>3, <2>4 DEF NeighSec, sec2
<1> QED BY <1>1, <1>2

LEMMA NeighType ==
  ASSUME NEW sec, NEW form, NEW shown, NEW esc, NeighSec(sec, form, shown, esc),
         NEW f \in Neigh!Widgets \ Neigh!Menus, NEW v \in Values(f)
  PROVE  NeighSec(sec, Neigh!Typed(form, f, v), shown, esc)
<1> DEFINE form2 == Neigh!Typed(form, f, v)
<1>1. /\ DOMAIN form2 = Neigh!Widgets
      /\ \A g \in Neigh!Widgets \ {"use", "managed", f} : form2[g] = form[g]
      /\ form2[f] = v
      /\ f = "use" => form2.managed = 0
      /\ f = "managed" => form2.use = 0
      /\ f \notin {"use", "managed"} => form2.use = form.use /\ form2.managed = form.managed
  BY NeighNames DEF Neigh!Typed, NeighSec, Drawn
<1> HIDE DEF form2
<1>2. Drawn(Neigh!Widgets, form2)
  BY <1>1, NeighNames DEF NeighSec, Drawn
<1>3. \A g \in Neigh!Menus : form2[g] = form[g]
  BY <1>1, NeighNames
<1>4. form2.use = 0 \/ form2.managed = 0
  BY <1>1 DEF NeighSec
<1> QED BY <1>2, <1>3, <1>4 DEF NeighSec, form2

-----------------------------------------------------------------------------
(***************************************************************************)
(* The steps in the dialog of a rule and in that of a neighbour.           *)
(***************************************************************************)

\* One section only.
LEMMA OneTouched ==
  ASSUME OneSection(dlg), NEW s \in DOMAIN dlg.form, NEW sec, NEW form,
         Touched(dlg, new_nh, dlg', new_nh', s, sec, form)
  PROVE  /\ s = 1 /\ OneSection(dlg') /\ new_nh' = new_nh
         /\ dlg'.work[1] = sec /\ dlg'.form[1] = form
         /\ dlg'.shown = dlg.shown /\ dlg'.mode = dlg.mode /\ DOMAIN dlg' = Members
<1>1. DOMAIN dlg'.work = DOMAIN dlg.work
  BY DEF Touched
<1> QED BY <1>1 DEF Touched, OneSection

LEMMA RuleStep ==
  ASSUME kind = "rule", Dialog("rule", dlg, new_nh, kernel),
         EncsShown(dlg.encs), NEW s \in DOMAIN dlg.form, Used(s)
  PROVE  /\ Dialog("rule", dlg', new_nh', kernel) /\ new_nh' = new_nh
         /\ EncsShown(dlg'.encs)
<1> DEFINE sec == dlg.work[1]
           form == dlg.form[1]
           shown == dlg.shown[1]
           esc == EscOf(dlg.left, Rule!Menus, 1)
<1>1. /\ DOMAIN dlg = Members /\ OneSection(dlg) /\ RuleSec(sec, form, shown, esc)
      /\ dlg.mode \in {"edit", "create"} /\ (dlg.mode = "edit" => kernel # None)
      /\ dlg.change = FALSE
      /\ dlg.mode = "edit" => RuleKept(dlg, kernel)
  BY DEF Dialog, RuleDlg
<1>2. s = 1 /\ Section(s) = sec
  BY <1>1 DEF OneSection, Section
<1>3. Menus(s) = Rule!Menus /\ Widgets(s) = Rule!Widgets
  BY DEF Menus, Widgets
<1>4. ~Encap(s)
  BY DEF Encap
<1>5. ASSUME NEW sec2, NEW form2,
             Touched(dlg, new_nh, dlg', new_nh', s, sec2, form2),
             RuleSec(sec2, form2, shown, EscOf(dlg'.left, Rule!Menus, 1)),
             dlg'.encs = dlg.encs, dlg'.change = dlg.change,
             sec2.action \in {sec.action, "table"},
             form2.table # form.table /\ form2.table # 0 => sec2.action = "table"
      PROVE  /\ Dialog("rule", dlg', new_nh', kernel) /\ new_nh' = new_nh
             /\ EncsShown(dlg'.encs)
  <2>1. /\ OneSection(dlg') /\ new_nh' = new_nh
        /\ dlg'.work[1] = sec2 /\ dlg'.form[1] = form2
        /\ dlg'.shown = dlg.shown /\ dlg'.mode = dlg.mode /\ DOMAIN dlg' = Members
    BY <1>1, <1>5, OneTouched
  <2>2. dlg.mode = "edit" => RuleKept(dlg', kernel)
    BY <1>1, <1>5, <2>1 DEF RuleKept
  <2> QED BY <1>1, <1>5, <2>1, <2>2 DEF Dialog, RuleDlg
<1>6. ASSUME NEW f \in Menus(s), Leave(s, f)
      PROVE  /\ Dialog("rule", dlg', new_nh', kernel) /\ new_nh' = new_nh
             /\ EncsShown(dlg'.encs)
  <2>1. PICK sec2 \in Rule!Left(sec, f, form[f]) :
          /\ Touched(dlg, new_nh, dlg', new_nh', s, sec2, form)
          /\ dlg'.left = dlg.left \cup {<< s, f >>}
          /\ dlg'.encs = dlg.encs /\ dlg'.change = dlg.change
    BY <1>1, <1>2, <1>6, LeaveStep DEF Left
  <2>2. EscOf(dlg'.left, Rule!Menus, 1) = esc \cup {f}
    BY <1>2, <1>3, <2>1 DEF EscOf
  <2>3. RuleSec(sec2, form, shown, esc \cup {f}) /\ sec2.action \in {sec.action, "table"}
    BY <1>1, <1>3, <2>1, RuleLeave
  <2> QED BY <1>5, <2>1, <2>2, <2>3
<1>7. ASSUME NEW f \in Menus(s), NEW v \in Values(f), Pick(s, f, v)
      PROVE  /\ Dialog("rule", dlg', new_nh', kernel) /\ new_nh' = new_nh
             /\ EncsShown(dlg'.encs)
  <2> DEFINE sec2 == Rule!Picked(sec, f, v)
             form2 == [form EXCEPT ![f] = v]
  <2>1. /\ Touched(dlg, new_nh, dlg', new_nh', s, sec2, form2)
        /\ dlg'.left = dlg.left \ {<< s, f >>}
        /\ dlg'.encs = dlg.encs /\ dlg'.change = dlg.change
    BY <1>1, <1>2, <1>7, PickStep DEF Picked
  <2>2. EscOf(dlg'.left, Rule!Menus, 1) = esc \ {f}
    BY <1>2, <1>3, <2>1 DEF EscOf
  <2>3. RuleSec(sec2, form2, shown, esc \ {f})
          /\ sec2.action = IF f = "table" /\ v # 0 THEN "table" ELSE sec.action
    BY <1>1, <1>3, RulePick
  <2>4. form2.table # form.table /\ form2.table # 0 => f = "table" /\ v # 0
    <3>1. f \in DOMAIN form /\ "table" \in DOMAIN form
      BY <1>1, <1>3, RuleNames DEF RuleSec, Drawn
    <3> QED BY <3>1
  <2> HIDE DEF sec2, form2
  <2> QED BY <1>5, <2>1, <2>2, <2>3, <2>4
<1>8. ASSUME NEW f \in Widgets(s) \ Menus(s), NEW v \in Values(f), Type(s, f, v)
      PROVE  /\ Dialog("rule", dlg', new_nh', kernel) /\ new_nh' = new_nh
             /\ EncsShown(dlg'.encs)
  <2> DEFINE form2 == [form EXCEPT ![f] = v]
  <2>1. /\ Touched(dlg, new_nh, dlg', new_nh', s, sec, form2)
        /\ dlg'.left = dlg.left /\ dlg'.encs = dlg.encs /\ dlg'.change = dlg.change
    <3>1. DOMAIN dlg = Members /\ Typed(dlg.form[s], f, v) = form2 /\ Section(s) = sec
      BY <1>1, <1>2 DEF Typed
    <3> HIDE DEF form2, sec
    <3> QED BY <1>8, <3>1, TypeStep
  <2>2. RuleSec(sec, form2, shown, esc)
    BY <1>1, <1>3, RuleType
  <2>3. form2.table = form.table
    BY <1>1, <1>3, RuleNames DEF RuleSec, Drawn
  <2> HIDE DEF form2
  <2> QED BY <1>5, <2>1, <2>2, <2>3
<1> QED BY <1>4, <1>6, <1>7, <1>8 DEF Used

LEMMA NeighStep ==
  ASSUME kind = "neigh", Dialog("neigh", dlg, new_nh, kernel),
         EncsShown(dlg.encs), NEW s \in DOMAIN dlg.form, Used(s)
  PROVE  /\ Dialog("neigh", dlg', new_nh', kernel) /\ new_nh' = new_nh
         /\ EncsShown(dlg'.encs)
<1> DEFINE sec == dlg.work[1]
           form == dlg.form[1]
           shown == dlg.shown[1]
           esc == EscOf(dlg.left, Neigh!Menus, 1)
<1>1. /\ DOMAIN dlg = Members /\ OneSection(dlg) /\ NeighSec(sec, form, shown, esc)
      /\ dlg.mode \in {"edit", "create"} /\ (dlg.mode = "edit" => kernel # None)
      /\ dlg.change = FALSE
      /\ DOMAIN shown = Neigh!Widgets
  BY DEF Dialog, NeighDlg
<1>2. s = 1 /\ Section(s) = sec
  BY <1>1 DEF OneSection, Section
<1>3. Menus(s) = Neigh!Menus /\ Widgets(s) = Neigh!Widgets
  BY DEF Menus, Widgets
<1>4. ~Encap(s)
  BY DEF Encap
<1>5. ASSUME NEW sec2, NEW form2,
             Touched(dlg, new_nh, dlg', new_nh', s, sec2, form2),
             NeighSec(sec2, form2, shown, EscOf(dlg'.left, Neigh!Menus, 1)),
             dlg'.encs = dlg.encs, dlg'.change = dlg.change
      PROVE  /\ Dialog("neigh", dlg', new_nh', kernel) /\ new_nh' = new_nh
             /\ EncsShown(dlg'.encs)
  <2>1. /\ OneSection(dlg') /\ new_nh' = new_nh
        /\ dlg'.work[1] = sec2 /\ dlg'.form[1] = form2
        /\ dlg'.shown = dlg.shown /\ dlg'.mode = dlg.mode /\ DOMAIN dlg' = Members
    BY <1>1, <1>5, OneTouched
  <2> QED BY <1>1, <1>5, <2>1 DEF Dialog, NeighDlg
<1>6. ASSUME NEW f \in Menus(s), Leave(s, f)
      PROVE  /\ Dialog("neigh", dlg', new_nh', kernel) /\ new_nh' = new_nh
             /\ EncsShown(dlg'.encs)
  <2>1. PICK sec2 \in {Neigh!Left(sec, f)} :
          /\ Touched(dlg, new_nh, dlg', new_nh', s, sec2, form)
          /\ dlg'.left = dlg.left \cup {<< s, f >>}
          /\ dlg'.encs = dlg.encs /\ dlg'.change = dlg.change
    BY <1>1, <1>2, <1>6, LeaveStep DEF Left
  <2>2. EscOf(dlg'.left, Neigh!Menus, 1) = esc \cup {f}
    BY <1>2, <1>3, <2>1 DEF EscOf
  <2>3. NeighSec(sec2, form, shown, esc \cup {f})
    BY <1>1, <1>3, <2>1, NeighLeave
  <2> QED BY <1>5, <2>1, <2>2, <2>3
<1>7. ASSUME NEW f \in Menus(s), NEW v \in Values(f), Pick(s, f, v)
      PROVE  /\ Dialog("neigh", dlg', new_nh', kernel) /\ new_nh' = new_nh
             /\ EncsShown(dlg'.encs)
  <2> DEFINE sec2 == Neigh!Picked(sec, f, v)
             form2 == [form EXCEPT ![f] = v]
  <2>1. /\ Touched(dlg, new_nh, dlg', new_nh', s, sec2, form2)
        /\ dlg'.left = dlg.left \ {<< s, f >>}
        /\ dlg'.encs = dlg.encs /\ dlg'.change = dlg.change
    BY <1>1, <1>2, <1>7, PickStep DEF Picked
  <2>2. EscOf(dlg'.left, Neigh!Menus, 1) = esc \ {f}
    BY <1>2, <1>3, <2>1 DEF EscOf
  <2>3. NeighSec(sec2, form2, shown, esc \ {f})
    BY <1>1, <1>3, NeighPick
  <2> HIDE DEF sec2, form2
  <2> QED BY <1>5, <2>1, <2>2, <2>3
<1>8. ASSUME NEW f \in Widgets(s) \ Menus(s), NEW v \in Values(f), Type(s, f, v)
      PROVE  /\ Dialog("neigh", dlg', new_nh', kernel) /\ new_nh' = new_nh
             /\ EncsShown(dlg'.encs)
  <2> DEFINE form2 == Neigh!Typed(form, f, v)
  <2>1. /\ Touched(dlg, new_nh, dlg', new_nh', s, sec, form2)
        /\ dlg'.left = dlg.left /\ dlg'.encs = dlg.encs /\ dlg'.change = dlg.change
    BY <1>1, <1>2, <1>8, TypeStep DEF Typed
  <2>2. NeighSec(sec, form2, shown, esc)
    BY <1>1, <1>3, NeighType
  <2> HIDE DEF form2
  <2> QED BY <1>5, <2>1, <2>2
<1> QED BY <1>4, <1>6, <1>7, <1>8 DEF Used

-----------------------------------------------------------------------------
(***************************************************************************)
(* Opening a dialog, and the widgets of all kinds: the invariant.          *)
(***************************************************************************)

\* A record of the kernel has what the widgets of its kind show.
LEMMA RecordOpens ==
  ASSUME IInv, NEW d, kernel # None,
         d = Opened("edit", IF kind = "rule" THEN Rule!Read(kernel) ELSE kernel, new_nh)
  PROVE  Dialog(kind, d, new_nh, kernel) /\ EncsShown(d.encs)
<1> DEFINE w == IF kind = "rule" THEN Rule!Read(kernel) ELSE kernel
<1>1. /\ DOMAIN d = Members /\ d.mode = "edit" /\ d.work = w /\ d.form = Shown(w)
      /\ d.shown = d.form /\ d.change = FALSE /\ d.left = {} /\ d.encs = {}
      /\ d.held = new_nh
  BY DEF Opened, Members
<1>2. EncsShown(d.encs)
  BY <1>1 DEF EncsShown
<1>3. \A menus : EscOf(d.left, menus, 1) = {}
  BY <1>1 DEF EscOf
<1>4. CASE kind = "route"
  <2>1. IsRoute(kernel) /\ HopTyped(new_nh)
    BY <1>4 DEF IInv, IsRecord
  <2>2. d.work = kernel /\ d.form = Route!Shown(d.work)
    BY <1>1, <1>4 DEF Shown
  <2>3. RouteDlg(d, new_nh)
    BY <1>1, <2>1, <2>2, RouteIsFresh, FreshOpens
  <2> QED BY <1>1, <1>2, <1>4, <2>2, <2>3 DEF Dialog, RouteKept
<1>5. CASE kind = "rule"
  <2>1. IsRule(kernel)
    BY <1>5 DEF IInv, IsRecord
  <2> DEFINE sec == [f \in DOMAIN kernel[1] |->
                       IF f \in Rule!Ends /\ kernel[1][Rule!BeginOf[f]] = 0 THEN Unset
                       ELSE kernel[1][f]]
             form == [f \in Rule!Widgets |-> Rule!ShownIn(sec, f)]
  <2>2. d.work = << sec >> /\ d.form = << form >>
    BY <1>1, <1>5, Zenon DEF Shown, Rule!Shown, Rule!Read
  <2>3. /\ DOMAIN sec = Rule!Widgets \cup {"action"}
        /\ \A f \in Rule!Widgets :
             sec[f] \in Values(f) \cup IF f \in Rule!Ends \cup {"fwmark"} THEN {Unset} ELSE {}
        /\ sec.action = kernel[1].action /\ sec.action \in Rule!Actions
    BY <2>1, RuleNames DEF IsRule
  <2>31. sec.action = "goto" => sec.goto # 0
    <3>1. ~Rule!Refused(kernel[1], kernel[1].action) /\ "goto" \in DOMAIN kernel[1]
            /\ {"goto", "action"} \cap Rule!Ends = {} /\ "action" \in DOMAIN kernel[1]
      BY <2>1, RuleNames DEF IsRule, Rule!Ends
    <3>2. sec.goto = kernel[1].goto
      BY <3>1
    <3> QED BY <2>3, <3>1, <3>2 DEF Rule!Refused
  <2> HIDE DEF sec
  <2>4. RuleSec(sec, form, form, {})
    BY <2>3, <2>31, RuleOpens
  <2>5. OneSection(d)
    BY <1>1, <2>2 DEF OneSection
  <2>6. RuleDlg(d)
    BY <1>1, <1>3, <2>2, <2>4, <2>5 DEF RuleDlg
  <2>7. RuleKept(d, kernel)
    BY <1>1, <2>2, <2>3 DEF RuleKept
  <2> QED BY <1>1, <1>2, <1>5, <2>6, <2>7 DEF Dialog
<1>6. CASE kind = "neigh"
  <2>1. IsNeigh(kernel)
    BY <1>6 DEF IInv, IsRecord
  <2> DEFINE sec == kernel[1]
  <2>2. d.work = kernel /\ DOMAIN kernel = {1} /\ Drawn(Neigh!Widgets, sec)
    BY <1>1, <1>6, <2>1 DEF IsNeigh, Drawn
  <2>3. d.form = Neigh!Shown(kernel)
    BY <1>1, <1>6 DEF Shown
  <2>4. Neigh!Shown(kernel) = Neigh!Shown(<< sec >>)
    BY DEF Neigh!Shown
  <2>5. NeighSec(sec, d.form[1], d.form[1], {})
    BY <2>2, <2>3, <2>4, NeighOpens
  <2>6. OneSection(d) /\ DOMAIN d.shown[1] = Neigh!Widgets
    BY <1>1, <2>2, <2>3 DEF OneSection, Neigh!Shown
  <2> QED BY <1>1, <1>2, <1>3, <1>6, <2>2, <2>5, <2>6 DEF Dialog, NeighDlg
<1> QED BY <1>4, <1>5, <1>6 DEF IInv, Kinds

\* The next hop that a blank route has not got yet, and the blank route.
LEMMA BlankHop == HopTyped(Route!Hop) /\ Route!Hop.nexthop = 0
<1> DEFINE hop == Route!Hop
<1>1. /\ DOMAIN hop = Route!HopWidgets \cup {"rtvia", "enc"}
      /\ hop.enc = Route!NoEncap /\ hop.family = Unset
      /\ \A f \in DOMAIN hop \ {"enc", "family"} : hop[f] = 0
      /\ hop = [f \in DOMAIN hop |-> hop[f]]
  BY MoreNames DEF Route!Hop
<1>2. Route!NoEncap \in Route!Encs
  <2>1. 0 \in Route!Value
    BY RecordEditAssumption DEF Route!Value
  <2>2. Route!NoEncap = [type |-> "none", valid |-> {},
                         val |-> [f \in Route!MplsFields \cup Route!IpFields |-> 0]]
    BY DEF Route!NoEncap
  <2>3. [f \in Route!MplsFields \cup Route!IpFields |-> 0]
          \in [Route!MplsFields \cup Route!IpFields -> Route!Value \cup {Unset}]
    BY <2>1
  <2> QED BY <2>2, <2>3 DEF Route!Encs, Route!EncTypes
<1> HIDE DEF hop
<1>3. Route!NoEncap \in Attributes /\ {0, Unset} \subseteq Attributes /\ 0 \in Value
  BY <1>2, ValuesAre DEF Attributes
<1>4. hop \in [DOMAIN hop -> Attributes]
  BY <1>1, <1>3
<1>5. \A f \in Route!HopWidgets \ {"family"} : hop[f] \in Values(f)
  BY <1>1, MoreNames, ValuesAre
<1>6. HopTyped(hop) /\ hop.nexthop = 0
  BY <1>1, <1>2, <1>3, <1>4, <1>5, MoreNames DEF HopTyped, hop
<1> QED BY <1>6 DEF hop

LEMMA BlankRoute ==
  ASSUME NEW family \in Route!Families, NEW table \in Value \ {0}
  PROVE  Fresh(Route!Blank(family, table))
<1> DEFINE main == Route!Main
           sec == [main EXCEPT !.family = family, !.type = 1, !.table = table]
<1>1. /\ DOMAIN main = Route!MainWidgets \cup {"rtvia", "nhid", "enc"}
      /\ main.enc = Route!NoEncap
      /\ \A f \in DOMAIN main \ {"enc"} : main[f] = 0
      /\ main = [f \in DOMAIN main |-> main[f]]
  BY MoreNames DEF Route!Main
<1>2. Route!NoEncap \in Route!Encs
  BY BlankHop, MoreNames DEF HopTyped, Route!Hop
<1>3. Route!NoEncap \in Attributes /\ 0 \in Attributes /\ {0, 1} \subseteq Value
  BY <1>2, ValuesAre DEF Attributes
<1> HIDE DEF main
<1>4. main \in [DOMAIN main -> Attributes]
  BY <1>1, <1>3
<1>5. {"family", "type", "table"} \subseteq Route!MainWidgets
  BY MoreNames
<1>6. /\ DOMAIN sec = DOMAIN main
      /\ \A f \in DOMAIN main :
           sec[f] = IF f = "family" THEN family ELSE IF f = "type" THEN 1
                    ELSE IF f = "table" THEN table ELSE main[f]
      /\ sec = [f \in DOMAIN main |-> sec[f]]
  BY <1>1, <1>4
<1>7. family \in Attributes /\ table \in Attributes /\ 1 \in Attributes
        /\ family \in Values("family") /\ table \in Values("table") /\ 1 \in Values("type")
  BY ValuesAre, MoreNames DEF Attributes, Route!Families
<1> HIDE DEF sec
<1>8. sec \in [DOMAIN main -> Attributes]
  BY <1>4, <1>6, <1>7
<1>9. \A f \in Route!MainWidgets : sec[f] \in Values(f)
  BY <1>1, <1>6, <1>7, ValuesAre, MoreNames
<1>10. sec.rtvia = 0 /\ sec.nhid = 0 /\ sec.enc = Route!NoEncap
  BY <1>1, <1>6, MoreNames
<1>11. MainTyped(sec)
  BY <1>2, <1>3, <1>8, <1>9, <1>10 DEF MainTyped, main
<1>12. sec \in RouteSecs
  BY <1>8 DEF RouteSecs, main
<1>13. << sec >> \in Seq(RouteSecs) /\ Len(<< sec >>) = 1 /\ << sec >>[1] = sec
  BY <1>12
<1>14. Route!Blank(family, table) = << sec >>
  BY DEF Route!Blank, sec, main
<1> QED BY <1>11, <1>13, <1>14 DEF Fresh

\* A dialog that was just opened.
OpenedAs(d, mode, form, w, hop) ==
  /\ DOMAIN d = Members /\ d.mode = mode /\ d.work = w
  /\ d.form = form /\ d.shown = form /\ d.change = FALSE
  /\ d.left = {} /\ d.encs = {} /\ d.held = hop

LEMMA OpenedIs ==
  ASSUME NEW mode, NEW w, NEW hop
  PROVE  OpenedAs(Opened(mode, w, hop), mode, Shown(w), w, hop)
BY DEF Opened, Members, OpenedAs

LEMMA NothingYet ==
  ASSUME NEW d, NEW mode, NEW form, NEW w, NEW hop, OpenedAs(d, mode, form, w, hop), NEW menus
  PROVE  EncsShown(d.encs) /\ EscOf(d.left, menus, 1) = {}
BY DEF OpenedAs, EncsShown, EscOf

\* Opening a blank record.
LEMMA BlankRouteOpens ==
  ASSUME kind = "route", NEW family \in Route!Families, NEW table \in Value \ {0}, NEW d,
         d = Opened("create", Route!Blank(family, table), Route!Hop)
  PROVE  Dialog("route", d, Route!Hop, kernel) /\ EncsShown(d.encs)
<1>1. Fresh(Route!Blank(family, table)) /\ HopTyped(Route!Hop)
  BY BlankRoute, BlankHop
<1> DEFINE w == Route!Blank(family, table)
<1>2. OpenedAs(d, "create", Route!Shown(w), w, Route!Hop)
  <2>1. OpenedAs(Opened("create", w, Route!Hop), "create", Shown(w), w, Route!Hop)
    BY OpenedIs
  <2> QED BY <2>1 DEF Shown
<1> HIDE DEF w
<1>3. RouteDlg(d, Route!Hop)
  BY <1>1, <1>2, FreshOpens DEF OpenedAs, w
<1> QED BY <1>2, <1>3, NothingYet DEF Dialog, OpenedAs

LEMMA BlankRuleOpens ==
  ASSUME kind = "rule", NEW tos \in {0, MaxValue}, NEW d, NEW hop,
         d = Opened("create", Rule!Blank(tos), hop)
  PROVE  Dialog("rule", d, hop, kernel) /\ EncsShown(d.encs)
<1> DEFINE sec == [f \in Rule!Widgets \cup {"action"} |->
                     CASE f = "tos" -> tos
                       [] f \in Rule!Ends \cup {"fwmark", "action"} -> Unset
                       [] OTHER -> 0]
           form == [f \in Rule!Widgets |-> Rule!ShownIn(sec, f)]
<1>1. Rule!Blank(tos) = << sec >> /\ Shown(<< sec >>) = << form >>
  BY DEF Shown, Rule!Shown, Rule!Blank
<1>2. /\ DOMAIN sec = Rule!Widgets \cup {"action"}
      /\ \A f \in Rule!Widgets :
           sec[f] \in Values(f) \cup IF f \in Rule!Ends \cup {"fwmark"} THEN {Unset} ELSE {}
      /\ sec.action = Unset /\ Unset # "goto"
  <2>1. tos \in Values("tos")
    BY RuleValues, RecordEditAssumption DEF Rule!Widgets, Value
  <2>2. "tos" \notin Rule!Ends \cup {"fwmark", "action"}
    BY DEF Rule!Ends
  <2>3. Unset # "goto"
    BY RecordEditAssumption DEF Rule!Actions
  <2> QED BY <2>1, <2>2, <2>3, RuleNames, RuleValues
<1> HIDE DEF sec
<1>3. RuleSec(sec, form, form, {})
  BY <1>2, RuleOpens
<1> HIDE DEF form
<1>4. OpenedAs(d, "create", << form >>, << sec >>, hop)
  <2>1. OpenedAs(Opened("create", << sec >>, hop), "create", Shown(<< sec >>), << sec >>, hop)
    BY OpenedIs
  <2> QED BY <1>1, <2>1
<1>5. EncsShown(d.encs) /\ EscOf(d.left, Rule!Menus, 1) = {}
  BY <1>4, NothingYet
<1>6. RuleDlg(d)
  BY <1>3, <1>4, <1>5 DEF RuleDlg, OneSection, OpenedAs
<1> QED BY <1>4, <1>5, <1>6 DEF Dialog, OpenedAs

LEMMA BlankNeighOpens ==
  ASSUME kind = "neigh", NEW d, NEW hop, d = Opened("create", Neigh!Blank, hop)
  PROVE  Dialog("neigh", d, hop, kernel) /\ EncsShown(d.encs)
<1> DEFINE sec == [f \in Neigh!Widgets |-> IF f = "family" THEN 1 ELSE 0]
           form == Neigh!Shown(<< sec >>)
<1>1. Neigh!Blank = << sec >> /\ Drawn(Neigh!Widgets, sec)
  BY NeighNames DEF Neigh!Blank, Drawn
<1> HIDE DEF sec
<1>2. Shown(<< sec >>) = form /\ DOMAIN form = {1} /\ DOMAIN form[1] = Neigh!Widgets
  BY DEF Shown, Neigh!Shown
<1>3. NeighSec(sec, form[1], form[1], {})
  BY <1>1, NeighOpens
<1> HIDE DEF form
<1>4. OpenedAs(d, "create", form, << sec >>, hop)
  <2>1. OpenedAs(Opened("create", << sec >>, hop), "create", Shown(<< sec >>), << sec >>, hop)
    BY OpenedIs
  <2> QED BY <1>1, <1>2, <2>1
<1>5. EncsShown(d.encs) /\ EscOf(d.left, Neigh!Menus, 1) = {}
  BY <1>4, NothingYet
<1>6. NeighDlg(d)
  BY <1>2, <1>3, <1>4, <1>5 DEF NeighDlg, OneSection, OpenedAs
<1> QED BY <1>4, <1>5, <1>6 DEF Dialog, OpenedAs

LEMMA BlankOpens ==
  ASSUME IInv, Create
  PROVE  /\ Dialog(kind, dlg', new_nh', kernel) /\ EncsShown(dlg'.encs)
         /\ HopTyped(new_nh') /\ marked' \in BOOLEAN
         /\ kind = "route" => (marked' = (new_nh'.nexthop = 1))
<1>1. CASE kind = "route"
  <2>1. PICK family \in Route!Families, table \in Value \ {0} : CreateIpRoute(family, table)
    BY <1>1 DEF Create
  <2>2. /\ dlg' = Opened("create", Route!Blank(family, table), Route!Hop)
        /\ new_nh' = Route!Hop /\ marked' = FALSE
    BY <2>1 DEF CreateIpRoute
  <2>3. Dialog("route", dlg', Route!Hop, kernel) /\ EncsShown(dlg'.encs)
    BY <1>1, <2>2, BlankRouteOpens
  <2>4. HopTyped(Route!Hop) /\ (Route!Hop.nexthop = 1) = FALSE
    BY BlankHop
  <2> QED BY <1>1, <2>2, <2>3, <2>4
<1>2. CASE kind = "rule"
  <2>1. /\ \E tos \in {0, MaxValue} : dlg' = Opened("create", Rule!Blank(tos), new_nh)
        /\ UNCHANGED << new_nh, marked >>
    BY <1>2 DEF Create
  <2>2. Dialog("rule", dlg', new_nh, kernel) /\ EncsShown(dlg'.encs)
    BY <1>2, <2>1, BlankRuleOpens
  <2> QED BY <1>2, <2>1, <2>2 DEF IInv
<1>3. CASE kind = "neigh"
  <2>1. dlg' = Opened("create", Neigh!Blank, new_nh) /\ UNCHANGED << new_nh, marked >>
    BY <1>3 DEF Create
  <2> QED BY <1>3, <2>1, BlankNeighOpens DEF IInv
<1> QED BY <1>1, <1>2, <1>3 DEF IInv, Kinds

-----------------------------------------------------------------------------
(***************************************************************************)
(* What the kernel makes of the sections of a route.                       *)
(***************************************************************************)

\* An encapsulation as the kernel has it.
Kernels(encap, enc) ==
  enc \in Route!Encs /\ IF encap = 1 THEN Route!MadeEnc(enc) = {enc} ELSE enc = Route!NoEncap

LEMMA MadeEncapIs ==
  ASSUME NEW sec, sec.encap \in {0, 1}, sec.enc \in Route!Encs, NEW e \in Route!MadeEncap(sec)
  PROVE  /\ e.encap = sec.encap /\ Kernels(e.encap, e.enc)
         /\ e.encap = 1 => e.enc \in Route!MadeEnc(sec.enc)
<1>1. CASE sec.encap = 0
  <2>1. e.encap = 0 /\ e.enc = Route!NoEncap
    BY <1>1 DEF Route!MadeEncap
  <2>2. Route!NoEncap \in Route!Encs
    BY BlankHop, MoreNames DEF HopTyped, Route!Hop
  <2> QED BY <1>1, <2>1, <2>2 DEF Kernels
<1>2. CASE sec.encap = 1
  <2>1. PICK x \in Route!MadeEnc(sec.enc) : e = [encap |-> 1, enc |-> x]
    BY <1>2 DEF Route!MadeEncap
  <2>2. e.encap = 1 /\ e.enc = x
    BY <2>1
  <2>3. x \in Route!Encs /\ Route!MadeEnc(x) = {x}
    BY MadeEncIs, MadeEncExact
  <2> QED BY <1>2, <2>2, <2>3 DEF Kernels
<1> QED BY <1>1, <1>2

LEMMA MadeMainIs ==
  ASSUME NEW sec, MainTyped(sec), NEW rec \in Route!MadeMains(sec)
  PROVE  /\ sec.family \in Route!Families
         /\ rec \in [DOMAIN Route!Main -> Attributes]
         /\ \A f \in {"prefsrc", "src", "pref", "rtvia"} : rec[f] = 0
         /\ Kernels(rec.encap, rec.enc)
         /\ \A f \in Route!MainWidgets \ {"prefsrc", "src", "pref", "gateway", "dev",
                                          "onlink", "encap"} : rec[f] = sec[f]
         /\ rec.nhid = sec.nhid
         /\ sec.nhid # 0 => \A f \in {"gateway", "dev", "onlink", "encap"} : rec[f] = 0
         /\ sec.nhid = 0 => \A f \in {"gateway", "dev", "onlink", "encap"} : rec[f] = sec[f]
         /\ rec.encap = 1 => rec.enc \in Route!MadeEnc(sec.enc)
<1> DEFINE said == [f \in DOMAIN sec |->
                      IF f \in {"prefsrc", "src", "pref", "rtvia"} THEN 0 ELSE sec[f]]
<1>1. sec.family \in Route!Families
  BY Zenon DEF Route!MadeMains
<1>2. /\ sec \in [DOMAIN Route!Main -> Attributes] /\ DOMAIN sec = DOMAIN Route!Main
      /\ sec.enc \in Route!Encs
  BY DEF MainTyped
<1>3. 0 \in Attributes /\ Route!NoEncap \in Route!Encs
  BY ValuesAre, BlankHop, MoreNames DEF Attributes, HopTyped, Route!Hop
<1>4. Route!Encs \subseteq Attributes /\ {0, 1} \subseteq Attributes
  BY ValuesAre DEF Attributes
<1>5. /\ said \in [DOMAIN Route!Main -> Attributes]
      /\ \A f \in {"prefsrc", "src", "pref", "rtvia"} : said[f] = 0
      /\ \A f \in DOMAIN Route!Main \ {"prefsrc", "src", "pref", "rtvia"} : said[f] = sec[f]
  BY <1>2, <1>3, Names DEF Route!MainWidgets, Route!MainMenus
<1>6. {"prefsrc", "src", "pref", "rtvia", "nhid", "gateway", "dev", "onlink", "encap", "enc"}
        \subseteq DOMAIN Route!Main
  BY Names DEF Route!MainWidgets, Route!MainMenus
<1>7. sec.encap \in {0, 1}
  BY MoreNames, ValuesAre DEF MainTyped
<1>8. CASE sec.nhid # 0
  <2>1. rec = [said EXCEPT !.gateway = 0, !.dev = 0, !.onlink = 0, !.encap = 0,
                           !.enc = Route!NoEncap]
    BY <1>1, <1>8 DEF Route!MadeMains
  <2> HIDE DEF said
  <2>2. /\ rec \in [DOMAIN Route!Main -> Attributes]
        /\ \A f \in {"gateway", "dev", "onlink", "encap"} : rec[f] = 0
        /\ rec.enc = Route!NoEncap
        /\ \A f \in DOMAIN Route!Main \ {"gateway", "dev", "onlink", "encap", "enc"} :
             rec[f] = said[f]
    BY <1>3, <1>4, <1>5, <1>6, <2>1
  <2>3. Kernels(rec.encap, rec.enc)
    BY <1>3, <2>2 DEF Kernels
  <2> QED BY <1>1, <1>5, <1>6, <1>8, <2>2, <2>3, Names, MoreNames
<1>9. CASE sec.nhid = 0
  <2>1. PICK e \in Route!MadeEncap(sec) : rec = [said EXCEPT !.encap = e.encap, !.enc = e.enc]
    BY <1>1, <1>9, Zenon DEF Route!MadeMains
  <2>2. /\ e.encap = sec.encap /\ Kernels(e.encap, e.enc)
        /\ e.encap = 1 => e.enc \in Route!MadeEnc(sec.enc)
    BY <1>2, <1>7, MadeEncapIs
  <2>3. e.enc \in Attributes /\ e.encap \in Attributes
    BY <1>4, <1>7, <2>2 DEF Kernels
  <2> HIDE DEF said
  <2>4. /\ rec \in [DOMAIN Route!Main -> Attributes]
        /\ rec.encap = e.encap /\ rec.enc = e.enc
        /\ \A f \in DOMAIN Route!Main \ {"encap", "enc"} : rec[f] = said[f]
    BY <1>5, <1>6, <2>1, <2>3
  <2> QED BY <1>1, <1>5, <1>6, <1>9, <2>2, <2>4, Names, MoreNames
<1> QED BY <1>8, <1>9

\* The hop that is made, and how its gateway and family are said.
HopMadeOf(sec, family, rec) ==
  /\ rec \in [DOMAIN Route!Hop -> Attributes]
  /\ rec.onlink = sec.onlink /\ rec.encap = sec.encap /\ Kernels(rec.encap, rec.enc)
  /\ rec.nexthop = sec.nexthop /\ rec.dev = sec.dev /\ rec.weight = sec.weight
  /\ rec.gateway \in Value /\ rec.rtvia \in Value
  /\ rec.family \in IF rec.rtvia = 0 THEN {Unset} ELSE Route!Families \ {family}
  /\ sec.rtvia = 0 => rec.rtvia = 0 /\ rec.gateway = sec.gateway
  /\ sec.rtvia # 0 => Route!Via(rec) = sec.rtvia
  /\ sec.rtvia # 0 /\ sec.family \in Route!Families \ {family} =>
       rec.rtvia # 0 /\ rec.family = sec.family

LEMMA MadeHopIs ==
  ASSUME NEW sec, HopTyped(sec), NEW family \in Route!Families,
         NEW rec \in Route!MadeHops(sec, family)
  PROVE  HopMadeOf(sec, family, rec)
<1>1. PICK via \in Route!MadeVia(sec, family), e \in Route!MadeEncap(sec) :
        rec = Route!MadeHop(sec, via, e)
  BY DEF Route!MadeHops
<1>2. /\ sec \in [DOMAIN Route!Hop -> Attributes] /\ sec.enc \in Route!Encs
      /\ sec.rtvia \in Value /\ sec.gateway \in Value /\ sec.encap \in {0, 1}
  BY MoreNames, ValuesAre DEF HopTyped
<1>3. {"onlink", "gateway", "rtvia", "family", "encap", "enc", "nexthop", "dev", "weight"}
        \subseteq DOMAIN Route!Hop
  BY Names DEF Route!HopWidgets, Route!HopMenus
<1>4. 0 \in Value /\ Unset \notin Value /\ Unset \notin Route!Families
  BY ValuesAre DEF Route!Families
<1>5. /\ via.gateway \in Value /\ via.rtvia \in Value
      /\ via.family \in IF via.rtvia = 0 THEN {Unset} ELSE Route!Families \ {family}
      /\ sec.rtvia = 0 => via.rtvia = 0 /\ via.gateway = sec.gateway
      /\ sec.rtvia # 0 => (IF via.rtvia # 0 THEN via.rtvia ELSE via.gateway) = sec.rtvia
      /\ sec.rtvia # 0 /\ sec.family \in Route!Families \ {family} =>
           via.rtvia # 0 /\ via.family = sec.family
  <2>1. CASE sec.rtvia = 0
    <3>1. via = [gateway |-> sec.gateway, rtvia |-> 0, family |-> Unset]
      BY <2>1 DEF Route!MadeVia
    <3> QED BY <1>2, <1>4, <2>1, <3>1
  <2>2. CASE sec.rtvia # 0
    <3>1. PICK n \in Route!Means(sec.family) \cap Route!Families :
            via = IF n = family THEN [gateway |-> sec.rtvia, rtvia |-> 0, family |-> Unset]
                  ELSE [gateway |-> 0, rtvia |-> sec.rtvia, family |-> n]
      BY <2>2 DEF Route!MadeVia
    <3>2. sec.family # Unset => n = sec.family
      BY DEF Route!Means
    <3> QED BY <1>2, <1>4, <2>2, <3>1, <3>2
  <2> QED BY <2>1, <2>2
<1>6. e.encap = sec.encap /\ Kernels(e.encap, e.enc)
  BY <1>2, MadeEncapIs
<1>7. {via.gateway, via.rtvia, via.family, e.encap, e.enc, 0} \subseteq Attributes
  <2>1. Value \cup {0, 1, 2, Unset} \cup Route!Encs \subseteq Attributes
    BY DEF Attributes
  <2> QED BY <1>2, <1>5, <1>6, <2>1 DEF Kernels, Route!Families
<1>8. /\ rec \in [DOMAIN Route!Hop -> Attributes]
      /\ rec.onlink = sec.onlink /\ rec.gateway = via.gateway /\ rec.rtvia = via.rtvia
      /\ rec.family = via.family /\ rec.encap = e.encap /\ rec.enc = e.enc
      /\ rec.nexthop = sec.nexthop /\ rec.dev = sec.dev /\ rec.weight = sec.weight
  BY <1>1, <1>2, <1>3, <1>7 DEF Route!MadeHop
<1> QED BY <1>5, <1>6, <1>8 DEF Route!Via, HopMadeOf

-----------------------------------------------------------------------------
(***************************************************************************)
(* A route after OK.                                                       *)
(***************************************************************************)

\* Any route whose sections have values of the right kind.
RouteTyped(w) ==
  /\ w \in Seq(RouteSecs) /\ Len(w) > 0 /\ MainTyped(w[1])
  /\ \A s \in 2 .. Len(w) : HopTyped(w[s])

\* The two sections after OK, where the commands say what was shown: all but
\* what the exceptions of MadeAsShown name.
MainFilled(sec, form, shown, esc) ==
  /\ MainTyped(sec) /\ form.encap \in {0, 1}
  /\ \A f \in Route!MainWidgets \ {"gateway", "family", "scope"} : sec[f] = form[f]
  /\ \A f \in {"family", "scope"} : sec[f] = form[f] \/ f \in esc
  /\ sec.gateway = form.gateway \/ (sec.rtvia # 0 /\ form.gateway = shown.gateway)

HopFilled(sec, form, shown, esc) ==
  /\ HopTyped(sec) /\ Drawn(Route!HopWidgets, form)
  /\ sec.nexthop = form.nexthop /\ sec.weight = form.weight /\ sec.onlink = form.onlink
  /\ sec.dev = form.dev \/ "dev" \in esc
  /\ sec.family = form.family \/ form.family = 0 \/ "family" \in esc
  /\ \/ sec.rtvia = form.gateway /\ (form.gateway # 0 \/ sec.gateway = 0)
     \/ sec.rtvia = 0 /\ sec.gateway = form.gateway
     \/ sec.gateway # 0 /\ form.gateway = 0
  /\ \/ sec.encap = form.encap
     \/ form.encap = shown.encap /\ (form.encap = 1) = (sec.enc.type = "none")
  /\ sec.encap = 1 /\ sec.enc.type = "none" => shown.encap = 0

LEMMA MainFills ==
  ASSUME NEW sec, NEW form, NEW shown, NEW esc, MainOk(sec, form, shown, esc)
  PROVE  /\ MainFilled(Route!FilledMain(sec, form, shown), form, shown, esc)
         /\ Route!FilledMain(sec, form, shown).nhid = sec.nhid
         /\ Route!FilledMain(sec, form, shown).enc = sec.enc
<1> DEFINE typed == (Route!MainWidgets \ Route!MainMenus) \cup {"dev"}
           new == Route!FilledMain(sec, form, shown)
<1>1. /\ sec \in [DOMAIN Route!Main -> Attributes] /\ DOMAIN sec = DOMAIN Route!Main
      /\ \A f \in Route!MainWidgets : sec[f] \in Values(f) /\ form[f] \in Values(f)
  BY DEF MainOk, MainTyped, Drawn
<1>2. \A f \in Route!MainWidgets : f \in DOMAIN Route!Main /\ f # "enc" /\ f # "nhid" /\ f # "rtvia"
  BY Names, MoreNames
<1>3. \A f \in Route!MainWidgets : form[f] \in Attributes
  BY <1>1, ValuesAre
<1>4. typed \subseteq Route!MainWidgets
  BY MoreNames
<1>5. /\ new \in [DOMAIN Route!Main -> Attributes]
      /\ \A f \in DOMAIN Route!Main :
           new[f] = IF f \in typed /\ form[f] # shown[f] THEN form[f] ELSE sec[f]
  BY <1>1, <1>3, <1>4 DEF Route!FilledMain
<1> HIDE DEF new
<1>6. MainTyped(new)
  BY <1>1, <1>2, <1>4, <1>5, Names DEF MainOk, MainTyped
<1>7. \A f \in Route!MainWidgets \ {"gateway", "family", "scope"} : new[f] = form[f]
  BY <1>2, <1>5, MoreNames DEF MainOk
<1>8. \A f \in {"family", "scope"} : new[f] = form[f] \/ f \in esc
  BY <1>2, <1>5, MoreNames DEF MainOk
<1>9. new.gateway = form.gateway \/ (new.rtvia # 0 /\ form.gateway = shown.gateway)
  <2>1. "gateway" \in typed /\ "gateway" \in DOMAIN Route!Main /\ "rtvia" \in DOMAIN Route!Main
          /\ "rtvia" \notin typed
    BY Names, MoreNames
  <2>2. new.rtvia = sec.rtvia
          /\ new.gateway = IF form.gateway # shown.gateway THEN form.gateway ELSE sec.gateway
    BY <1>5, <2>1
  <2>3. shown.gateway = IF sec.rtvia # 0 THEN sec.rtvia ELSE sec.gateway
    BY DEF MainOk, Route!Via
  <2> QED BY <2>2, <2>3
<1>10. new.nhid = sec.nhid /\ new.enc = sec.enc
  BY <1>2, <1>4, <1>5, Names
<1>11. form.encap \in {0, 1}
  BY <1>1, MoreNames, ValuesAre
<1> QED BY <1>6, <1>7, <1>8, <1>9, <1>10, <1>11 DEF MainFilled, new

\* The hop's attributes that FillNextHope writes.
LEMMA FilledHopIs ==
  ASSUME NEW sec, HopTyped(sec), NEW form, Drawn(Route!HopWidgets, form), NEW shown
  PROVE  LET new == Route!FilledHop(sec, form, shown)
         IN  /\ HopTyped(new)
             /\ new.rtvia = IF form.gateway # shown.gateway THEN form.gateway ELSE sec.rtvia
             /\ \A f \in {"gateway", "family", "dev", "enc"} : new[f] = sec[f]
             /\ \A f \in {"nexthop", "onlink", "encap", "weight"} :
                  new[f] = IF form[f] # shown[f] THEN form[f] ELSE sec[f]
<1> DEFINE new == Route!FilledHop(sec, form, shown)
           typed == Route!HopWidgets \ (Route!HopMenus \cup {"gateway"})
<1>1. /\ sec \in [DOMAIN Route!Hop -> Attributes] /\ DOMAIN sec = DOMAIN Route!Hop
      /\ \A f \in Route!HopWidgets : form[f] \in Values(f)
  BY DEF HopTyped, Drawn
<1>2. \A f \in Route!HopWidgets : form[f] \in Attributes
  BY <1>1, ValuesAre
<1>3. "rtvia" \notin typed /\ "gateway" \in Route!HopWidgets
  BY MoreNames
<1>4. /\ new \in [DOMAIN Route!Hop -> Attributes]
      /\ \A f \in DOMAIN Route!Hop :
           new[f] = IF f = "rtvia" /\ form.gateway # shown.gateway THEN form.gateway
                    ELSE IF f \in typed /\ form[f] # shown[f] THEN form[f] ELSE sec[f]
  BY <1>1, <1>2, <1>3 DEF Route!FilledHop
<1> HIDE DEF new
<1>5. {"gateway", "family", "dev", "enc", "rtvia", "nexthop", "onlink", "encap", "weight"}
         \subseteq DOMAIN Route!Hop
  BY Names, MoreNames
<1>6. new.rtvia = IF form.gateway # shown.gateway THEN form.gateway ELSE sec.rtvia
  BY <1>3, <1>4, <1>5
<1>7. \A f \in {"gateway", "family", "dev", "enc"} : new[f] = sec[f]
  BY <1>4, <1>5, MoreNames
<1>8. \A f \in {"nexthop", "onlink", "encap", "weight"} :
        new[f] = IF form[f] # shown[f] THEN form[f] ELSE sec[f]
  BY <1>4, <1>5, MoreNames
<1>9. HopTyped(new)
  <2>1. \A f \in Route!HopWidgets \ {"family"} : new[f] \in Values(f)
    BY <1>1, <1>4, Names, MoreNames DEF HopTyped
  <2>2. form.gateway \in Value
    BY <1>1, <1>3, ValuesAre
  <2> QED BY <1>4, <1>6, <1>7, <2>1, <2>2 DEF HopTyped
<1> QED BY <1>6, <1>7, <1>8, <1>9 DEF new

LEMMA HopFills ==
  ASSUME NEW sec, NEW form, NEW shown, NEW esc, HopOk(sec, form, shown, esc)
  PROVE  HopFilled(Route!FilledHop(sec, form, shown), form, shown, esc)
<1> DEFINE new == Route!FilledHop(sec, form, shown)
<1>1. HopTyped(sec) /\ Drawn(Route!HopWidgets, form)
  BY DEF HopOk
<1>2. /\ HopTyped(new)
      /\ new.rtvia = IF form.gateway # shown.gateway THEN form.gateway ELSE sec.rtvia
      /\ new.gateway = sec.gateway /\ new.family = sec.family /\ new.dev = sec.dev
      /\ new.enc = sec.enc
      /\ new.nexthop = IF form.nexthop # shown.nexthop THEN form.nexthop ELSE sec.nexthop
      /\ new.encap = IF form.encap # shown.encap THEN form.encap ELSE sec.encap
      /\ new.weight = IF form.weight # shown.weight THEN form.weight ELSE sec.weight
      /\ new.onlink = IF form.onlink # shown.onlink THEN form.onlink ELSE sec.onlink
  BY <1>1, FilledHopIs
<1> HIDE DEF new
<1>3. form.encap \in {0, 1} /\ shown.encap \in {0, 1}
  BY MoreNames, ValuesAre DEF HopOk, Drawn
<1>4. /\ \/ new.rtvia = form.gateway /\ (form.gateway # 0 \/ new.gateway = 0)
         \/ new.rtvia = 0 /\ new.gateway = form.gateway
         \/ new.gateway # 0 /\ form.gateway = 0
  BY <1>2 DEF HopOk, Route!Via
<1>5. /\ \/ new.encap = form.encap
         \/ form.encap = shown.encap /\ (form.encap = 1) = (new.enc.type = "none")
      /\ new.encap = 1 /\ new.enc.type = "none" => shown.encap = 0
  <2>1. sec.encap = IF sec.enc.type = "none" THEN 0 ELSE 1
    BY DEF HopOk
  <2> QED BY <1>2, <1>3, <2>1
<1> QED BY <1>1, <1>2, <1>4, <1>5 DEF HopFilled, HopOk, new

\* The new hop, whatever it held when the dialog was opened.
NewFilled(sec, form, esc, held) ==
  /\ HopTyped(sec) /\ Drawn(Route!HopWidgets, form)
  /\ sec.nexthop = IF form.nexthop # 0 THEN form.nexthop ELSE held.nexthop
  /\ sec.weight = form.weight \/ (form.weight = 0 /\ held.weight # 0)
  /\ sec.onlink = form.onlink \/ (form.onlink = 0 /\ held.onlink # 0)
  /\ sec.dev = form.dev \/ "dev" \in esc \/ (form.dev = 0 /\ held.dev # 0)
  /\ sec.family = form.family \/ form.family = 0 \/ "family" \in esc
  /\ \/ sec.rtvia = form.gateway /\ (form.gateway # 0 \/ sec.gateway = 0)
     \/ form.gateway = 0 /\ Route!Via(held) # 0
  /\ \/ sec.encap = form.encap
     \/ form.encap = 0 /\ (held.encap # 0 \/ sec.enc.type # "none")

LEMMA NewFills ==
  ASSUME NEW sec, NEW form, NEW shown, NEW esc, NEW held, NewOk(sec, form, shown, esc, held)
  PROVE  NewFilled(Route!FilledHop(sec, form, shown), form, esc, held)
<1> DEFINE new == Route!FilledHop(sec, form, shown)
<1>1. HopTyped(sec) /\ Drawn(Route!HopWidgets, form)
  BY DEF NewOk
<1>2. /\ HopTyped(new)
      /\ new.rtvia = IF form.gateway # shown.gateway THEN form.gateway ELSE sec.rtvia
      /\ new.gateway = sec.gateway /\ new.family = sec.family /\ new.dev = sec.dev
      /\ new.enc = sec.enc
      /\ new.nexthop = IF form.nexthop # shown.nexthop THEN form.nexthop ELSE sec.nexthop
      /\ new.encap = IF form.encap # shown.encap THEN form.encap ELSE sec.encap
      /\ new.weight = IF form.weight # shown.weight THEN form.weight ELSE sec.weight
      /\ new.onlink = IF form.onlink # shown.onlink THEN form.onlink ELSE sec.onlink
  BY <1>1, FilledHopIs
<1> HIDE DEF new
<1>3. /\ shown.gateway = 0 /\ shown.nexthop = 0 /\ shown.encap = 0 /\ shown.weight = 0
      /\ shown.onlink = 0
      /\ form.encap \in {0, 1}
  BY MoreNames, ValuesAre DEF NewOk, Drawn
<1>4. \/ new.rtvia = form.gateway /\ (form.gateway # 0 \/ new.gateway = 0)
      \/ form.gateway = 0 /\ Route!Via(held) # 0
  BY <1>2, <1>3 DEF NewOk, Route!Via
<1>5. \/ new.encap = form.encap
      \/ form.encap = 0 /\ (held.encap # 0 \/ new.enc.type # "none")
  <2>1. sec.encap = held.encap \/ sec.encap = IF sec.enc.type = "none" THEN 0 ELSE 1
    BY DEF NewOk
  <2> QED BY <1>2, <1>3, <2>1
<1>6. new.nexthop = IF form.nexthop # 0 THEN form.nexthop ELSE held.nexthop
  BY <1>2, <1>3 DEF NewOk
<1>7. /\ new.weight = form.weight \/ (form.weight = 0 /\ held.weight # 0)
      /\ new.onlink = form.onlink \/ (form.onlink = 0 /\ held.onlink # 0)
      /\ new.dev = form.dev \/ "dev" \in esc \/ (form.dev = 0 /\ held.dev # 0)
      /\ new.family = form.family \/ form.family = 0 \/ "family" \in esc
  BY <1>2, <1>3 DEF NewOk
<1> QED BY <1>1, <1>2, <1>4, <1>5, <1>6, <1>7 DEF NewFilled, new

\* The exceptions of MadeAsShown, section by section.
LEMMA SurprisesMain ==
  ASSUME NEW w, NEW form, NEW shown, NEW left, NEW held, NEW f \in Route!MainWidgets,
         f \notin Route!Surprises(w, form, shown, left, held, 1)
  PROVE  /\ f \notin {"prefsrc", "src", "pref"}
         /\ f \in {"family", "scope"} => f \notin Esc(left, 1)
         /\ w[1].nhid # 0 => f \notin {"gateway", "dev", "onlink", "encap"}
         /\ f = "gateway" => w[1].rtvia = 0 \/ form[1].gateway # shown[1].gateway
BY DEF Route!Surprises, Esc, EscOf

LEMMA SurprisesHop ==
  ASSUME NEW w, NEW form, NEW shown, NEW left, NEW held, NEW s, s # 1
  PROVE  LET odd == Route!Surprises(w, form, shown, left, held, s)
         IN  /\ \A f \in {"family", "dev"} : f \in Esc(left, s) => f \in odd
             /\ w[s].gateway # 0 /\ form[s].gateway = 0 => "gateway" \in odd
             /\ form[s].encap = shown[s].encap /\ (form[s].encap = 1) = (w[s].enc.type = "none")
                  => "encap" \in odd
             /\ w[s].rtvia = 0 \/ form[s].family \in {0, w[1].family} => "family" \in odd
             /\ s = Len(form) =>
                  \A f \in Route!HopWidgets :
                    form[s][f] = 0 /\ Route!ShownHop(held)[f] # 0 => f \in odd
BY DEF Route!Surprises, Esc, EscOf

\* A hop's section that says what its widgets showed, but for some of them.
HopSays(sec, form, family, odd) ==
  /\ HopTyped(sec) /\ Drawn(Route!HopWidgets, form)
  /\ sec.nexthop = 1 /\ form.nexthop = 1
  /\ \A f \in {"weight", "dev", "onlink", "encap"} \ odd : sec[f] = form[f]
  /\ "family" \in odd \/ (sec.rtvia # 0 /\ sec.family = form.family
                           /\ form.family \notin {0, family})
  /\ \/ "gateway" \in odd
     \/ sec.rtvia = form.gateway /\ (form.gateway # 0 \/ sec.gateway = 0)
     \/ sec.rtvia = 0 /\ sec.gateway = form.gateway

LEMMA HopMadeShown ==
  ASSUME NEW sec, NEW form, NEW family \in Route!Families, NEW odd,
         HopSays(sec, form, family, odd), NEW rec \in Route!MadeHops(sec, family),
         NEW f \in Route!HopWidgets \ odd
  PROVE  Route!ShownHop(rec)[f] = form[f]
<1>1. HopTyped(sec)
  BY DEF HopSays
<1>2. /\ rec.onlink = sec.onlink /\ rec.encap = sec.encap
      /\ rec.nexthop = sec.nexthop /\ rec.dev = sec.dev /\ rec.weight = sec.weight
      /\ sec.rtvia = 0 => rec.rtvia = 0 /\ rec.gateway = sec.gateway
      /\ sec.rtvia # 0 => Route!Via(rec) = sec.rtvia
      /\ sec.rtvia # 0 /\ sec.family \in Route!Families \ {family} =>
           rec.rtvia # 0 /\ rec.family = sec.family
  <2>1. HopMadeOf(sec, family, rec)
    BY <1>1, MadeHopIs
  <2> QED BY <2>1 DEF HopMadeOf
<1>3. f \in {"family", "dev", "nexthop", "onlink", "encap", "gateway", "weight"}
  BY DEF Route!HopWidgets, Route!HopMenus
<1>4. form.family \in {0, 1, 2}
  BY MoreNames, ValuesAre DEF HopSays, Drawn
<1>5. CASE f = "family"
  <2>1. sec.rtvia # 0 /\ sec.family = form.family /\ sec.family \in Route!Families \ {family}
    BY <1>4, <1>5 DEF HopSays, Route!Families
  <2> QED BY <1>2, <1>5, <2>1 DEF Route!ShownHop
<1>6. CASE f = "gateway"
  <2>1. Route!Via(rec) = form.gateway
    BY <1>2, <1>6 DEF HopSays, Route!Via
  <2> QED BY <1>6, <2>1 DEF Route!ShownHop
<1>7. CASE f = "nexthop"
  BY <1>7 DEF Route!ShownHop, HopSays
<1>8. CASE f \in {"dev", "onlink", "encap", "weight"}
  BY <1>2, <1>8 DEF Route!ShownHop, HopSays
<1> QED BY <1>3, <1>5, <1>6, <1>7, <1>8

LEMMA MainMadeShown ==
  ASSUME NEW sec, NEW form, NEW shown, NEW esc, MainFilled(sec, form, shown, esc),
         NEW rec \in Route!MadeMains(sec), NEW f \in Route!MainWidgets,
         f \notin {"prefsrc", "src", "pref"},
         f \in {"family", "scope"} => f \notin esc,
         sec.nhid # 0 => f \notin {"gateway", "dev", "onlink", "encap"},
         f = "gateway" => sec.rtvia = 0 \/ form.gateway # shown.gateway
  PROVE  Route!ShownMain(rec)[f] = form[f]
<1>1. MainTyped(sec)
  BY DEF MainFilled
<1>2. /\ rec.rtvia = 0
      /\ \A g \in Route!MainWidgets \ {"prefsrc", "src", "pref", "gateway", "dev",
                                       "onlink", "encap"} : rec[g] = sec[g]
      /\ sec.nhid = 0 => \A g \in {"gateway", "dev", "onlink", "encap"} : rec[g] = sec[g]
  BY <1>1, MadeMainIs
<1>3. rec[f] = sec[f]
  BY <1>2
<1>4. sec[f] = form[f]
  BY DEF MainFilled
<1> QED BY <1>2, <1>3, <1>4 DEF Route!ShownMain, Route!Via

\* What is shown of hops after OK.
LEMMA HopFilledSays ==
  ASSUME NEW w, NEW form, NEW shown, NEW left, NEW held, NEW s, s # 1,
         HopFilled(w[s], form[s], shown[s], Esc(left, s)), form[s].nexthop = 1
  PROVE  HopSays(w[s], form[s], w[1].family,
                 Route!Surprises(w, form, shown, left, held, s))
<1> DEFINE odd == Route!Surprises(w, form, shown, left, held, s)
<1>1. /\ "dev" \in Esc(left, s) => "dev" \in odd
      /\ "family" \in Esc(left, s) => "family" \in odd
      /\ w[s].gateway # 0 /\ form[s].gateway = 0 => "gateway" \in odd
      /\ form[s].encap = shown[s].encap /\ (form[s].encap = 1) = (w[s].enc.type = "none")
           => "encap" \in odd
      /\ w[s].rtvia = 0 \/ form[s].family \in {0, w[1].family} => "family" \in odd
  BY SurprisesHop
<1> HIDE DEF odd
<1> QED BY <1>1 DEF HopFilled, HopSays, odd

LEMMA NewFilledSays ==
  ASSUME NEW w, NEW form, NEW shown, NEW left, NEW held, NEW s, s # 1, s = Len(form),
         NewFilled(w[s], form[s], Esc(left, s), held), form[s].nexthop = 1,
         shown[s].encap = 0
  PROVE  HopSays(w[s], form[s], w[1].family,
                 Route!Surprises(w, form, shown, left, held, s))
<1> DEFINE odd == Route!Surprises(w, form, shown, left, held, s)
<1>1. /\ "dev" \in Esc(left, s) => "dev" \in odd
      /\ "family" \in Esc(left, s) => "family" \in odd
      /\ form[s].encap = shown[s].encap /\ (form[s].encap = 1) = (w[s].enc.type = "none")
           => "encap" \in odd
      /\ w[s].rtvia = 0 \/ form[s].family \in {0, w[1].family} => "family" \in odd
      /\ \A f \in Route!HopWidgets :
           form[s][f] = 0 /\ Route!ShownHop(held)[f] # 0 => f \in odd
  BY SurprisesHop
<1>2. /\ Route!ShownHop(held).weight = held.weight /\ Route!ShownHop(held).dev = held.dev
      /\ Route!ShownHop(held).encap = held.encap /\ Route!ShownHop(held).onlink = held.onlink
      /\ Route!ShownHop(held).gateway = Route!Via(held)
      /\ {"weight", "dev", "onlink", "encap", "gateway"} \subseteq Route!HopWidgets
  BY DEF Route!ShownHop, Route!HopWidgets, Route!HopMenus
<1>3. /\ form[s].weight = 0 /\ held.weight # 0 => "weight" \in odd
      /\ form[s].onlink = 0 /\ held.onlink # 0 => "onlink" \in odd
      /\ form[s].dev = 0 /\ held.dev # 0 => "dev" \in odd
      /\ form[s].encap = 0 /\ held.encap # 0 => "encap" \in odd
      /\ form[s].gateway = 0 /\ Route!Via(held) # 0 => "gateway" \in odd
  BY <1>1, <1>2
<1> HIDE DEF odd
<1> QED BY <1>1, <1>3 DEF NewFilled, HopSays, odd

-----------------------------------------------------------------------------
(***************************************************************************)
(* The record a create command makes of a route.                           *)
(***************************************************************************)

LEMMA MarkedFinite ==
  ASSUME NEW w, NEW n \in Nat, DOMAIN w = 1 .. n
  PROVE  /\ Route!Marked(w) \in SUBSET Nat /\ IsFiniteSet(Route!Marked(w))
         /\ Cardinality(Route!Marked(w)) \in Nat
         /\ Route!Marked(w) = {s \in 2 .. n : w[s].nexthop = 1}
<1>1. Route!Marked(w) = {s \in 2 .. n : w[s].nexthop = 1}
  BY DEF Route!Marked
<1>2. Route!Marked(w) \in SUBSET (2 .. n) /\ IsFiniteSet(2 .. n)
  BY <1>1, FS_Interval
<1>3. IsFiniteSet(Route!Marked(w))
  BY <1>2, FS_Subset
<1> QED BY <1>1, <1>2, <1>3, FS_CardinalityType

Hops(w) == IF w[1].nhid # 0 THEN 0 ELSE Cardinality(Route!Marked(w))

\* The record is made of the route itself and of its marked hops in order.
MadeOf(w, rec) ==
  /\ DOMAIN rec = 1 .. 1 + Hops(w) /\ Len(rec) = 1 + Hops(w) /\ Hops(w) \in Nat
  /\ rec = [s \in DOMAIN rec |-> rec[s]]
  /\ ~Route!NoWayOut(w) /\ rec[1] \in Route!MadeMains(w[1])
  /\ \A i \in 1 .. Hops(w) :
       /\ Route!InOrder(Route!Marked(w))[i] \in Route!Marked(w)
       /\ rec[i + 1] \in Route!MadeHops(w[Route!InOrder(Route!Marked(w))[i]], w[1].family)

LEMMA MadeRouteIs ==
  ASSUME NEW w, RouteTyped(w), NEW rec \in Route!Made(w)
  PROVE  MadeOf(w, rec)
<1> DEFINE I == Route!Marked(w)
           hops == IF w[1].nhid # 0 THEN << >> ELSE Route!InOrder(I)
           sets == [i \in DOMAIN hops |-> Route!MadeHops(w[hops[i]], w[1].family)]
           c == Hops(w)
<1>1. Len(w) \in Nat /\ DOMAIN w = 1 .. Len(w)
  BY DEF RouteTyped
<1>2. I \in SUBSET Nat /\ IsFiniteSet(I) /\ Cardinality(I) \in Nat
  BY <1>1, MarkedFinite
<1>3. c \in Nat /\ DOMAIN hops = 1 .. c
  BY <1>2, InOrderRanks DEF Hops
<1>4. \A i \in 1 .. c : hops[i] = Route!InOrder(I)[i] /\ hops[i] \in I
  BY <1>2, InOrderIs DEF Hops
<1>5. ~Route!NoWayOut(w)
  BY DEF Route!Made
<1>6. PICK main \in Route!MadeMains(w[1]), rest \in Route!Product(sets) :
        rec = << main >> \o rest
  <2>1. Route!Made(w) =
          {Route!Record(main, rest) :
             main \in Route!MadeMains(w[1]), rest \in Route!Product(sets)}
    BY <1>5 DEF Route!Made
  <2>2. PICK main \in Route!MadeMains(w[1]), rest \in Route!Product(sets) :
          rec = Route!Record(main, rest)
    BY <2>1
  <2> QED BY <2>2 DEF Route!Record
<1> HIDE DEF c, hops
<1>7. PICK S : rest \in [1 .. c -> S] /\ \A i \in 1 .. c : rest[i] \in sets[i]
  BY <1>3 DEF Route!Product
<1> DEFINE T == S \cup {main}
<1>8. rest \in [1 .. c -> T] /\ rest \in Seq(T) /\ Len(rest) = c
  BY <1>3, <1>7
<1>9. << main >> \in Seq(T) /\ Len(<< main >>) = 1 /\ << main >>[1] = main
  OBVIOUS
<1> HIDE DEF T, sets
<1>10. /\ rec \in Seq(T) /\ Len(rec) = 1 + c
      /\ rec[1] = main /\ \A i \in 1 .. c : rec[i + 1] = rest[i]
  BY <1>3, <1>6, <1>8, <1>9
<1>11. DOMAIN rec = 1 .. 1 + c /\ rec = [s \in DOMAIN rec |-> rec[s]]
  BY <1>3, <1>10
<1>12. \A i \in 1 .. c : sets[i] = Route!MadeHops(w[hops[i]], w[1].family)
  BY <1>3 DEF sets
<1> QED BY <1>3, <1>4, <1>5, <1>6, <1>7, <1>10, <1>11, <1>12 DEF MadeOf, c

\* The record has the way out that its command said.
LEMMA MadeHasWayOut ==
  ASSUME NEW w, RouteTyped(w), NEW rec, MadeOf(w, rec)
  PROVE  ~Route!NoWayOut(rec)
<1>1. /\ Hops(w) \in Nat /\ DOMAIN rec = 1 .. 1 + Hops(w) /\ ~Route!NoWayOut(w)
      /\ Len(w) \in Nat /\ DOMAIN w = 1 .. Len(w)
  BY DEF MadeOf, RouteTyped
<1>2. /\ w[1].family \in Route!Families /\ rec[1].nhid = w[1].nhid
      /\ rec[1].type = w[1].type
      /\ w[1].nhid = 0 => rec[1].gateway = w[1].gateway /\ rec[1].dev = w[1].dev
  <2>1. MainTyped(w[1]) /\ rec[1] \in Route!MadeMains(w[1])
    BY DEF RouteTyped, MadeOf
  <2>2. "type" \in Route!MainWidgets
    BY DEF Route!MainWidgets, Route!MainMenus
  <2> QED BY <2>1, <2>2, MadeMainIs
<1>3. ASSUME NEW s \in 2 .. 1 + Hops(w)
      PROVE  \E t \in Route!Marked(w) : HopMadeOf(w[t], w[1].family, rec[s])
  <2>1. s - 1 \in 1 .. Hops(w) /\ (s - 1) + 1 = s
    BY <1>1
  <2>2. PICK t \in Route!Marked(w) : rec[s] \in Route!MadeHops(w[t], w[1].family)
    BY <2>1 DEF MadeOf
  <2>3. HopTyped(w[t])
    BY <1>1, MarkedFinite DEF RouteTyped
  <2> QED BY <1>2, <2>2, <2>3, MadeHopIs
<1>4. Route!Marked(rec) = 2 .. 1 + Hops(w)
  <2>1. Route!Marked(w) = {t \in 2 .. Len(w) : w[t].nexthop = 1}
    BY <1>1, MarkedFinite
  <2>2. \A s \in 2 .. 1 + Hops(w) : rec[s].nexthop = 1
    BY <1>3, <2>1 DEF HopMadeOf
  <2> QED BY <1>1, <2>2 DEF Route!Marked
<1>5. CASE w[1].nhid # 0
  BY <1>2, <1>5 DEF Route!NoWayOut
<1>6. CASE w[1].nhid = 0 /\ Route!Marked(w) = {}
  <2>1. Hops(w) = 0
    BY <1>6, FS_EmptySet DEF Hops
  <2>2. Route!Marked(rec) = {}
    BY <1>4, <2>1
  <2> QED BY <1>1, <1>2, <1>6, <2>2 DEF Route!NoWayOut
<1>7. CASE w[1].nhid = 0 /\ Route!Marked(w) # {}
  <2>1. Hops(w) # 0
    BY <1>1, <1>7, MarkedFinite, FS_EmptySet DEF Hops
  <2>2. Route!Marked(rec) # {}
    BY <1>1, <1>4, <2>1
  <2>3. ASSUME NEW s \in Route!Marked(rec)
        PROVE  ~(rec[s].gateway = 0 /\ rec[s].rtvia = 0 /\ rec[s].dev = 0)
    <3>1. PICK t \in Route!Marked(w) : HopMadeOf(w[t], w[1].family, rec[s])
      BY <1>3, <1>4
    <3>2. ~(w[t].gateway = 0 /\ w[t].rtvia = 0 /\ w[t].dev = 0)
      BY <1>1, <1>7 DEF Route!NoWayOut
    <3> QED BY <3>1, <3>2 DEF HopMadeOf, Route!Via
  <2> QED BY <2>2, <2>3 DEF Route!NoWayOut
<1> QED BY <1>5, <1>6, <1>7

\* What the kernel has after a create command is a route again.
LEMMA MadeIsRoute ==
  ASSUME NEW w, RouteTyped(w), NEW rec, MadeOf(w, rec)
  PROVE  IsRoute(rec)
<1> DEFINE Sec(s) == IF s = 1 THEN Route!Main ELSE Route!Hop
           I == Route!Marked(w)
<1>1. /\ DOMAIN rec = 1 .. Len(rec) /\ Len(rec) \in Nat \ {0}
      /\ rec = [s \in 1 .. Len(rec) |-> rec[s]]
  BY DEF MadeOf
<1>2. \A f : 0 \in Values(f)
  BY ValuesAre
<1>3. MainTyped(w[1]) /\ rec[1] \in Route!MadeMains(w[1])
  BY DEF RouteTyped, MadeOf
<1>4. /\ w[1].family \in Route!Families
      /\ rec[1] = [f \in DOMAIN Route!Main |-> rec[1][f]]
      /\ \A f \in DOMAIN Route!Main \ {"enc", "family"} : rec[1][f] \in Values(f)
      /\ rec[1].family \in Route!Families
      /\ Kernels(rec[1].encap, rec[1].enc)
  <2>1. /\ w[1].family \in Route!Families
        /\ rec[1] \in [DOMAIN Route!Main -> Attributes]
        /\ \A f \in {"prefsrc", "src", "pref", "rtvia"} : rec[1][f] = 0
        /\ Kernels(rec[1].encap, rec[1].enc)
        /\ \A f \in Route!MainWidgets \ {"prefsrc", "src", "pref", "gateway", "dev",
                                          "onlink", "encap"} : rec[1][f] = w[1][f]
        /\ rec[1].nhid = w[1].nhid
        /\ w[1].nhid # 0 => \A f \in {"gateway", "dev", "onlink", "encap"} : rec[1][f] = 0
        /\ w[1].nhid = 0 => \A f \in {"gateway", "dev", "onlink", "encap"} :
                              rec[1][f] = w[1][f]
    BY <1>3, MadeMainIs
  <2>2. \A f \in Route!MainWidgets : rec[1][f] = 0 \/ rec[1][f] = w[1][f]
    BY <2>1
  <2>3. \A f \in Route!MainWidgets : rec[1][f] \in Values(f)
    BY <1>2, <1>3, <2>2 DEF MainTyped
  <2>4. rec[1].rtvia \in Values("rtvia") /\ rec[1].nhid \in Values("nhid")
    <3>1. Values("nhid") = Value
      BY DEF Values, Checks, Route!Checks, Rule!Checks, Neigh!Checks
    <3> QED BY <1>2, <1>3, <2>1, <3>1 DEF MainTyped
  <2>5. rec[1].family = w[1].family
    BY <2>1, MoreNames
  <2> QED BY <2>1, <2>3, <2>4, <2>5, Names
<1>5. ASSUME NEW s \in 2 .. Len(rec)
      PROVE  /\ rec[s] = [f \in DOMAIN Route!Hop |-> rec[s][f]]
             /\ \A f \in DOMAIN Route!Hop \ {"enc", "family"} : rec[s][f] \in Values(f)
             /\ rec[s].family \in IF rec[s].rtvia = 0 THEN {Unset} ELSE Route!Families
             /\ Kernels(rec[s].encap, rec[s].enc) /\ rec[s].nexthop = 1
  <2>1. s - 1 \in 1 .. Hops(w) /\ (s - 1) + 1 = s
    BY <1>1 DEF MadeOf
  <2>2. PICK t \in I : rec[s] \in Route!MadeHops(w[t], w[1].family)
    BY <2>1 DEF MadeOf
  <2>3. t \in 2 .. Len(w) /\ w[t].nexthop = 1
    BY MarkedFinite DEF RouteTyped
  <2>4. HopTyped(w[t])
    BY <2>3 DEF RouteTyped
  <2>5. HopMadeOf(w[t], w[1].family, rec[s])
    BY <1>4, <2>2, <2>4, MadeHopIs
  <2>6. /\ \A f \in {"onlink", "encap", "nexthop", "dev", "weight"} :
             rec[s][f] = 0 \/ rec[s][f] = w[t][f]
        /\ rec[s].gateway \in Value /\ rec[s].rtvia \in Value
    BY <2>5 DEF HopMadeOf
  <2>7. \A f \in {"onlink", "encap", "nexthop", "dev", "weight"} : rec[s][f] \in Values(f)
    <3>1. {"onlink", "encap", "nexthop", "dev", "weight"} \subseteq Route!HopWidgets \ {"family"}
      BY DEF Route!HopWidgets, Route!HopMenus
    <3> QED BY <1>2, <2>4, <2>6, <3>1 DEF HopTyped
  <2>8. Values("gateway") = Value /\ Values("rtvia") = Value
    BY DEF Values, Checks, Route!Checks, Rule!Checks, Neigh!Checks
  <2>9. DOMAIN Route!Hop \ {"enc", "family"} =
          {"onlink", "encap", "nexthop", "dev", "weight", "gateway", "rtvia"}
    BY Names DEF Route!HopWidgets, Route!HopMenus
  <2> QED BY <2>3, <2>5, <2>6, <2>7, <2>8, <2>9 DEF HopMadeOf
<1>6. rec = [s \in 1 .. Len(rec) |-> [f \in DOMAIN Sec(s) |-> rec[s][f]]]
  <2>1. ASSUME NEW s \in 1 .. Len(rec)
        PROVE  rec[s] = [f \in DOMAIN Sec(s) |-> rec[s][f]]
    <3>1. CASE s = 1
      BY <1>4, <3>1
    <3>2. CASE s # 1
      <4>1. s \in 2 .. Len(rec)
        BY <3>2
      <4> QED BY <1>5, <3>2, <4>1
    <3> QED BY <3>1, <3>2
  <2> HIDE DEF Sec
  <2> QED BY <1>1, <2>1
<1>7. ASSUME NEW s \in 1 .. Len(rec)
      PROVE  /\ DOMAIN rec[s] = DOMAIN Sec(s)
             /\ \A f \in DOMAIN rec[s] \ {"enc", "family"} : rec[s][f] \in Values(f)
             /\ rec[s].family \in IF s > 1 /\ rec[s].rtvia = 0 THEN {Unset} ELSE Route!Families
             /\ rec[s].enc \in Route!Encs
             /\ IF rec[s].encap = 1 THEN Route!MadeEnc(rec[s].enc) = {rec[s].enc}
                ELSE rec[s].enc = Route!NoEncap
             /\ s > 1 => rec[s].nexthop = 1
  <2>1. CASE s = 1
    <3>1. DOMAIN rec[1] = DOMAIN Route!Main
      BY <1>4
    <3>2. /\ rec[1].enc \in Route!Encs
          /\ IF rec[1].encap = 1 THEN Route!MadeEnc(rec[1].enc) = {rec[1].enc}
             ELSE rec[1].enc = Route!NoEncap
      BY <1>4 DEF Kernels
    <3>3. Sec(s) = Route!Main /\ ~(s > 1)
      BY <2>1
    <3> HIDE DEF Sec
    <3> QED BY <1>4, <2>1, <3>1, <3>2, <3>3
  <2>2. CASE s # 1
    <3>1. s \in 2 .. Len(rec)
      BY <2>2
    <3>2. DOMAIN rec[s] = DOMAIN Route!Hop
      BY <1>5, <3>1
    <3>3. /\ rec[s].enc \in Route!Encs
          /\ IF rec[s].encap = 1 THEN Route!MadeEnc(rec[s].enc) = {rec[s].enc}
             ELSE rec[s].enc = Route!NoEncap
      BY <1>5, <3>1 DEF Kernels
    <3>4. Sec(s) = Route!Hop /\ s > 1
      BY <2>2
    <3> HIDE DEF Sec
    <3> QED BY <1>5, <3>1, <3>2, <3>3, <3>4
  <2> QED BY <2>1, <2>2
<1> HIDE DEF Sec
<1>8. DOMAIN rec = 1 .. Len(rec)
  BY <1>1
<1>9. ~Route!NoWayOut(rec)
  BY MadeHasWayOut
<1> QED BY <1>1, <1>6, <1>7, <1>8, <1>9 DEF IsRoute, Sec

-----------------------------------------------------------------------------
(***************************************************************************)
(* OK on a route.                                                          *)
(***************************************************************************)

\* The working copy and new_nh after OK: new_nh is a section of the route when
\* it is marked.
AfterOk(d, w, hop) ==
  LET n == Len(d.work)
  IN  /\ RouteTyped(w)
      /\ w[1].nhid = d.work[1].nhid /\ w[1].enc = d.work[1].enc
      /\ MainFilled(w[1], d.form[1], d.shown[1], Esc(d.left, 1))
      /\ \A s \in 2 .. n : HopFilled(w[s], d.form[s], d.shown[s], Esc(d.left, s))
      /\ NewFilled(hop, d.form[n + 1], Esc(d.left, n + 1), d.held)
      /\ Len(w) = IF hop.nexthop = 1 THEN n + 1 ELSE n
      /\ hop.nexthop = 1 => w[n + 1] = hop

LEMMA FilledIs ==
  ASSUME NEW d, NEW new, RouteDlg(d, new)
  PROVE  LET filled == Route!Filled(d.work, new, d.form, d.shown)
         IN  /\ AfterOk(d, filled[1], filled[2])
             /\ new.nexthop = d.held.nexthop
             /\ d.shown[Len(d.work) + 1].encap = 0
<1> DEFINE n == Len(d.work)
           hop == Route!FilledHop(new, d.form[n + 1], d.shown[n + 1])
           secs == [i \in DOMAIN d.work |->
                      IF i = 1 THEN Route!FilledMain(d.work[1], d.form[1], d.shown[1])
                      ELSE Route!FilledHop(d.work[i], d.form[i], d.shown[i])]
           w == IF hop.nexthop = 1 THEN Append(secs, hop) ELSE secs
<1>1. /\ d.work \in Seq(RouteSecs) /\ n \in Nat /\ n > 0 /\ DOMAIN d.work = 1 .. n
      /\ DOMAIN d.form = 1 .. n + 1
  BY DEF RouteDlg
<1>2. Len(d.form) = n + 1
  BY <1>1
<1>3. Route!Filled(d.work, new, d.form, d.shown) = << w, hop >>
  <2> HIDE DEF n
  <2> QED BY <1>2 DEF Route!Filled
<1>4. MainOk(d.work[1], d.form[1], d.shown[1], Esc(d.left, 1))
  <2>1. 1 \in 1 .. n + 1 /\ 1 =< n
    BY <1>1
  <2> QED BY <2>1 DEF RouteDlg, SecOk
<1>5. \A s \in 2 .. n : HopOk(d.work[s], d.form[s], d.shown[s], Esc(d.left, s))
  <2> SUFFICES ASSUME NEW s \in 2 .. n
               PROVE  HopOk(d.work[s], d.form[s], d.shown[s], Esc(d.left, s))
    OBVIOUS
  <2>1. s \in 1 .. n + 1 /\ s =< n
    BY <1>1
  <2> QED BY <2>1 DEF RouteDlg, SecOk
<1>6. NewOk(new, d.form[n + 1], d.shown[n + 1], Esc(d.left, n + 1), d.held)
  <2>1. n + 1 \in 1 .. n + 1 /\ ~(n + 1 =< n)
    BY <1>1
  <2> QED BY <2>1 DEF RouteDlg, SecOk
<1> HIDE DEF n
<1>7. /\ DOMAIN secs = 1 .. n
      /\ MainFilled(secs[1], d.form[1], d.shown[1], Esc(d.left, 1))
      /\ secs[1].nhid = d.work[1].nhid /\ secs[1].enc = d.work[1].enc
  BY <1>1, <1>4, MainFills
<1>8. \A s \in 2 .. n : HopFilled(secs[s], d.form[s], d.shown[s], Esc(d.left, s))
  BY <1>1, <1>5, HopFills
<1>9. NewFilled(hop, d.form[n + 1], Esc(d.left, n + 1), d.held)
  BY <1>6, NewFills
<1>10. MainTyped(secs[1]) /\ (\A s \in 2 .. n : HopTyped(secs[s])) /\ HopTyped(hop)
  <2> HIDE DEF secs, hop
  <2>1. MainTyped(secs[1])
    BY <1>7 DEF MainFilled
  <2>2. \A s \in 2 .. n : HopTyped(secs[s])
    BY <1>8 DEF HopFilled
  <2>3. HopTyped(hop)
    BY <1>9 DEF NewFilled
  <2> QED BY <2>1, <2>2, <2>3
<1>11. hop \in RouteSecs /\ \A s \in 1 .. n : secs[s] \in RouteSecs
  <2>1. ASSUME NEW s \in 1 .. n PROVE secs[s] \in RouteSecs
    <3>1. s = 1 \/ s \in 2 .. n
      BY <1>1
    <3> HIDE DEF secs
    <3> QED BY <1>10, <3>1 DEF MainTyped, HopTyped, RouteSecs
  <2> QED BY <1>10, <2>1, Zenon DEF HopTyped, RouteSecs
<1>12. secs \in Seq(RouteSecs) /\ Len(secs) = n
  <2>1. secs \in [1 .. n -> RouteSecs]
    BY <1>1, <1>11
  <2> HIDE DEF secs
  <2> QED BY <1>1, <2>1
<1> HIDE DEF secs, hop
<1>13. /\ w \in Seq(RouteSecs) /\ Len(w) = IF hop.nexthop = 1 THEN n + 1 ELSE n
       /\ \A s \in 1 .. n : w[s] = secs[s]
       /\ hop.nexthop = 1 => w[n + 1] = hop
  <2>1. /\ Append(secs, hop) \in Seq(RouteSecs) /\ Len(Append(secs, hop)) = n + 1
        /\ \A s \in 1 .. n : Append(secs, hop)[s] = secs[s]
        /\ Append(secs, hop)[n + 1] = hop
    BY <1>1, <1>11, <1>12
  <2> QED BY <1>12, <2>1
<1> HIDE DEF w
<1>14. 1 \in 1 .. n /\ \A s \in 2 .. n : s \in 1 .. n
  BY <1>1
<1>15. RouteTyped(w)
  <2>1. Len(w) > 0 /\ MainTyped(w[1])
    BY <1>1, <1>10, <1>13, <1>14
  <2>2. ASSUME NEW s \in 2 .. Len(w) PROVE HopTyped(w[s])
    <3>1. CASE s \in 2 .. n
      BY <1>10, <1>13, <1>14, <3>1
    <3>2. CASE s \notin 2 .. n
      <4>1. hop.nexthop = 1 /\ s = n + 1
        BY <1>1, <1>13, <3>2
      <4> QED BY <1>10, <1>13, <4>1
    <3> QED BY <3>1, <3>2
  <2> QED BY <1>13, <2>1, <2>2 DEF RouteTyped
<1>16. AfterOk(d, w, hop)
  BY <1>7, <1>8, <1>9, <1>13, <1>14, <1>15 DEF AfterOk, n
<1>17. new.nexthop = d.held.nexthop /\ d.shown[n + 1].encap = 0
  BY <1>6, MoreNames DEF NewOk
<1> QED BY <1>3, <1>16, <1>17 DEF n

\* The hops of the record and those that are checked in the dialog.
LEMMA MarkedAfter ==
  ASSUME NEW d, NEW w, NEW hop, AfterOk(d, w, hop), Len(d.work) \in Nat, Len(d.work) > 0,
         DOMAIN d.form = 1 .. Len(d.work) + 1
  PROVE  LET n == Len(d.work)
             I == Route!Marked(d.form)
             J == Route!Marked(w)
         IN  /\ I \in SUBSET Nat /\ IsFiniteSet(I) /\ Cardinality(I) \in Nat
             /\ I = {s \in 2 .. n + 1 : d.form[s].nexthop = 1}
             /\ J = I \cup (IF hop.nexthop = 1 THEN {n + 1} ELSE {})
             /\ n + 1 \in I => hop.nexthop = 1
             /\ n + 1 \notin I => \A i \in I : i < n + 1
             /\ Cardinality(J) = Cardinality(I) +
                  IF hop.nexthop = 1 /\ n + 1 \notin I THEN 1 ELSE 0
             /\ \A k \in 1 .. Cardinality(I) :
                  Route!InOrder(J)[k] = Route!InOrder(I)[k] /\ Route!InOrder(I)[k] \in I
<1> DEFINE n == Len(d.work)
           I == Route!Marked(d.form)
           J == Route!Marked(w)
<1>1. n \in Nat /\ n > 0 /\ n + 1 \in Nat
  OBVIOUS
<1>2. /\ I \in SUBSET Nat /\ IsFiniteSet(I) /\ Cardinality(I) \in Nat
      /\ I = {s \in 2 .. n + 1 : d.form[s].nexthop = 1}
  BY <1>1, MarkedFinite
<1>3. /\ Len(w) \in Nat /\ DOMAIN w = 1 .. Len(w)
      /\ Len(w) = IF hop.nexthop = 1 THEN n + 1 ELSE n
      /\ hop.nexthop = 1 => w[n + 1] = hop
      /\ \A s \in 2 .. n : w[s].nexthop = d.form[s].nexthop
  BY DEF AfterOk, RouteTyped, HopFilled
<1>4. J = {s \in 2 .. Len(w) : w[s].nexthop = 1}
  BY <1>3, MarkedFinite
<1>5. d.form[n + 1].nexthop = 1 => hop.nexthop = 1
  BY DEF AfterOk, NewFilled
<1> HIDE DEF n, I, J
<1>6. J = I \cup (IF hop.nexthop = 1 THEN {n + 1} ELSE {})
  <2>1. \A s : s \in 2 .. n + 1 <=> s \in 2 .. n \/ s = n + 1
    BY <1>1
  <2>2. n + 1 \notin 2 .. n
    BY <1>1
  <2>3. CASE hop.nexthop = 1
    BY <1>2, <1>3, <1>4, <2>1, <2>2, <2>3
  <2>4. CASE hop.nexthop # 1
    BY <1>2, <1>3, <1>4, <1>5, <2>1, <2>2, <2>4
  <2> QED BY <2>3, <2>4
<1>7. n + 1 \in I => hop.nexthop = 1
  BY <1>2, <1>5
<1>8. n + 1 \notin I => \A i \in I : i < n + 1
  <2> SUFFICES ASSUME n + 1 \notin I, NEW i \in I PROVE i < n + 1
    OBVIOUS
  <2>1. i \in 2 .. n + 1 /\ i # n + 1
    BY <1>2
  <2> QED BY <1>1, <2>1
<1>9. CASE n + 1 \in I \/ hop.nexthop # 1
  <2>1. J = I
    BY <1>6, <1>7, <1>9
  <2>2. \A k \in 1 .. Cardinality(I) :
          Route!InOrder(J)[k] = Route!InOrder(I)[k] /\ Route!InOrder(I)[k] \in I
    BY <1>2, <2>1, InOrderIs
  <2>3. Cardinality(J) = Cardinality(I) + IF hop.nexthop = 1 /\ n + 1 \notin I THEN 1 ELSE 0
    BY <1>2, <1>9, <2>1
  <2> QED BY <1>2, <1>6, <1>7, <1>8, <2>2, <2>3 DEF n, I, J
<1>10. CASE ~(n + 1 \in I \/ hop.nexthop # 1)
  <2>1. J = I \cup {n + 1}
    BY <1>6, <1>10
  <2>2. Cardinality(J) = Cardinality(I) + 1
    BY <1>2, <1>10, <2>1, FS_AddElement
  <2>3. ASSUME NEW k \in 1 .. Cardinality(I)
        PROVE  Route!InOrder(J)[k] = Route!InOrder(I)[k] /\ Route!InOrder(I)[k] \in I
    <3>1. \A i \in I : i < n + 1
      BY <1>8, <1>10
    <3>2. Route!InOrder(I \cup {n + 1})[k] = Route!InOrder(I)[k]
      BY <1>1, <1>2, <3>1, InOrderPrefix
    <3>3. Route!InOrder(I)[k] \in I
      BY <1>2, InOrderIs
    <3> QED BY <2>1, <3>2, <3>3
  <2>4. Cardinality(J) = Cardinality(I) + IF hop.nexthop = 1 /\ n + 1 \notin I THEN 1 ELSE 0
    BY <1>10, <2>2
  <2> QED BY <1>2, <1>6, <1>7, <1>8, <2>3, <2>4, Zenon DEF n, I, J
<1> QED BY <1>9, <1>10

\* The sections a route is made from.
Places(w, form) ==
  IF w[1].nhid # 0 THEN << 1 >> ELSE << 1 >> \o Route!InOrder(Route!Marked(form))

\* The first c of the marked hops of a form, after the route itself.
Lists(places, form, c) ==
  /\ c \in Nat /\ Len(places) = 1 + c /\ DOMAIN places = 1 .. 1 + c
  /\ places[1] = 1
  /\ \A k \in 1 .. c : places[k + 1] = Route!InOrder(Route!Marked(form))[k]

LEMMA PlacesAre ==
  ASSUME NEW w, NEW form, NEW n \in Nat, DOMAIN form = 1 .. n
  PROVE  Lists(Places(w, form), form,
               IF w[1].nhid # 0 THEN 0 ELSE Cardinality(Route!Marked(form)))
<1> USE DEF Lists
<1> DEFINE I == Route!Marked(form)
           order == Route!InOrder(I)
<1>1. I \in SUBSET Nat /\ IsFiniteSet(I) /\ Cardinality(I) \in Nat
  BY MarkedFinite
<1> HIDE DEF I
<1>2. DOMAIN order = 1 .. Cardinality(I) /\ \A k \in 1 .. Cardinality(I) : order[k] \in I
  BY <1>1, InOrderIs, InOrderRanks
<1>3. order \in Seq(Nat) /\ Len(order) = Cardinality(I)
  <2> DEFINE F(k) == CHOOSE i \in I : Rank(I, i) = k
  <2>3. order = [k \in 1 .. Cardinality(I) |-> F(k)]
    BY InOrderRanks
  <2> HIDE DEF F, order
  <2>1. order = [k \in 1 .. Cardinality(I) |-> order[k]]
    BY <2>3
  <2> HIDE DEF order
  <2>2. order \in [1 .. Cardinality(I) -> Nat]
    BY <1>1, <1>2, <2>1
  <2> QED BY <1>1, <2>2
<1> HIDE DEF order
<1>4. CASE w[1].nhid # 0
  <2>1. Places(w, form) = << 1 >>
    BY <1>4 DEF Places
  <2> QED BY <1>4, <2>1 DEF I
<1>5. CASE w[1].nhid = 0
  <2>1. Places(w, form) = << 1 >> \o order
    BY <1>5 DEF Places, order, I
  <2>2. << 1 >> \in Seq(Nat) /\ Len(<< 1 >>) = 1 /\ << 1 >>[1] = 1
    OBVIOUS
  <2>3. /\ Len(<< 1 >> \o order) = 1 + Cardinality(I)
        /\ << 1 >> \o order \in Seq(Nat)
        /\ (<< 1 >> \o order)[1] = 1
        /\ \A k \in 1 .. Cardinality(I) : (<< 1 >> \o order)[k + 1] = order[k]
    BY <1>1, <1>3, <2>2
  <2>4. DOMAIN (<< 1 >> \o order) = 1 .. 1 + Cardinality(I)
    BY <1>1, <2>3
  <2> QED BY <1>1, <1>5, <2>1, <2>3, <2>4 DEF I, order
<1> QED BY <1>4, <1>5

\* Every attribute of the record is what the dialog showed, but for the exceptions.
LEMMA RouteMadeShown ==
  ASSUME NEW d, NEW w, NEW hop, AfterOk(d, w, hop), Len(d.work) \in Nat, Len(d.work) > 0,
         DOMAIN d.form = 1 .. Len(d.work) + 1, d.shown[Len(d.work) + 1].encap = 0,
         NEW rec, MadeOf(w, rec), NEW i \in DOMAIN Places(w, d.form),
         NEW f \in IF Places(w, d.form)[i] = 1 THEN Route!MainWidgets ELSE Route!HopWidgets,
         f \notin Route!Surprises(w, d.form, d.shown, d.left, d.held, Places(w, d.form)[i])
  PROVE  Route!Shown(rec)[i][f] = d.form[Places(w, d.form)[i]][f]
<1> DEFINE n == Len(d.work)
           I == Route!Marked(d.form)
           J == Route!Marked(w)
           s == Places(w, d.form)[i]
           c == IF w[1].nhid # 0 THEN 0 ELSE Cardinality(I)
<1>1. /\ n \in Nat /\ n > 0 /\ n + 1 \in Nat
      /\ Cardinality(I) \in Nat /\ I = {t \in 2 .. n + 1 : d.form[t].nexthop = 1}
      /\ J = I \cup (IF hop.nexthop = 1 THEN {n + 1} ELSE {})
      /\ n + 1 \in I => hop.nexthop = 1
      /\ Cardinality(J) = Cardinality(I) + IF hop.nexthop = 1 /\ n + 1 \notin I THEN 1 ELSE 0
      /\ \A k \in 1 .. Cardinality(I) :
           Route!InOrder(J)[k] = Route!InOrder(I)[k] /\ Route!InOrder(I)[k] \in I
  BY MarkedAfter
<1>2. /\ c \in Nat /\ DOMAIN Places(w, d.form) = 1 .. 1 + c /\ Places(w, d.form)[1] = 1
      /\ \A k \in 1 .. c : Places(w, d.form)[k + 1] = Route!InOrder(I)[k]
  <2> DEFINE m == n + 1
  <2>1. m \in Nat /\ DOMAIN d.form = 1 .. m
    BY <1>1
  <2> HIDE DEF m
  <2>2. Lists(Places(w, d.form), d.form, c)
    BY <2>1, PlacesAre, Zenon DEF c, I
  <2> HIDE DEF c
  <2> QED BY <2>2, Zenon DEF Lists, I
<1>3. /\ DOMAIN rec = 1 .. 1 + Hops(w) /\ Len(rec) = 1 + Hops(w) /\ Hops(w) \in Nat
      /\ rec[1] \in Route!MadeMains(w[1])
      /\ \A k \in 1 .. Hops(w) : rec[k + 1] \in Route!MadeHops(w[Route!InOrder(J)[k]], w[1].family)
  BY DEF MadeOf
<1>4. MainFilled(w[1], d.form[1], d.shown[1], Esc(d.left, 1)) /\ MainTyped(w[1])
  BY DEF AfterOk, MainFilled
<1>5. w[1].family \in Route!Families
  BY <1>3, <1>4, MadeMainIs
<1> HIDE DEF n, I, J
<1>6. i \in 1 .. 1 + c
  BY <1>2
<1>7. CASE i = 1
  <2>1. s = 1 /\ f \in Route!MainWidgets
    BY <1>2, <1>7
  <2>2. /\ f \notin {"prefsrc", "src", "pref"}
        /\ f \in {"family", "scope"} => f \notin Esc(d.left, 1)
        /\ w[1].nhid # 0 => f \notin {"gateway", "dev", "onlink", "encap"}
        /\ f = "gateway" => w[1].rtvia = 0 \/ d.form[1].gateway # d.shown[1].gateway
    BY <2>1, SurprisesMain
  <2>3. Route!ShownMain(rec[1])[f] = d.form[1][f]
    BY <1>3, <1>4, <2>1, <2>2, MainMadeShown
  <2>4. Route!Shown(rec)[1] = Route!ShownMain(rec[1])
    BY <1>3 DEF Route!Shown
  <2> QED BY <1>7, <2>1, <2>3, <2>4
<1>8. CASE i # 1
  <2> DEFINE k == i - 1
  <2>1. k \in 1 .. c /\ k + 1 = i
    BY <1>2, <1>6, <1>8
  <2>2. w[1].nhid = 0 /\ c = Cardinality(I)
    BY <2>1
  <2>3. k \in 1 .. Cardinality(I)
    BY <2>1, <2>2
  <2> HIDE DEF c, k
  <2>4. s = Route!InOrder(I)[k] /\ s \in I /\ s = Route!InOrder(J)[k]
    BY <1>1, <1>2, <2>1, <2>3
  <2>5. k \in 1 .. Hops(w)
    <3>1. Hops(w) = Cardinality(J)
      BY <2>2 DEF Hops, J
    <3> QED BY <1>1, <2>3, <3>1
  <2> HIDE DEF s
  <2>6. s \in 2 .. n + 1 /\ d.form[s].nexthop = 1 /\ s # 1
    <3>1. I = {t \in 2 .. n + 1 : d.form[t].nexthop = 1}
      BY <1>1
    <3>2. s \in 2 .. n + 1 /\ d.form[s].nexthop = 1
      BY <2>4, <3>1
    <3> QED BY <1>1, <3>2
  <2>7. rec[i] \in Route!MadeHops(w[s], w[1].family)
    BY <1>3, <2>1, <2>4, <2>5
  <2>8. HopSays(w[s], d.form[s], w[1].family,
                Route!Surprises(w, d.form, d.shown, d.left, d.held, s))
    <3>1. CASE s \in 2 .. n
      <4>1. HopFilled(w[s], d.form[s], d.shown[s], Esc(d.left, s))
        BY <3>1 DEF AfterOk, n
      <4> QED BY <2>6, <4>1, HopFilledSays
    <3>2. CASE s \notin 2 .. n
      <4>1. s = n + 1
        BY <1>1, <2>6, <3>2
      <4>2. w[s] = hop
        BY <1>1, <2>4, <4>1, Zenon DEF AfterOk, n
      <4>3. NewFilled(w[s], d.form[s], Esc(d.left, s), d.held) /\ d.shown[s].encap = 0
        BY <4>1, <4>2 DEF AfterOk, n
      <4>4. s = Len(d.form)
        BY <1>1, <4>1 DEF n
      <4> QED BY <2>6, <4>3, <4>4, NewFilledSays
    <3> QED BY <3>1, <3>2
  <2>9. f \in Route!HopWidgets /\ f \notin Route!Surprises(w, d.form, d.shown, d.left, d.held, s)
    BY <2>6 DEF s
  <2>10. Route!ShownHop(rec[i])[f] = d.form[s][f]
    BY <1>5, <2>7, <2>8, <2>9, HopMadeShown
  <2>11. Route!Shown(rec)[i] = Route!ShownHop(rec[i])
    <3>1. i \in 2 .. Len(rec) /\ i \in 1 .. Len(rec) + 1 /\ i # 1
      BY <1>3, <1>6, <1>8, <2>1, <2>5
    <3> QED BY <3>1 DEF Route!Shown
  <2> QED BY <2>10, <2>11 DEF s
<1> QED BY <1>7, <1>8

\* An encapsulation no command is written for.
Unwritten(sec) == sec.encap = 1 /\ sec.enc.type \in {"none", "other"}

LEMMA SomeEncap ==
  ASSUME NEW sec, sec.encap \in {0, 1}, sec.enc \in Route!Encs, ~Unwritten(sec)
  PROVE  Route!MadeEncap(sec) # {}
<1>1. CASE sec.encap = 0
  BY <1>1 DEF Route!MadeEncap
<1>2. CASE sec.encap = 1
  <2>1. PICK e : e \in Route!MadeEnc(sec.enc)
    BY <1>2, MadeEncExists DEF Unwritten
  <2>2. [encap |-> 1, enc |-> e] \in Route!MadeEncap(sec)
    BY <1>2, <2>1 DEF Route!MadeEncap
  <2> QED BY <2>2
<1> QED BY <1>1, <1>2

LEMMA SomeMain ==
  ASSUME NEW sec, MainTyped(sec), sec.family # 0, ~Unwritten(sec)
  PROVE  Route!MadeMains(sec) # {}
<1>1. sec.family \in Route!Families /\ sec.encap \in {0, 1} /\ sec.enc \in Route!Encs
  <2>1. sec.family \in {0, 1, 2} /\ sec.encap \in {0, 1} /\ sec.enc \in Route!Encs
    BY MoreNames, ValuesAre DEF MainTyped
  <2> QED BY <2>1 DEF Route!Families
<1>2. PICK e : e \in Route!MadeEncap(sec)
  BY <1>1, SomeEncap
<1> DEFINE said == [f \in DOMAIN sec |->
                      IF f \in {"prefsrc", "src", "pref", "rtvia"} THEN 0 ELSE sec[f]]
           Rec(x) == [said EXCEPT !.encap = x.encap, !.enc = x.enc]
           objects == [said EXCEPT !.gateway = 0, !.dev = 0, !.onlink = 0, !.encap = 0,
                                   !.enc = Route!NoEncap]
<1>3. Route!MadeMains(sec) =
        IF sec.family \notin Route!Families THEN {}
        ELSE IF sec.nhid # 0 THEN {objects}
        ELSE {Rec(x) : x \in Route!MadeEncap(sec)}
  BY DEF Route!MadeMains
<1> HIDE DEF Rec, objects
<1>4. Rec(e) \in {Rec(x) : x \in Route!MadeEncap(sec)}
  BY <1>2
<1> QED BY <1>1, <1>3, <1>4

LEMMA SomeHop ==
  ASSUME NEW sec, HopTyped(sec), sec.family # 0, ~Unwritten(sec), NEW family
  PROVE  Route!MadeHops(sec, family) # {}
<1>1. sec.encap \in {0, 1} /\ sec.enc \in Route!Encs
         /\ sec.family \in {1, 2, Unset}
  <2>1. sec.family \in {0, 1, 2, Unset} /\ sec.encap \in {0, 1} /\ sec.enc \in Route!Encs
    BY MoreNames, ValuesAre DEF HopTyped
  <2> QED BY <2>1
<1>2. PICK e : e \in Route!MadeEncap(sec)
  BY <1>1, SomeEncap
<1>3. PICK via : via \in Route!MadeVia(sec, family)
  <2>1. CASE sec.rtvia = 0
    BY <2>1 DEF Route!MadeVia
  <2>2. CASE sec.rtvia # 0
    <3>1. 1 \in Route!Value
      BY RecordEditAssumption DEF Route!Value
    <3>2. PICK n : n \in Route!Means(sec.family) \cap Route!Families
      BY <1>1, <3>1 DEF Route!Means, Route!Families
    <3> DEFINE Via(k) == IF k = family
                         THEN [gateway |-> sec.rtvia, rtvia |-> 0, family |-> Unset]
                         ELSE [gateway |-> 0, rtvia |-> sec.rtvia, family |-> k]
    <3>3. Route!MadeVia(sec, family) =
            {Via(k) : k \in Route!Means(sec.family) \cap Route!Families}
      BY <2>2 DEF Route!MadeVia
    <3> HIDE DEF Via
    <3> QED BY <3>2, <3>3
  <2> QED BY <2>1, <2>2
<1> QED BY <1>2, <1>3 DEF Route!MadeHops

\* A section that leaves a route, or a hop, without a way out.
Stuck(w, s) ==
  IF s = 1 THEN Route!Marked(w) = {} /\ w[1].type \in {0, 1} /\ w[1].gateway = 0 /\ w[1].dev = 0
  ELSE w[s].gateway = 0 /\ w[s].rtvia = 0 /\ w[s].dev = 0

\* The sections a command is made from.
Parts(w) == {1} \cup Route!Marked(w)

\* Nothing can be made of a route only for one of three reasons.
LEMMA RouteRefused ==
  ASSUME NEW w, RouteTyped(w), Route!Made(w) = {}
  PROVE  \E s \in Parts(w) : w[s].family = 0 \/ Unwritten(w[s]) \/ Stuck(w, s)
<1> SUFFICES ASSUME \A s \in Parts(w) : w[s].family # 0 /\ ~Unwritten(w[s]) /\ ~Stuck(w, s)
             PROVE  FALSE
  OBVIOUS
<1> DEFINE I == Route!Marked(w)
           hops == IF w[1].nhid # 0 THEN << >> ELSE Route!InOrder(I)
           sets == [i \in DOMAIN hops |-> Route!MadeHops(w[hops[i]], w[1].family)]
           rest == [i \in DOMAIN hops |-> CHOOSE h : h \in sets[i]]
<1>1. Len(w) \in Nat /\ DOMAIN w = 1 .. Len(w) /\ 1 \in Parts(w) /\ I \subseteq Parts(w)
  BY DEF RouteTyped, Parts
<1>2. PICK main : main \in Route!MadeMains(w[1])
  BY <1>1, SomeMain DEF RouteTyped
<1>3. I \in SUBSET Nat /\ IsFiniteSet(I) /\ Cardinality(I) \in Nat
        /\ I = {s \in 2 .. Len(w) : w[s].nexthop = 1}
  BY <1>1, MarkedFinite
<1>4. ~Route!NoWayOut(w)
  <2>1. \A s \in I : s # 1
    BY <1>3
  <2> QED BY <1>1, <2>1 DEF Stuck, Route!NoWayOut
<1> HIDE DEF I
<1>5. \A i \in DOMAIN hops : hops[i] \in I
  BY <1>3, InOrderIs, InOrderRanks
<1> HIDE DEF hops
<1>6. ASSUME NEW i \in DOMAIN hops
      PROVE  rest[i] \in sets[i]
  <2>1. hops[i] \in 2 .. Len(w) /\ hops[i] \in Parts(w)
    BY <1>1, <1>3, <1>5
  <2>2. HopTyped(w[hops[i]])
    BY <2>1 DEF RouteTyped
  <2>3. sets[i] # {}
    BY <2>1, <2>2, SomeHop
  <2> HIDE DEF sets
  <2> QED BY <2>3
<1>7. rest \in Route!Product(sets)
  <2>1. Route!Range(sets) = {sets[i] : i \in DOMAIN sets}
    BY DEF Route!Range
  <2>2. DOMAIN sets = DOMAIN hops
    OBVIOUS
  <2> HIDE DEF sets
  <2>3. rest \in [DOMAIN sets -> UNION Route!Range(sets)]
    BY <1>6, <2>1, <2>2
  <2> HIDE DEF rest
  <2> QED BY <1>6, <2>2, <2>3 DEF Route!Product
<1>8. Route!Made(w) = {Route!Record(m, r) : m \in Route!MadeMains(w[1]), r \in Route!Product(sets)}
  BY <1>4 DEF Route!Made, hops, I
<1> HIDE DEF sets, rest
<1> QED BY <1>2, <1>7, <1>8

\* The reasons of RefusedForReason, in a section.
GivenUp(w, s, form, shown, left, ok) ==
  \/ form.family = 0 \/ << s, "family" >> \in left
  \/ w[s].enc.type = "other"
  \/ w[s].enc.type = "none" /\ w[s].encap = 1 /\ (s = 1 \/ shown.encap = 0)
  \/ LET empty(f) == form[f] = 0 \/ (~ok /\ shown[f] = 0)
     IN  IF s = 1
         THEN /\ Route!Marked(w) = {} /\ form.type \in {0, 1}
              /\ empty("dev") /\ (empty("gateway") \/ w[1].rtvia # 0)
         ELSE (empty("dev") \/ << s, "dev" >> \in left) /\ empty("gateway")

Reason(w, form, shown, left, ok) ==
  \E s \in Parts(w) : GivenUp(w, s, form[s], shown[s], left, ok)

\* One of them is there in every section that is refused.
Reasoned(w, s, form, shown, left, ok) ==
  w[s].family = 0 \/ Unwritten(w[s]) \/ Stuck(w, s) => GivenUp(w, s, form, shown, left, ok)

LEMMA RefusedAfter ==
  ASSUME NEW w, RouteTyped(w), Route!Made(w) = {}, NEW form, NEW shown, NEW left, NEW ok,
         \A s \in 1 .. Len(w) : Reasoned(w, s, form[s], shown[s], left, ok)
  PROVE  Reason(w, form, shown, left, ok)
<1>1. Len(w) \in Nat /\ Len(w) > 0 /\ DOMAIN w = 1 .. Len(w)
  BY DEF RouteTyped
<1>2. Parts(w) \subseteq 1 .. Len(w)
  BY <1>1, MarkedFinite DEF Parts
<1>3. PICK s \in Parts(w) : w[s].family = 0 \/ Unwritten(w[s]) \/ Stuck(w, s)
  BY RouteRefused
<1>4. Reasoned(w, s, form[s], shown[s], left, ok)
  BY <1>2, <1>3
<1> QED BY <1>3, <1>4 DEF Reasoned, Reason

LEMMA EscSays ==
  ASSUME NEW left, NEW s, NEW f, f \in Esc(left, s)
  PROVE  << s, f >> \in left
BY DEF Esc, EscOf

LEMMA OkRefused ==
  ASSUME NEW d, NEW w, NEW hop, AfterOk(d, w, hop), Len(d.work) \in Nat, Len(d.work) > 0,
         d.shown[Len(d.work) + 1].encap = 0, Route!Made(w) = {}
  PROVE  Reason(w, d.form, d.shown, d.left, TRUE)
<1> DEFINE n == Len(d.work)
<1>1. ASSUME NEW s \in 1 .. Len(w)
      PROVE  Reasoned(w, s, d.form[s], d.shown[s], d.left, TRUE)
  <2>1. CASE s = 1
    <3>1. /\ w[1].family = d.form[1].family \/ << 1, "family" >> \in d.left
          /\ w[1].type = d.form[1].type /\ w[1].dev = d.form[1].dev
          /\ w[1].gateway = d.form[1].gateway \/ w[1].rtvia # 0
      <4>1. MainFilled(w[1], d.form[1], d.shown[1], Esc(d.left, 1))
        BY DEF AfterOk
      <4>2. {"type", "dev"} \subseteq Route!MainWidgets
        BY DEF Route!MainWidgets, Route!MainMenus
      <4> QED BY <4>1, <4>2, EscSays DEF MainFilled
    <3> QED BY <2>1, <3>1 DEF Reasoned, GivenUp, Unwritten, Stuck
  <2>2. CASE s \in 2 .. n
    <3>1. HopFilled(w[s], d.form[s], d.shown[s], Esc(d.left, s))
      BY <2>2 DEF AfterOk
    <3>2. s # 1
      BY <2>2
    <3> QED BY <3>1, <3>2, EscSays DEF HopFilled, Reasoned, GivenUp, Unwritten, Stuck
  <2>3. CASE s \notin 1 .. n
    <3>1. hop.nexthop = 1 /\ s = n + 1 /\ s # 1
      BY <2>3 DEF AfterOk
    <3>2. NewFilled(w[s], d.form[s], Esc(d.left, s), d.held)
      BY <3>1 DEF AfterOk
    <3>3. d.shown[s].encap = 0
      BY <3>1
    <3>4. w[s].family = 0 => GivenUp(w, s, d.form[s], d.shown[s], d.left, TRUE)
      BY <3>2, EscSays DEF NewFilled, GivenUp
    <3>5. Unwritten(w[s]) => GivenUp(w, s, d.form[s], d.shown[s], d.left, TRUE)
      BY <3>3 DEF Unwritten, GivenUp
    <3>6. Stuck(w, s) => GivenUp(w, s, d.form[s], d.shown[s], d.left, TRUE)
      BY <3>1, <3>2, EscSays DEF NewFilled, GivenUp, Stuck
    <3> QED BY <3>4, <3>5, <3>6 DEF Reasoned
  <2>4. s = 1 \/ s \in 2 .. n \/ s \notin 1 .. n
    OBVIOUS
  <2> HIDE DEF n
  <2> QED BY <2>1, <2>2, <2>3, <2>4
<1>2. RouteTyped(w)
  BY DEF AfterOk
<1> QED BY <1>1, <1>2, RefusedAfter

\* The sections of the working copy while the dialog is open.
LEMMA WorkOk ==
  ASSUME NEW d, NEW hop, RouteDlg(d, hop), NEW s \in 1 .. Len(d.work)
  PROVE  /\ s = 1 => MainOk(d.work[1], d.form[1], d.shown[1], Esc(d.left, 1))
         /\ s \in 2 .. Len(d.work) => HopOk(d.work[s], d.form[s], d.shown[s], Esc(d.left, s))
<1>1. s \in 1 .. Len(d.work) + 1 /\ s =< Len(d.work)
  BY DEF RouteDlg
<1> QED BY <1>1 DEF RouteDlg, SecOk

LEMMA WorkTyped ==
  ASSUME NEW d, NEW hop, RouteDlg(d, hop)
  PROVE  RouteTyped(d.work)
<1> DEFINE n == Len(d.work)
<1>1. n \in Nat /\ n > 0 /\ d.work \in Seq(RouteSecs)
  BY DEF RouteDlg
<1>2. MainTyped(d.work[1])
  <2>1. 1 \in 1 .. n
    BY <1>1
  <2> QED BY <2>1, WorkOk DEF MainOk
<1>3. ASSUME NEW s \in 2 .. n PROVE HopTyped(d.work[s])
  <2>1. s \in 1 .. n
    OBVIOUS
  <2> QED BY <2>1, WorkOk DEF HopOk
<1> QED BY <1>1, <1>2, <1>3 DEF RouteTyped

LEMMA CancelRefused ==
  ASSUME NEW d, NEW hop, RouteDlg(d, hop), Route!Made(d.work) = {}
  PROVE  Reason(d.work, d.form, d.shown, d.left, FALSE)
<1> DEFINE n == Len(d.work)
<1>1. n \in Nat /\ n > 0
  BY DEF RouteDlg
<1>2. ASSUME NEW s \in 1 .. n
      PROVE  Reasoned(d.work, s, d.form[s], d.shown[s], d.left, FALSE)
  <2>1. CASE s = 1
    <3>1. MainOk(d.work[1], d.form[1], d.shown[1], Esc(d.left, 1))
      BY <2>1, WorkOk
    <3>2. /\ d.work[1].family = d.form[1].family \/ "family" \in Esc(d.left, 1)
          /\ d.work[1].type = d.form[1].type /\ d.work[1].dev = d.shown[1].dev
      BY <3>1, MoreNames DEF MainOk
    <3>3. d.shown[1].gateway = d.work[1].gateway \/ d.work[1].rtvia # 0
      BY <3>1 DEF MainOk, Route!Via
    <3> QED BY <2>1, <3>2, <3>3, EscSays DEF Reasoned, GivenUp, Unwritten, Stuck
  <2>2. CASE s # 1
    <3>1. HopOk(d.work[s], d.form[s], d.shown[s], Esc(d.left, s))
      BY <1>1, <2>2, WorkOk
    <3> QED BY <2>2, <3>1, EscSays
            DEF HopOk, Reasoned, GivenUp, Unwritten, Stuck, Route!Via
  <2> QED BY <2>1, <2>2
<1> QED BY <1>2, WorkTyped, RefusedAfter

\* What the dialog does not show of a route.
LEMMA RouteHiddenKept ==
  ASSUME NEW w, RouteTyped(w), NEW rec, MadeOf(w, rec), NEW old, IsRoute(old),
         w[1].nhid = old[1].nhid
  PROVE  /\ rec[1].nhid = old[1].nhid
         /\ w[1].enc = old[1].enc /\ rec[1].encap = 1 => rec[1].enc = old[1].enc
<1>1. MainTyped(w[1]) /\ rec[1] \in Route!MadeMains(w[1])
  BY DEF RouteTyped, MadeOf
<1>2. rec[1].nhid = w[1].nhid /\ (rec[1].encap = 1 => rec[1].enc \in Route!MadeEnc(w[1].enc))
  BY <1>1, MadeMainIs
<1>3. IF old[1].encap = 1 THEN Route!MadeEnc(old[1].enc) = {old[1].enc}
      ELSE old[1].enc = Route!NoEncap
  <2>1. Len(old) \in Nat \ {0} /\ DOMAIN old = 1 .. Len(old)
    <3> DEFINE f(s) == [g \in DOMAIN (IF s = 1 THEN Route!Main ELSE Route!Hop) |-> old[s][g]]
    <3>1. Len(old) \in Nat \ {0} /\ old = [s \in 1 .. Len(old) |-> f(s)]
      BY DEF IsRoute
    <3> HIDE DEF f
    <3> QED BY <3>1
  <2>2. 1 \in DOMAIN old
    BY <2>1
  <2>3. \A s \in DOMAIN old :
          IF old[s].encap = 1 THEN Route!MadeEnc(old[s].enc) = {old[s].enc}
          ELSE old[s].enc = Route!NoEncap
    BY DEF IsRoute
  <2> QED BY <2>2, <2>3
<1>4. Route!MadeEnc(Route!NoEncap) = {}
  BY DEF Route!MadeEnc, Route!NoEncap
<1> QED BY <1>2, <1>3, <1>4

-----------------------------------------------------------------------------
(***************************************************************************)
(* OK on a rule.                                                           *)
(***************************************************************************)

RuleTyped(sec) ==
  /\ DOMAIN sec = Rule!Widgets \cup {"action"}
  /\ \A f \in Rule!Widgets :
       sec[f] \in Values(f) \cup IF f \in Rule!Ends \cup {"fwmark"} THEN {Unset} ELSE {}
  /\ sec.action \in Rule!Actions \cup {Unset}

\* The rule after OK: what was shown, where it was shown.
RuleAfter(old, sec, form, shown, esc) ==
  /\ RuleTyped(sec) /\ Drawn(Rule!Widgets, form)
  /\ \A f \in Rule!Widgets \ (Rule!Menus \cup Rule!Ends \cup {"fwmark"}) : sec[f] = form[f]
  /\ sec.fwmark = form.fwmark \/ sec.fwmark = Unset
  /\ \A f \in Rule!Ends : form[Rule!BeginOf[f]] # 0 /\ form[f] # 0 => sec[f] = form[f]
  /\ \A f \in Rule!Menus : sec[f] = form[f] \/ f \in esc \cap {"iif", "oif", "ipproto", "proto"}
  /\ sec.action = IF form.goto \notin {0, shown.goto} THEN "goto" ELSE old.action

LEMMA RuleFills ==
  ASSUME NEW w, NEW form, NEW shown, NEW esc, RuleSec(w[1], form[1], shown[1], esc)
  PROVE  /\ DOMAIN Rule!Filled(w, form, shown) = {1}
         /\ RuleAfter(w[1], Rule!Filled(w, form, shown)[1], form[1], shown[1], esc)
<1> DEFINE sec == w[1]
           new == Rule!Filled(w, form, shown)[1]
           changed(f) == form[1][f] # shown[1][f]
           begin(f) == IF changed(Rule!BeginOf[f]) THEN form[1][Rule!BeginOf[f]]
                       ELSE sec[Rule!BeginOf[f]]
<1>1. /\ DOMAIN sec = Rule!Widgets \cup {"action"} /\ sec.action \in Rule!Actions \cup {Unset}
      /\ \A f \in Rule!Widgets :
           sec[f] \in Values(f) \cup IF f \in Rule!Ends \cup {"fwmark"} THEN {Unset} ELSE {}
      /\ \A f \in Rule!Widgets : form[1][f] \in Values(f) /\ shown[1][f] \in Values(f)
      /\ \A f \in Rule!Widgets \ Rule!Menus : shown[1][f] = Rule!ShownIn(sec, f)
  BY DEF RuleSec, Drawn
<1>2. /\ DOMAIN Rule!Filled(w, form, shown) = {1}
      /\ DOMAIN new = DOMAIN sec
      /\ new.action = IF changed("goto") /\ form[1].goto # 0 THEN "goto" ELSE sec.action
      /\ \A f \in Rule!Widgets :
           new[f] = IF f \in Rule!Menus \/ ~changed(f) THEN sec[f]
                    ELSE IF f \in Rule!Ends /\ form[1][f] = 0 THEN begin(f) ELSE form[1][f]
  BY <1>1, RuleNames DEF Rule!Filled
<1>3. \A f \in Rule!Ends :
        /\ Rule!BeginOf[f] \in Rule!Widgets \ (Rule!Menus \cup Rule!Ends \cup {"fwmark"})
        /\ Values(f) = Value /\ Values(Rule!BeginOf[f]) = Value
  <2>1. \A f \in Rule!Ends \cup Rule!Begins : f \in Rule!Widgets \ {"not", "l3mdev"}
    BY DEF Rule!Widgets, Rule!Ends, Rule!Begins, Rule!Menus
  <2>2. \A f \in Rule!Ends : Rule!BeginOf[f] \in Rule!Begins
    BY DEF Rule!Ends, Rule!Begins, Rule!BeginOf
  <2> QED BY <2>1, <2>2, RuleNames, RuleValues
<1>4. \A f \in Rule!Ends : begin(f) \in Value
  BY <1>1, <1>3
<1> HIDE DEF new, begin
<1>5. RuleTyped(new)
  <2>1. \A f \in Rule!Widgets :
          new[f] \in Values(f) \cup IF f \in Rule!Ends \cup {"fwmark"} THEN {Unset} ELSE {}
    BY <1>1, <1>2, <1>3, <1>4
  <2>2. new.action \in Rule!Actions \cup {Unset}
    BY <1>1, <1>2 DEF Rule!Actions
  <2> QED BY <1>1, <1>2, <2>1, <2>2 DEF RuleTyped
<1>6. \A f \in Rule!Widgets \ (Rule!Menus \cup Rule!Ends) :
        new[f] = form[1][f] \/ (f = "fwmark" /\ new[f] = Unset)
  BY <1>1, <1>2, RuleValues DEF Rule!ShownIn
<1>7. ASSUME NEW f \in Rule!Ends, form[1][Rule!BeginOf[f]] # 0, form[1][f] # 0
      PROVE  new[f] = form[1][f]
  <2>1. f \in Rule!Widgets /\ f \notin Rule!Menus
    BY RuleNames
  <2>2. CASE changed(f)
    BY <1>2, <1>7, <2>1, <2>2
  <2>3. CASE ~changed(f)
    <3>1. new[f] = sec[f] /\ Rule!ShownIn(sec, f) # 0 /\ form[1][f] = Rule!ShownIn(sec, f)
      BY <1>1, <1>2, <1>7, <2>1, <2>3
    <3> QED BY <3>1 DEF Rule!ShownIn
  <2> QED BY <2>2, <2>3
<1>8. \A f \in Rule!Menus : new[f] = sec[f]
  BY <1>2, RuleNames
<1>9. \A f \in Rule!Menus :
        new[f] = form[1][f] \/ f \in esc \cap {"iif", "oif", "ipproto", "proto"}
  BY <1>8 DEF RuleSec
<1>10. new.action = IF form[1].goto \notin {0, shown[1].goto} THEN "goto" ELSE sec.action
  BY <1>2
<1>11. new.fwmark = form[1].fwmark \/ new.fwmark = Unset
  <2>1. "fwmark" \in Rule!Widgets \ (Rule!Menus \cup Rule!Ends)
    BY RuleNames DEF Rule!Ends
  <2> QED BY <1>6, <2>1
<1>12. Drawn(Rule!Widgets, form[1])
  BY DEF RuleSec
<1>13. \A f \in Rule!Widgets \ (Rule!Menus \cup Rule!Ends \cup {"fwmark"}) : new[f] = form[1][f]
  BY <1>6
<1> QED BY <1>2, <1>5, <1>7, <1>9, <1>10, <1>11, <1>12, <1>13 DEF RuleAfter, new

\* What a command says of a rule, and what the kernel makes of it.
RuleMadeOf(sec, rec) ==
  /\ DOMAIN rec = {1} /\ DOMAIN rec[1] = DOMAIN sec
  /\ rec[1].action \in Rule!Means(sec.action, Rule!Actions)
  /\ ~Rule!Refused(Rule!Said(sec), rec[1].action)
  /\ \A f \in Rule!Widgets \ {"goto"} :
       IF Rule!Said(sec)[f] = Unset THEN rec[1][f] \in Value
       ELSE rec[1][f] = Rule!Said(sec)[f]
  /\ rec[1].goto = IF rec[1].action = "goto" THEN Rule!Said(sec).goto ELSE 0

LEMMA RuleMadeIs ==
  ASSUME NEW w, RuleTyped(w[1]), NEW rec \in Rule!Made(w)
  PROVE  RuleMadeOf(w[1], rec)
<1> DEFINE said == Rule!Said(w[1])
           free == {f \in DOMAIN said \ {"action", "goto"} : said[f] = Unset}
<1>1. PICK a \in Rule!Means(w[1].action, Rule!Actions) : rec \in Rule!MadeOf(said, a)
  BY DEF Rule!Made
<1>2. DOMAIN said = DOMAIN w[1]
  BY DEF Rule!Said
<1> HIDE DEF said
<1>3. ~Rule!Refused(said, a)
  BY <1>1 DEF Rule!MadeOf
<1>31. PICK n \in [free -> Rule!Value] :
        rec = << [f \in DOMAIN said |->
                    CASE f = "action" -> a
                      [] f = "goto"   -> IF a = "goto" THEN said[f] ELSE 0
                      [] f \in free   -> n[f]
                      [] OTHER        -> said[f]] >>
  BY <1>1, <1>3 DEF Rule!MadeOf
<1>4. /\ DOMAIN rec = {1} /\ DOMAIN rec[1] = DOMAIN said
      /\ \A f \in DOMAIN said :
           rec[1][f] = IF f = "action" THEN a
                       ELSE IF f = "goto" THEN IF a = "goto" THEN said[f] ELSE 0
                       ELSE IF f \in free THEN n[f] ELSE said[f]
  BY <1>31
<1>5. DOMAIN said = Rule!Widgets \cup {"action"}
  BY <1>2 DEF RuleTyped
<1>6. Rule!Value = Value
  BY DEF Rule!Value, Value
<1>7. rec[1].action = a
  BY <1>4, <1>5
<1> QED BY <1>1, <1>2, <1>3, <1>4, <1>5, <1>6, <1>7, RuleNames DEF RuleMadeOf, said

\* No command can be made of a rule only when it says goto none, or a table with
\* l3mdev.
LEMMA RuleRefused ==
  ASSUME NEW w, RuleTyped(w[1]), Rule!Made(w) = {}
  PROVE  \/ w[1].action = "goto" /\ w[1].goto = 0
         \/ w[1].l3mdev = 1 /\ w[1].table # 0
<1> SUFFICES ASSUME w[1].action = "goto" => w[1].goto # 0,
                    ~(w[1].l3mdev = 1 /\ w[1].table # 0)
             PROVE  FALSE
  OBVIOUS
<1> DEFINE said == Rule!Said(w[1])
           free == {f \in DOMAIN said \ {"action", "goto"} : said[f] = Unset}
           Rec(a, n) == << [f \in DOMAIN said |->
                             CASE f = "action" -> a
                               [] f = "goto"   -> IF a = "goto" THEN said[f] ELSE 0
                               [] f \in free   -> n[f]
                               [] OTHER        -> said[f]] >>
<1>1. PICK a : a \in Rule!Means(w[1].action, Rule!Actions)
                 /\ (a = "goto" => w[1].action = "goto")
  BY DEF Rule!Means, Rule!Actions
<1>2. [f \in free |-> 0] \in [free -> Rule!Value]
  BY RuleValues DEF Rule!Value, Value
<1>3. ~Rule!Refused(said, a)
  <2>1. said.goto = w[1].goto /\ said.l3mdev = w[1].l3mdev /\ said.table = w[1].table
    <3>1. {"goto", "l3mdev", "table"} \subseteq DOMAIN w[1]
      BY DEF RuleTyped, Rule!Widgets, Rule!Menus
    <3> QED BY <3>1 DEF Rule!Said, Rule!Ends
  <2> QED BY <1>1, <2>1 DEF Rule!Refused
<1>4. Rule!MadeOf(said, a) = {Rec(a, n) : n \in [free -> Rule!Value]}
  BY <1>3 DEF Rule!MadeOf
<1> HIDE DEF free, Rec, said
<1>5. Rec(a, [f \in free |-> 0]) \in Rule!MadeOf(said, a)
  BY <1>2, <1>4
<1> QED BY <1>1, <1>5 DEF Rule!Made, said

\* A rule the kernel made is a rule again.
LEMMA MadeIsRule ==
  ASSUME NEW sec, RuleTyped(sec), NEW rec, RuleMadeOf(sec, rec)
  PROVE  IsRule(rec)
<1>1. /\ DOMAIN sec = Rule!Widgets \cup {"action"}
      /\ \A f \in Rule!Widgets :
           sec[f] \in Values(f) \cup IF f \in Rule!Ends \cup {"fwmark"} THEN {Unset} ELSE {}
  BY DEF RuleTyped
<1>2. \A f \in Rule!Ends \cup {"fwmark"} : Values(f) = Value
  <2>1. \A f \in Rule!Ends \cup {"fwmark"} : f \in Rule!Widgets \ {"not", "l3mdev"}
    BY DEF Rule!Widgets, Rule!Ends, Rule!Begins, Rule!Menus
  <2> QED BY <2>1, RuleValues
<1>3. \A f \in Rule!Widgets :
        /\ Rule!Said(sec)[f] \in {0, sec[f]}
        /\ f \notin Rule!Ends \cup {"fwmark"} => Rule!Said(sec)[f] \in Values(f)
        /\ f \in Rule!Ends \cup {"fwmark"} => Rule!Said(sec)[f] \in Value \cup {Unset}
  <2>1. \A f \in Rule!Widgets : Rule!Said(sec)[f] \in {0, sec[f]}
    BY <1>1 DEF Rule!Said
  <2> QED BY <1>1, <1>2, <2>1, RuleValues
<1>4. \A f \in Rule!Widgets : rec[1][f] \in Values(f)
  <2>1. \A f \in Rule!Widgets \ {"goto"} : rec[1][f] \in Values(f)
    BY <1>2, <1>3, RuleValues DEF RuleMadeOf
  <2>2. rec[1].goto \in Values("goto")
    <3>1. "goto" \notin Rule!Ends \cup {"fwmark"} /\ "goto" \in Rule!Widgets
      BY RuleNames DEF Rule!Ends
    <3> QED BY <1>3, <3>1, RuleValues DEF RuleMadeOf
  <2> QED BY <2>1, <2>2
<1>5. rec[1].action \in Rule!Actions
  BY DEF RuleMadeOf, RuleTyped, Rule!Means
<1>6. ~Rule!Refused(rec[1], rec[1].action)
  <2>1. {"l3mdev", "table"} \subseteq (Rule!Widgets \ {"goto"}) \ (Rule!Ends \cup {"fwmark"})
    BY DEF Rule!Widgets, Rule!Menus, Rule!Ends
  <2>2. rec[1].l3mdev = Rule!Said(sec).l3mdev /\ rec[1].table = Rule!Said(sec).table
    BY <1>3, <2>1, RuleValues DEF RuleMadeOf
  <2> QED BY <2>2 DEF RuleMadeOf, Rule!Refused
<1> QED BY <1>1, <1>4, <1>5, <1>6 DEF IsRule, RuleMadeOf

\* Every attribute of the record is what the dialog showed, but for the exceptions.
RuleShows(d, w, rec) ==
  \A f \in Rule!Widgets \ Rule!Surprises(w, d.form, d.shown, d.left) :
    Rule!Shown(rec)[1][f] = d.form[1][f]

RuleOf(d, w) ==
  RuleAfter(d.work[1], w[1], d.form[1], d.shown[1], EscOf(d.left, Rule!Menus, 1))

LEMMA RuleMadeShown ==
  ASSUME NEW d, NEW w, RuleOf(d, w), NEW rec, RuleMadeOf(w[1], rec)
  PROVE  RuleShows(d, w, rec)
<1> DEFINE sec == w[1]
           form == d.form
           shown == d.shown
           left == d.left
           said == Rule!Said(sec)
<1> SUFFICES ASSUME NEW f \in Rule!Widgets, f \notin Rule!Surprises(w, form, shown, left)
             PROVE  Rule!Shown(rec)[1][f] = form[1][f]
  BY DEF RuleShows
<1>0. RuleAfter(d.work[1], sec, form[1], shown[1], EscOf(left, Rule!Menus, 1))
  BY DEF RuleOf
<1> HIDE DEF form, shown, left
<1>1. /\ f \in {"iif", "oif", "ipproto", "proto"} => f \notin EscOf(left, Rule!Menus, 1)
      /\ f \in {"suppress_prefixlength", "suppress_ifgroup"} => sec.table # 0
      /\ f = "realms_from" => sec.realms_to # 0
      /\ f = "fwmark" => sec.fwmark # Unset
      /\ f = "goto" => sec.action = "goto"
      /\ f \in Rule!Ends => sec[f] # Unset /\ form[1][Rule!BeginOf[f]] # 0 /\ form[1][f] # 0
  BY RuleNames DEF Rule!Surprises, EscOf
<1>2. /\ DOMAIN sec = Rule!Widgets \cup {"action"}
      /\ \A g \in Rule!Widgets : form[1][g] \in Values(g) /\ form[1][g] # Unset
  BY <1>0, RuleValues DEF RuleAfter, RuleTyped, Drawn
<1>3. sec[f] = form[1][f]
  BY <1>0, <1>1 DEF RuleAfter
<1>4. /\ f \in Rule!Ends => sec[Rule!BeginOf[f]] = form[1][Rule!BeginOf[f]]
      /\ \A g \in Rule!Ends : Rule!BeginOf[g] \in Rule!Widgets \ (Rule!Menus \cup Rule!Ends \cup {"fwmark"})
      /\ "goto" \notin Rule!Ends
  BY <1>0, RuleNames DEF RuleAfter, Rule!Ends
<1>5. said[f] = sec[f]
  BY <1>1, <1>2, <1>3, <1>4 DEF Rule!Said
<1>6. rec[1][f] = sec[f]
  <2>1. CASE f = "goto"
    <3>1. rec[1].action = "goto"
      BY <1>1, <2>1, RecordEditAssumption DEF RuleMadeOf, Rule!Means, Rule!Actions
    <3> QED BY <1>5, <2>1, <3>1 DEF RuleMadeOf
  <2>2. CASE f # "goto"
    BY <1>2, <1>3, <1>5, <2>2 DEF RuleMadeOf
  <2> QED BY <2>1, <2>2
<1>7. f \in Rule!Ends => rec[1][Rule!BeginOf[f]] # 0
  <2> SUFFICES ASSUME f \in Rule!Ends PROVE rec[1][Rule!BeginOf[f]] # 0
    OBVIOUS
  <2> DEFINE g == Rule!BeginOf[f]
  <2>1. g \in Rule!Begins
    BY DEF Rule!Ends, Rule!BeginOf, Rule!Begins
  <2>2. /\ g \in Rule!Widgets \ {"goto"} /\ g \notin Rule!Ends /\ g \notin {"fwmark",
              "suppress_prefixlength", "suppress_ifgroup", "realms_from"}
    BY <2>1 DEF Rule!Begins, Rule!Widgets, Rule!Ends
  <2>3. sec[g] = form[1][g] /\ sec[g] # 0 /\ sec[g] # Unset
    BY <1>1, <1>2, <1>4, <2>2
  <2>4. said[g] = sec[g]
    BY <1>2, <2>2 DEF Rule!Said
  <2> QED BY <2>2, <2>3, <2>4 DEF RuleMadeOf
<1>8. Rule!Shown(rec)[1][f] = Rule!ShownIn(rec[1], f)
  BY DEF Rule!Shown
<1> QED BY <1>2, <1>3, <1>6, <1>7, <1>8 DEF Rule!ShownIn

\* The action, which the dialog does not show.
RuleHides(d, rec, old) ==
  d.mode = "edit" =>
    rec[1].action \in IF d.form[1].goto \notin {0, d.shown[1].goto} THEN {"goto"}
                      ELSE IF d.form[1].table \notin {0, d.shown[1].table} THEN {"table"}
                      ELSE {old[1].action, "table"}

LEMMA RuleActionKept ==
  ASSUME NEW d, NEW w, RuleOf(d, w), NEW rec, RuleMadeOf(w[1], rec), NEW old,
         d.mode = "edit" => RuleKept(d, old) /\ IsRule(old)
  PROVE  RuleHides(d, rec, old)
<1> SUFFICES ASSUME d.mode = "edit"
             PROVE  rec[1].action \in
                      IF d.form[1].goto \notin {0, d.shown[1].goto} THEN {"goto"}
                      ELSE IF d.form[1].table \notin {0, d.shown[1].table} THEN {"table"}
                      ELSE {old[1].action, "table"}
  BY DEF RuleHides
<1>1. /\ old[1].action \in Rule!Actions
      /\ d.work[1].action \in {old[1].action, "table"}
      /\ d.form[1].table \notin {0, d.shown[1].table} => d.work[1].action = "table"
  BY DEF RuleKept, IsRule
<1>2. w[1].action = IF d.form[1].goto \notin {0, d.shown[1].goto} THEN "goto"
                    ELSE d.work[1].action
  BY DEF RuleOf, RuleAfter
<1>3. w[1].action # Unset
  BY <1>1, <1>2, RecordEditAssumption DEF Rule!Actions
<1>4. rec[1].action = w[1].action
  BY <1>3 DEF RuleMadeOf, Rule!Means
<1> QED BY <1>1, <1>2, <1>4

-----------------------------------------------------------------------------
(***************************************************************************)
(* OK on a neighbour.                                                      *)
(***************************************************************************)

\* The neighbour after OK: what was shown, managed standing before use.
NeighAfter(sec, form, esc) ==
  /\ Drawn(Neigh!Widgets, sec)
  /\ form.use = IF sec.managed = 1 THEN 0 ELSE sec.use
  /\ \A f \in Neigh!Widgets \ (Neigh!Menus \cup {"use"}) : sec[f] = form[f]
  /\ \A f \in Neigh!Menus \ {"family"} : sec[f] = form[f] \/ f \in esc \cap {"dev"}

LEMMA NeighFills ==
  ASSUME NEW w, NEW form, NEW shown, NEW esc, NeighSec(w[1], form[1], shown[1], esc)
  PROVE  /\ DOMAIN Neigh!Filled(w, form, shown) = {1}
         /\ NeighAfter(Neigh!Filled(w, form, shown)[1], form[1], esc)
<1> DEFINE sec == w[1]
           new == Neigh!Filled(w, form, shown)[1]
           radio == \E f \in {"use", "managed"} : form[1][f] # shown[1][f]
           changed(f) == form[1][f] # shown[1][f] \/ (f \in {"use", "managed"} /\ radio)
<1>1. /\ DOMAIN Neigh!Filled(w, form, shown) = {1} /\ DOMAIN new = Neigh!Widgets
      /\ \A f \in Neigh!Widgets :
           new[f] = IF f \notin Neigh!Menus /\ changed(f) THEN form[1][f] ELSE sec[f]
  BY DEF Neigh!Filled
<1>2. /\ \A f \in Neigh!Widgets : sec[f] \in Values(f) /\ form[1][f] \in Values(f)
      /\ shown[1].use = IF sec.managed = 1 THEN 0 ELSE sec.use
      /\ \A f \in Neigh!Widgets \ (Neigh!Menus \cup {"use"}) : shown[1][f] = sec[f]
      /\ \A f \in Neigh!Menus \ {"family"} : sec[f] = form[1][f] \/ f \in esc \cap {"dev"}
      /\ form[1].use = 0 \/ form[1].managed = 0
  BY DEF NeighSec, Drawn
<1> HIDE DEF new
<1>3. Drawn(Neigh!Widgets, new)
  BY <1>1, <1>2 DEF Drawn
<1>4. \A f \in Neigh!Widgets \ (Neigh!Menus \cup {"use"}) : new[f] = form[1][f]
  BY <1>1, <1>2
<1>5. form[1].use = IF new.managed = 1 THEN 0 ELSE new.use
  <2>1. {"use", "managed"} \subseteq Neigh!Widgets \ Neigh!Menus
    BY NeighNames
  <2>2. new.managed = form[1].managed
    BY <1>4, <2>1
  <2>3. CASE radio
    <3>1. new.use = form[1].use
      BY <1>1, <2>1, <2>3
    <3> QED BY <1>2, <2>2, <3>1
  <2>4. CASE ~radio
    <3>1. new.use = sec.use /\ new.managed = sec.managed /\ form[1].use = shown[1].use
      BY <1>1, <2>1, <2>4
    <3> QED BY <1>2, <3>1
  <2> QED BY <2>3, <2>4
<1>6. \A f \in Neigh!Menus : new[f] = sec[f]
  BY <1>1, NeighNames
<1>7. \A f \in Neigh!Menus \ {"family"} : new[f] = form[1][f] \/ f \in esc \cap {"dev"}
  BY <1>2, <1>6
<1> QED BY <1>1, <1>3, <1>4, <1>5, <1>7 DEF NeighAfter, new

\* The neighbour the kernel makes of it is one again.
NeighMadeOf(sec, rec) ==
  /\ sec.ip # 0 /\ sec.dev # 0
  /\ DOMAIN rec = {1} /\ DOMAIN rec[1] = Neigh!Widgets
  /\ \A f \in Neigh!Widgets :
       rec[1][f] = IF f \in {"mac", "state"} /\ sec.proxy = 1 THEN 0
                   ELSE IF f = "family" /\ sec.family = 0 THEN 1 ELSE sec[f]

LEMMA NeighMadeIs ==
  ASSUME NEW w
  PROVE  /\ Neigh!Made(w) = {} => w[1].ip = 0 \/ w[1].dev = 0
         /\ \A rec \in Neigh!Made(w) : NeighMadeOf(w[1], rec)
<1> DEFINE sec == w[1]
           rec == << [f \in Neigh!Widgets |->
                       CASE f \in {"mac", "state"} /\ sec.proxy = 1 -> 0
                         [] f = "family" /\ sec.family = 0 -> 1
                         [] OTHER -> sec[f]] >>
<1>1. Neigh!Made(w) = IF sec.ip = 0 \/ sec.dev = 0 THEN {} ELSE {rec}
  BY DEF Neigh!Made
<1>2. \A f \in Neigh!Widgets :
        rec[1][f] = IF f \in {"mac", "state"} /\ sec.proxy = 1 THEN 0
                    ELSE IF f = "family" /\ sec.family = 0 THEN 1 ELSE sec[f]
  OBVIOUS
<1>3. DOMAIN rec = {1} /\ DOMAIN rec[1] = Neigh!Widgets
  OBVIOUS
<1> HIDE DEF rec
<1> QED BY <1>1, <1>2, <1>3 DEF NeighMadeOf

LEMMA MadeIsNeigh ==
  ASSUME NEW sec, Drawn(Neigh!Widgets, sec), NEW rec, NeighMadeOf(sec, rec)
  PROVE  IsNeigh(rec)
<1>1. \A f \in Neigh!Widgets : rec[1][f] \in Values(f)
  BY NeighNames DEF NeighMadeOf, Drawn
<1>2. {"ip", "dev"} \subseteq Neigh!Widgets
  BY DEF Neigh!Widgets, Neigh!Menus
<1>3. rec[1].ip = sec.ip /\ rec[1].dev = sec.dev
  BY <1>2 DEF NeighMadeOf
<1> QED BY <1>1, <1>3 DEF NeighMadeOf, IsNeigh

\* Every attribute of the record is what the dialog showed, but for the exceptions.
LEMMA NeighMadeShown ==
  ASSUME NEW sec, NEW form, NEW left,
         NeighAfter(sec, form[1], EscOf(left, Neigh!Menus, 1)),
         NEW rec, NeighMadeOf(sec, rec),
         NEW f \in Neigh!Widgets, f \notin Neigh!Surprises(form, left)
  PROVE  Neigh!Shown(rec)[1][f] = form[1][f]
<1>1. /\ f # "family" /\ (f = "dev" => f \notin EscOf(left, Neigh!Menus, 1))
      /\ form[1].proxy = 1 => f \notin {"mac", "state"}
  BY DEF Neigh!Surprises, EscOf
<1>2. /\ {"use", "managed", "proxy"} \subseteq Neigh!Widgets \ Neigh!Menus
      /\ {"use", "managed"} \cap {"mac", "state", "family"} = {}
  BY NeighNames
<1>3. sec.proxy = form[1].proxy
  BY <1>2 DEF NeighAfter
<1>4. rec[1][f] = sec[f] /\ rec[1].managed = sec.managed
  BY <1>1, <1>2, <1>3 DEF NeighMadeOf
<1>5. Neigh!Shown(rec)[1][f] = IF f = "use" /\ rec[1].managed = 1 THEN 0 ELSE rec[1][f]
  BY DEF Neigh!Shown
<1>6. f # "use" => sec[f] = form[1][f]
  BY <1>1 DEF NeighAfter
<1> QED BY <1>4, <1>5, <1>6 DEF NeighAfter

-----------------------------------------------------------------------------
(***************************************************************************)
(* What the properties say of a record that was made after OK.             *)
(***************************************************************************)

RouteShows(d, w, rec) ==
  \A i \in DOMAIN Places(w, d.form) :
    \A f \in (IF Places(w, d.form)[i] = 1 THEN Route!MainWidgets ELSE Route!HopWidgets)
               \ Route!Surprises(w, d.form, d.shown, d.left, d.held, Places(w, d.form)[i]) :
      Route!Shown(rec)[i][f] = d.form[Places(w, d.form)[i]][f]

RouteHides(d, rec, old) ==
  d.mode = "edit" =>
    /\ rec[1].nhid = old[1].nhid
    /\ d.encs = {} /\ rec[1].encap = 1 => rec[1].enc = old[1].enc

RouteHops(d, w, hop, rec) ==
  w[1].nhid = 0 =>
    Len(rec) = Len(Places(w, d.form))
                 + IF hop.nexthop = 1 /\ Last(d.form).nexthop = 0 THEN 1 ELSE 0

LEMMA RouteOk ==
  ASSUME NEW d, NEW new, NEW old, Dialog("route", d, new, old),
         d.mode = "edit" => IsRoute(old), NEW w, NEW hop,
         << w, hop >> = Route!Filled(d.work, new, d.form, d.shown)
  PROVE  /\ HopTyped(hop)
         /\ (hop.nexthop = 1) = (new.nexthop = 1 \/ Last(d.form).nexthop = 1)
         /\ \A rec \in Route!Made(w) :
              IsRoute(rec) /\ RouteShows(d, w, rec) /\ RouteHides(d, rec, old)
                /\ RouteHops(d, w, hop, rec)
         /\ Route!Made(w) = {} => Reason(w, d.form, d.shown, d.left, TRUE)
<1> DEFINE n == Len(d.work)
<1>1. RouteDlg(d, new) /\ (d.mode = "edit" => RouteKept(d, old))
  BY DEF Dialog
<1>2. AfterOk(d, w, hop) /\ new.nexthop = d.held.nexthop /\ d.shown[n + 1].encap = 0
  BY <1>1, FilledIs
<1>3. n \in Nat /\ n > 0 /\ DOMAIN d.form = 1 .. n + 1
  BY <1>1 DEF RouteDlg
<1>4. NewFilled(hop, d.form[n + 1], Esc(d.left, n + 1), d.held) /\ RouteTyped(w)
        /\ w[1].nhid = d.work[1].nhid /\ w[1].enc = d.work[1].enc
  BY <1>2 DEF AfterOk
<1>5. Last(d.form) = d.form[n + 1]
  <2>1. Len(d.form) = n + 1
    BY <1>3
  <2> QED BY <2>1 DEF Last
<1>6. d.form[n + 1].nexthop \in {0, 1}
  BY <1>4, MoreNames, ValuesAre DEF NewFilled, Drawn
<1>7. (hop.nexthop = 1) = (new.nexthop = 1 \/ Last(d.form).nexthop = 1)
  <2>1. hop.nexthop = IF d.form[n + 1].nexthop # 0 THEN d.form[n + 1].nexthop
                      ELSE new.nexthop
    BY <1>2, <1>4 DEF NewFilled
  <2>2. hop.nexthop = 1 <=> new.nexthop = 1 \/ Last(d.form).nexthop = 1
    BY <1>5, <1>6, <2>1
  <2> QED BY <2>2
<1>8. HopTyped(hop)
  BY <1>4 DEF NewFilled
<1> HIDE DEF n
<1>9. Route!Made(w) = {} => Reason(w, d.form, d.shown, d.left, TRUE)
  BY <1>2, <1>3, OkRefused DEF n
<1>10. ASSUME NEW rec \in Route!Made(w)
       PROVE  IsRoute(rec) /\ RouteShows(d, w, rec) /\ RouteHides(d, rec, old)
                /\ RouteHops(d, w, hop, rec)
  <2>1. MadeOf(w, rec)
    BY <1>4, MadeRouteIs
  <2>2. IsRoute(rec)
    BY <1>4, <2>1, MadeIsRoute
  <2>3. RouteShows(d, w, rec)
    <3> SUFFICES ASSUME NEW i \in DOMAIN Places(w, d.form),
                        NEW f \in IF Places(w, d.form)[i] = 1 THEN Route!MainWidgets
                                  ELSE Route!HopWidgets,
                        f \notin Route!Surprises(w, d.form, d.shown, d.left, d.held,
                                                 Places(w, d.form)[i])
                 PROVE  Route!Shown(rec)[i][f] = d.form[Places(w, d.form)[i]][f]
      BY DEF RouteShows
    <3> QED BY <1>2, <1>3, <2>1, RouteMadeShown DEF n
  <2>4. RouteHides(d, rec, old)
    <3> SUFFICES ASSUME d.mode = "edit"
                 PROVE  /\ rec[1].nhid = old[1].nhid
                        /\ d.encs = {} /\ rec[1].encap = 1 => rec[1].enc = old[1].enc
      BY DEF RouteHides
    <3>1. IsRoute(old) /\ w[1].nhid = old[1].nhid /\ (d.encs = {} => w[1].enc = old[1].enc)
      BY <1>1, <1>4 DEF RouteKept
    <3> QED BY <1>4, <2>1, <3>1, RouteHiddenKept
  <2>5. RouteHops(d, w, hop, rec)
    <3> SUFFICES ASSUME w[1].nhid = 0
                 PROVE  Len(rec) = Len(Places(w, d.form))
                          + IF hop.nexthop = 1 /\ Last(d.form).nexthop = 0 THEN 1 ELSE 0
      BY DEF RouteHops
    <3> DEFINE I == Route!Marked(d.form)
               J == Route!Marked(w)
               m == n + 1
    <3>1. /\ Cardinality(I) \in Nat
          /\ I = {s \in 2 .. n + 1 : d.form[s].nexthop = 1}
          /\ Cardinality(J) = Cardinality(I) + IF hop.nexthop = 1 /\ n + 1 \notin I THEN 1 ELSE 0
      BY <1>2, <1>3, MarkedAfter DEF n
    <3>2. n + 1 \in I <=> d.form[n + 1].nexthop = 1
      BY <1>3, <3>1
    <3>3. Len(rec) = 1 + Cardinality(J)
      BY <2>1 DEF MadeOf, Hops
    <3>4. m \in Nat /\ DOMAIN d.form = 1 .. m
      BY <1>3
    <3> HIDE DEF m
    <3>5. Len(Places(w, d.form)) = 1 + Cardinality(I)
      BY <1>6, <3>4, PlacesAre DEF Lists
    <3> HIDE DEF I, J
    <3> QED BY <1>5, <1>6, <3>1, <3>2, <3>3, <3>5
  <2> QED BY <2>2, <2>3, <2>4, <2>5
<1> QED BY <1>7, <1>8, <1>9, <1>10

\* The reasons a rule is refused for.
RuleReason(form, shown) ==
  \/ shown[1].goto # 0 /\ form[1].goto = 0
  \/ form[1].l3mdev = 1 /\ form[1].table # 0

LEMMA RuleOk ==
  ASSUME NEW d, NEW new, NEW old, Dialog("rule", d, new, old),
         d.mode = "edit" => IsRule(old), NEW w, w = Rule!Filled(d.work, d.form, d.shown)
  PROVE  /\ \A rec \in Rule!Made(w) :
              IsRule(rec) /\ RuleShows(d, w, rec) /\ RuleHides(d, rec, old)
         /\ Rule!Made(w) = {} => RuleReason(d.form, d.shown)
<1>1. RuleDlg(d) /\ (d.mode = "edit" => RuleKept(d, old))
  BY DEF Dialog
<1>2. RuleOf(d, w)
  <2>1. RuleSec(d.work[1], d.form[1], d.shown[1], EscOf(d.left, Rule!Menus, 1))
    BY <1>1 DEF RuleDlg
  <2> QED BY <2>1, RuleFills DEF RuleOf
<1>3. RuleTyped(w[1])
  BY <1>2 DEF RuleOf, RuleAfter
<1>4. ASSUME NEW rec \in Rule!Made(w)
      PROVE  IsRule(rec) /\ RuleShows(d, w, rec) /\ RuleHides(d, rec, old)
  <2>1. RuleMadeOf(w[1], rec)
    BY <1>3, RuleMadeIs
  <2>2. IsRule(rec)
    BY <1>3, <2>1, MadeIsRule
  <2> QED BY <1>1, <1>2, <2>1, <2>2, RuleMadeShown, RuleActionKept
<1>5. ASSUME Rule!Made(w) = {}
      PROVE  RuleReason(d.form, d.shown)
  <2>1. RuleSec(d.work[1], d.form[1], d.shown[1], EscOf(d.left, Rule!Menus, 1))
          /\ RuleAfter(d.work[1], w[1], d.form[1], d.shown[1], EscOf(d.left, Rule!Menus, 1))
    BY <1>1, <1>2 DEF RuleDlg, RuleOf
  <2>2. {"goto", "l3mdev"} \subseteq Rule!Widgets \ (Rule!Menus \cup Rule!Ends \cup {"fwmark"})
          /\ "table" \in Rule!Menus
    BY DEF Rule!Widgets, Rule!Menus, Rule!Ends
  <2>3. CASE w[1].action = "goto" /\ w[1].goto = 0
    <3>1. d.form[1].goto = 0
      BY <2>1, <2>2, <2>3 DEF RuleAfter
    <3>2. d.work[1].action = "goto" /\ d.work[1].goto # 0
      BY <2>1, <2>3, <3>1 DEF RuleAfter, RuleSec
    <3>3. d.work[1].goto \in Values("goto") /\ d.shown[1].goto = Rule!ShownIn(d.work[1], "goto")
      BY <2>1, <2>2 DEF RuleSec
    <3>4. d.shown[1].goto # 0
      BY <2>2, <3>2, <3>3, RuleValues DEF Rule!ShownIn
    <3> QED BY <3>1, <3>4 DEF RuleReason
  <2>4. CASE w[1].l3mdev = 1 /\ w[1].table # 0
    <3>1. w[1].l3mdev = d.form[1].l3mdev /\ w[1].table = d.form[1].table
      BY <2>1, <2>2 DEF RuleAfter
    <3> QED BY <2>4, <3>1 DEF RuleReason
  <2> QED BY <1>3, <1>5, <2>3, <2>4, RuleRefused
<1> QED BY <1>4, <1>5

NeighShows(d, rec) ==
  \A f \in Neigh!Widgets \ Neigh!Surprises(d.form, d.left) :
    Neigh!Shown(rec)[1][f] = d.form[1][f]

\* The reasons a neighbour is refused for.
NeighReason(form, left) ==
  form[1].ip = 0 \/ form[1].dev = 0 \/ << 1, "dev" >> \in left

LEMMA NeighOk ==
  ASSUME NEW d, NEW new, NEW old, Dialog("neigh", d, new, old),
         NEW w, w = Neigh!Filled(d.work, d.form, d.shown)
  PROVE  /\ \A rec \in Neigh!Made(w) : IsNeigh(rec) /\ NeighShows(d, rec)
         /\ Neigh!Made(w) = {} => NeighReason(d.form, d.left)
<1>1. NeighAfter(w[1], d.form[1], EscOf(d.left, Neigh!Menus, 1))
  <2>1. NeighSec(d.work[1], d.form[1], d.shown[1], EscOf(d.left, Neigh!Menus, 1))
    BY DEF Dialog, NeighDlg
  <2> QED BY <2>1, NeighFills
<1>2. ASSUME NEW rec \in Neigh!Made(w)
      PROVE  IsNeigh(rec) /\ NeighShows(d, rec)
  <2>1. NeighMadeOf(w[1], rec)
    BY NeighMadeIs
  <2>2. Drawn(Neigh!Widgets, w[1])
    BY <1>1 DEF NeighAfter
  <2>3. IsNeigh(rec)
    BY <2>1, <2>2, MadeIsNeigh
  <2>4. NeighShows(d, rec)
    BY <1>1, <2>1, NeighMadeShown DEF NeighShows
  <2> QED BY <2>3, <2>4
<1>3. ASSUME Neigh!Made(w) = {}
      PROVE  NeighReason(d.form, d.left)
  <2>1. "ip" \in Neigh!Widgets \ (Neigh!Menus \cup {"use"}) /\ "dev" \in Neigh!Menus \ {"family"}
    BY DEF Neigh!Widgets, Neigh!Menus
  <2>2. w[1].ip = d.form[1].ip
    BY <1>1, <2>1 DEF NeighAfter
  <2>3. w[1].dev = d.form[1].dev \/ << 1, "dev" >> \in d.left
    BY <1>1, <2>1 DEF NeighAfter, EscOf
  <2>4. w[1].ip = 0 \/ w[1].dev = 0
    BY <1>3, NeighMadeIs
  <2> QED BY <2>2, <2>3, <2>4 DEF NeighReason
<1> QED BY <1>2, <1>3

\* Of every kind.
WhyRefused(k, w, form, shown, left, ok) ==
  /\ k = "route" => Reason(w, form, shown, left, ok)
  /\ k = "rule"  => RuleReason(form, shown)
  /\ k = "neigh" => NeighReason(form, left)

-----------------------------------------------------------------------------
(***************************************************************************)
(* The steps.                                                              *)
(***************************************************************************)

Reports == HiddenKept /\ MadeAsShown /\ HopsAsMarked /\ IdleRunsNothing /\ RefusedForReason

Safe == IInv /\ Reports

LEMMA NothingReported == last = None => Reports
BY DEF Reports, HiddenKept, MadeAsShown, HopsAsMarked, IdleRunsNothing, RefusedForReason,
       MadeAfterOk

LEMMA InitSafe == Init => Safe
<1> SUFFICES ASSUME Init PROVE Safe
  OBVIOUS
<1>1. /\ kind \in Kinds /\ (kernel = None \/ kernel \in Samples[kind])
      /\ new_nh = Route!Hop /\ dlg = None /\ last = None /\ marked = FALSE
      /\ count = [dialogs |-> 0, touches |-> 0]
  BY DEF Init
<1>2. HopTyped(new_nh) /\ (new_nh.nexthop = 1) = FALSE
  BY <1>1, BlankHop
<1>3. count \in [dialogs : 0 .. MaxDialogs, touches : 0 .. MaxTouches]
  BY <1>1, RecordEditAssumption
<1>4. kernel # None => IsRecord(kind, kernel)
  BY <1>1, SamplesAssumption DEF IsRecord
<1>5. EncapAsShown
  BY <1>1 DEF EncapAsShown
<1>6. IInv
  BY <1>1, <1>2, <1>3, <1>4, <1>5 DEF IInv
<1> QED BY <1>1, <1>6, NothingReported DEF Safe

\* EncapAsShown of the next state.
LEMMA EncapNext ==
  ASSUME dlg' # None => EncsShown(dlg'.encs)
  PROVE  EncapAsShown'
BY DEF EncapAsShown, EncsShown

LEMMA OpenSafe ==
  ASSUME IInv, Edit \/ Create
  PROVE  Safe'
<1>1. /\ last' = None /\ kernel' = kernel /\ kind' = kind
      /\ count.dialogs < MaxDialogs /\ count' = [count EXCEPT !.dialogs = @ + 1]
  BY DEF Edit, Create, Open
<1>2. /\ Dialog(kind, dlg', new_nh', kernel) /\ EncsShown(dlg'.encs)
      /\ HopTyped(new_nh') /\ marked' \in BOOLEAN
      /\ kind = "route" => (marked' = (new_nh'.nexthop = 1))
  <2>1. CASE Edit
    <3>1. /\ kernel # None /\ new_nh' = new_nh /\ marked' = marked
          /\ dlg' = Opened("edit", IF kind = "rule" THEN Rule!Read(kernel) ELSE kernel, new_nh)
      BY <2>1 DEF Edit, Open
    <3>2. Dialog(kind, dlg', new_nh, kernel) /\ EncsShown(dlg'.encs)
      BY <3>1, RecordOpens
    <3> QED BY <3>1, <3>2 DEF IInv
  <2>2. CASE Create
    BY <2>2, BlankOpens
  <2> QED BY <2>1, <2>2
<1>3. count' \in [dialogs : 0 .. MaxDialogs, touches : 0 .. MaxTouches]
  <2>1. count \in [dialogs : 0 .. MaxDialogs, touches : 0 .. MaxTouches]
    BY DEF IInv
  <2>2. count.dialogs + 1 \in 0 .. MaxDialogs
    BY <1>1, <2>1, RecordEditAssumption
  <2> QED BY <1>1, <2>1, <2>2
<1>4. EncapAsShown'
  BY <1>2, EncapNext
<1>5. IInv'
  BY <1>1, <1>2, <1>3, <1>4 DEF IInv
<1>6. Reports'
  BY <1>1 DEF Reports, HiddenKept, MadeAsShown, HopsAsMarked, IdleRunsNothing,
              RefusedForReason, MadeAfterOk
<1> QED BY <1>5, <1>6 DEF Safe

\* What the dialog just closed is reported of depends on these alone.
LEMMA StillReported ==
  ASSUME Reports, UNCHANGED << last, kind, marked >>
  PROVE  Reports'
<1>1. last' = last /\ kind' = kind /\ marked' = marked /\ MadeAfterOk' = MadeAfterOk
      /\ Sections' = Sections
  BY DEF MadeAfterOk, Sections
<1>2. \A s, w : /\ Widgets(s)' = Widgets(s) /\ Surprises(s)' = Surprises(s)
               /\ Shown(w)' = Shown(w) /\ Twins(s)' = Twins(s) /\ Made(w)' = Made(w)
  BY <1>1 DEF Widgets, Surprises, Shown, Twins, Made
<1>3. HiddenKept'
  BY <1>1 DEF Reports, HiddenKept
<1>4. MadeAsShown'
  BY <1>1, <1>2 DEF Reports, MadeAsShown
<1>5. HopsAsMarked'
  BY <1>1 DEF Reports, HopsAsMarked
<1>6. IdleRunsNothing'
  BY <1>1, <1>2 DEF Reports, IdleRunsNothing
<1>7. RefusedForReason'
  <2>1. \A s : RouteReason(s)' = RouteReason(s)
    BY <1>1 DEF RouteReason, Empty, Escaped
  <2>2. Escaped(1, "dev")' = Escaped(1, "dev")
    BY <1>1 DEF Escaped
  <2> QED BY <1>1, <1>2, <2>1, <2>2 DEF Reports, RefusedForReason
<1> QED BY <1>3, <1>4, <1>5, <1>6, <1>7 DEF Reports

LEMMA UseSafe ==
  ASSUME Safe, dlg # None, NEW s \in DOMAIN dlg.form, Used(s)
  PROVE  Safe'
<1>1. /\ kernel' = kernel /\ kind' = kind /\ last' = last /\ marked' = marked
      /\ count.touches < MaxTouches /\ count' = [count EXCEPT !.touches = @ + 1]
  <2>1. Touch(s)
    <3>1. CASE Encap(s)
      BY <3>1, Zenon DEF Encap
    <3>2. ASSUME NEW f, Leave(s, f) PROVE Touch(s)
      BY <3>2 DEF Leave
    <3>3. ASSUME NEW f, NEW v, Pick(s, f, v) PROVE Touch(s)
      BY <3>3 DEF Pick
    <3>4. ASSUME NEW f, NEW v, Type(s, f, v) PROVE Touch(s)
      BY <3>4 DEF Type
    <3> QED BY <3>1, <3>2, <3>3, <3>4 DEF Used
  <2> QED BY <2>1 DEF Touch
<1>2. /\ kind \in Kinds /\ HopTyped(new_nh) /\ Dialog(kind, dlg, new_nh, kernel)
      /\ marked \in BOOLEAN /\ (kind = "route" => (marked = (new_nh.nexthop = 1)))
      /\ count \in [dialogs : 0 .. MaxDialogs, touches : 0 .. MaxTouches]
      /\ kernel # None => IsRecord(kind, kernel)
  BY DEF Safe, IInv
<1>3. EncsShown(dlg.encs)
  BY DEF Safe, IInv, EncapAsShown, EncsShown
<1>4. /\ Dialog(kind, dlg', new_nh', kernel) /\ HopTyped(new_nh')
      /\ new_nh'.nexthop = new_nh.nexthop /\ EncsShown(dlg'.encs)
  <2>1. CASE kind = "route"
    BY <1>2, <1>3, <2>1, RouteStep
  <2>2. CASE kind = "rule"
    BY <1>2, <1>3, <2>2, RuleStep
  <2>3. CASE kind = "neigh"
    BY <1>2, <1>3, <2>3, NeighStep
  <2> QED BY <1>2, <2>1, <2>2, <2>3 DEF Kinds
<1>5. count' \in [dialogs : 0 .. MaxDialogs, touches : 0 .. MaxTouches]
  <2>1. count.touches + 1 \in 0 .. MaxTouches
    BY <1>1, <1>2, RecordEditAssumption
  <2> QED BY <1>1, <1>2, <2>1
<1>6. EncapAsShown'
  BY <1>4, EncapNext
<1>7. IInv'
  BY <1>1, <1>2, <1>4, <1>5, <1>6 DEF IInv
<1>8. Reports'
  BY <1>1, StillReported DEF Safe
<1> QED BY <1>7, <1>8 DEF Safe

\* The dialog is gone; what is known of it afterwards.
Ended(l, d, old, ok, w, ran, made) ==
  /\ l.mode = d.mode /\ l.old = old /\ l.form = d.form /\ l.shown = d.shown
  /\ l.left = d.left /\ l.encs = d.encs /\ l.held = d.held
  /\ l.ok = ok /\ l.work = w /\ l.ran = ran /\ l.made = made

Gone(ok, w, ran, made) ==
  /\ dlg' = None /\ kind' = kind /\ count' = count
  /\ Ended(last', dlg, kernel, ok, w, ran, made)
  /\ made = None \/ made \in Made(w)
  /\ kernel' \in {kernel, None} \/ (made \in Made(w) /\ kernel' = made)

LEMMA CloseIs ==
  ASSUME NEW ok, NEW w, NEW ran, NEW made, NEW now, Close(ok, w, ran, made, now)
  PROVE  /\ dlg' = None /\ kind' = kind /\ count' = count /\ kernel' = now
         /\ Ended(last', dlg, kernel, ok, w, ran, made)
BY DEF Close, Closed, Ended

LEMMA CommandsAre ==
  ASSUME NEW ok, NEW w, Commands(ok, w)
  PROVE  \E ran, made : Gone(ok, w, ran, made)
<1> DEFINE old == IF dlg.mode = "edit" THEN None ELSE kernel
           ran == IF dlg.mode = "edit" THEN {"delete", "create"} ELSE {"create"}
<1>1. CASE Close(ok, w, {"delete"}, None, kernel)
  <2>1. Gone(ok, w, {"delete"}, None)
    BY <1>1, CloseIs DEF Gone
  <2> QED BY <2>1
<1>2. CASE Close(ok, w, ran, None, old)
  <2>1. old \in {kernel, None}
    OBVIOUS
  <2> HIDE DEF old, ran
  <2>2. Gone(ok, w, ran, None)
    BY <1>2, <2>1, CloseIs DEF Gone
  <2> QED BY <2>2
<1>3. ASSUME NEW rec \in Made(w), Close(ok, w, ran, rec, rec)
      PROVE  \E r, made : Gone(ok, w, r, made)
  <2> HIDE DEF ran
  <2>1. Gone(ok, w, ran, rec)
    BY <1>3, CloseIs DEF Gone
  <2> QED BY <2>1
<1> HIDE DEF ran, old
<1> QED BY <1>1, <1>2, <1>3 DEF Commands, ran, old

\* What is reported of a dialog that was closed without OK, or ran nothing.
LEMMA NothingMade ==
  ASSUME ~MadeAfterOk'
  PROVE  HiddenKept' /\ MadeAsShown' /\ HopsAsMarked'
BY DEF HiddenKept, MadeAsShown, HopsAsMarked, MadeAfterOk

\* What is reported of a record that is refused.
LEMMA RefusalReported ==
  ASSUME NEW ok, NEW w, NEW ran, NEW made, kind \in Kinds, kind' = kind,
         Ended(last', dlg, kernel, ok, w, ran, made),
         ran # {} /\ Made(w) = {} => WhyRefused(kind, w, dlg.form, dlg.shown, dlg.left, ok)
  PROVE  RefusedForReason'
<1>1. /\ last'.work = w /\ last'.form = dlg.form /\ last'.shown = dlg.shown
      /\ last'.left = dlg.left /\ last'.ran = ran /\ last'.ok = ok
  BY DEF Ended
<1>2. Made(last.work)' = Made(w)
  BY <1>1 DEF Made
<1> SUFFICES ASSUME ran # {}, Made(w) = {}
             PROVE  RefusedForReason'
  BY <1>1, <1>2 DEF RefusedForReason
<1>3. CASE kind = "route"
  <2>1. \A s : RouteReason(s)' = GivenUp(w, s, dlg.form[s], dlg.shown[s], dlg.left, ok)
    BY <1>1 DEF RouteReason, Empty, Escaped, GivenUp
  <2>2. PICK s \in Parts(w) : GivenUp(w, s, dlg.form[s], dlg.shown[s], dlg.left, ok)
    BY <1>3 DEF WhyRefused, Reason
  <2> QED BY <1>1, <1>3, <2>1, <2>2 DEF RefusedForReason, Parts
<1>4. CASE kind = "rule"
  BY <1>1, <1>4 DEF RefusedForReason, WhyRefused, RuleReason
<1>5. CASE kind = "neigh"
  BY <1>1, <1>5 DEF RefusedForReason, WhyRefused, NeighReason, Escaped
<1> QED BY <1>3, <1>4, <1>5 DEF Kinds

LEMMA CancelSafe ==
  ASSUME IInv, Cancel
  PROVE  Safe'
<1>1. /\ kind \in Kinds /\ HopTyped(new_nh) /\ Dialog(kind, dlg, new_nh, kernel)
      /\ marked \in BOOLEAN /\ (kind = "route" => (marked = (new_nh.nexthop = 1)))
      /\ count \in [dialogs : 0 .. MaxDialogs, touches : 0 .. MaxTouches]
      /\ kernel # None => IsRecord(kind, kernel)
  BY DEF IInv, Cancel
<1>2. new_nh' = new_nh /\ marked' = marked
  BY DEF Cancel
<1>3. PICK ran, made :
        /\ Gone(FALSE, dlg.work, ran, made)
        /\ ran # {} => dlg.change
  <2>1. CASE dlg.change
    <3>1. Commands(FALSE, dlg.work)
      BY <2>1 DEF Cancel
    <3> QED BY <2>1, <3>1, CommandsAre
  <2>2. CASE ~dlg.change
    <3>1. Close(FALSE, dlg.work, {}, None, kernel)
      BY <2>2 DEF Cancel
    <3>2. Gone(FALSE, dlg.work, {}, None)
      BY <3>1, CloseIs DEF Gone
    <3> QED BY <3>2
  <2> QED BY <2>1, <2>2
<1>4. /\ dlg' = None /\ kind' = kind /\ count' = count
      /\ Ended(last', dlg, kernel, FALSE, dlg.work, ran, made)
  BY <1>3 DEF Gone
<1>5. HiddenKept' /\ MadeAsShown' /\ HopsAsMarked'
  <2>1. ~MadeAfterOk'
    BY <1>4 DEF MadeAfterOk, Ended
  <2> QED BY <2>1, NothingMade
<1>6. IdleRunsNothing'
  <2>1. ran # {} => dlg.encs # {}
    BY <1>1, <1>3 DEF Dialog
  <2> QED BY <1>4, <2>1 DEF IdleRunsNothing, Ended
<1>7. /\ kind = "route" /\ Made(dlg.work) = {} =>
           Reason(dlg.work, dlg.form, dlg.shown, dlg.left, FALSE)
      /\ \A rec \in Made(dlg.work) : IsRecord(kind, rec)
  <2>1. CASE kind = "route"
    <3>1. RouteDlg(dlg, new_nh) /\ Made(dlg.work) = Route!Made(dlg.work)
      BY <1>1, <2>1 DEF Dialog, Made
    <3>2. Route!Made(dlg.work) = {} => Reason(dlg.work, dlg.form, dlg.shown, dlg.left, FALSE)
      BY <3>1, CancelRefused
    <3>3. \A rec \in Route!Made(dlg.work) : IsRoute(rec)
      BY <3>1, WorkTyped, MadeRouteIs, MadeIsRoute
    <3> QED BY <2>1, <3>1, <3>2, <3>3 DEF IsRecord
  <2>2. CASE kind = "rule"
    <3>1. RuleTyped(dlg.work[1]) /\ Made(dlg.work) = Rule!Made(dlg.work)
      BY <1>1, <2>2 DEF Dialog, Made, RuleDlg, RuleSec, RuleTyped
    <3> QED BY <2>2, <3>1, RuleMadeIs, MadeIsRule DEF IsRecord
  <2>3. CASE kind = "neigh"
    <3>1. Drawn(Neigh!Widgets, dlg.work[1]) /\ Made(dlg.work) = Neigh!Made(dlg.work)
      BY <1>1, <2>3 DEF Dialog, Made, NeighDlg, NeighSec
    <3> QED BY <2>3, <3>1, NeighMadeIs, MadeIsNeigh DEF IsRecord
  <2> QED BY <1>1, <2>1, <2>2, <2>3 DEF Kinds
<1>8. RefusedForReason'
  <2>1. ran # {} => kind = "route"
    BY <1>1, <1>3 DEF Dialog
  <2>2. ran # {} /\ Made(dlg.work) = {} =>
          WhyRefused(kind, dlg.work, dlg.form, dlg.shown, dlg.left, FALSE)
    BY <1>7, <2>1 DEF WhyRefused
  <2> QED BY <1>1, <1>4, <2>2, RefusalReported
<1>9. kernel' # None => IsRecord(kind, kernel')
  BY <1>1, <1>3, <1>7 DEF Gone
<1>10. IInv'
  <2>1. EncapAsShown'
    BY <1>4, EncapNext
  <2> QED BY <1>1, <1>2, <1>4, <1>9, <2>1 DEF IInv
<1> QED BY <1>5, <1>6, <1>8, <1>10 DEF Safe, Reports

\* What OK makes of the open dialog, of each kind.
MadeRight(k, d, w, hop, old, rec) ==
  /\ IsRecord(k, rec)
  /\ k = "route" => RouteShows(d, w, rec) /\ RouteHides(d, rec, old) /\ RouteHops(d, w, hop, rec)
  /\ k = "rule"  => RuleShows(d, w, rec) /\ RuleHides(d, rec, old)
  /\ k = "neigh" => NeighShows(d, rec)

LEMMA FilledRight ==
  ASSUME IInv, dlg # None, NEW w, NEW hop, << w, hop >> = Filled(dlg.work, dlg.form, dlg.shown)
  PROVE  /\ HopTyped(hop)
         /\ kind = "route" =>
              (hop.nexthop = 1) = (new_nh.nexthop = 1 \/ Last(dlg.form).nexthop = 1)
         /\ \A rec \in Made(w) : MadeRight(kind, dlg, w, hop, kernel, rec)
         /\ Made(w) = {} => WhyRefused(kind, w, dlg.form, dlg.shown, dlg.left, TRUE)
<1>1. /\ kind \in Kinds /\ HopTyped(new_nh) /\ Dialog(kind, dlg, new_nh, kernel)
      /\ dlg.mode = "edit" => IsRecord(kind, kernel)
  BY DEF IInv, Dialog
<1>2. CASE kind = "route"
  <2>1. << w, hop >> = Route!Filled(dlg.work, new_nh, dlg.form, dlg.shown)
    BY <1>2 DEF Filled
  <2>2. /\ Dialog("route", dlg, new_nh, kernel) /\ (dlg.mode = "edit" => IsRoute(kernel))
        /\ Made(w) = Route!Made(w)
    BY <1>1, <1>2 DEF IsRecord, Made
  <2>3. /\ HopTyped(hop)
        /\ (hop.nexthop = 1) = (new_nh.nexthop = 1 \/ Last(dlg.form).nexthop = 1)
        /\ \A rec \in Route!Made(w) :
             IsRoute(rec) /\ RouteShows(dlg, w, rec) /\ RouteHides(dlg, rec, kernel)
               /\ RouteHops(dlg, w, hop, rec)
        /\ Route!Made(w) = {} => Reason(w, dlg.form, dlg.shown, dlg.left, TRUE)
    BY <2>1, <2>2, RouteOk
  <2> QED BY <1>2, <2>2, <2>3 DEF MadeRight, IsRecord, WhyRefused
<1>3. CASE kind = "rule"
  <2>1. w = Rule!Filled(dlg.work, dlg.form, dlg.shown) /\ hop = new_nh
    BY <1>3 DEF Filled
  <2>2. /\ Dialog("rule", dlg, new_nh, kernel) /\ (dlg.mode = "edit" => IsRule(kernel))
        /\ Made(w) = Rule!Made(w)
    BY <1>1, <1>3 DEF IsRecord, Made
  <2>3. /\ \A rec \in Rule!Made(w) :
             IsRule(rec) /\ RuleShows(dlg, w, rec) /\ RuleHides(dlg, rec, kernel)
        /\ Rule!Made(w) = {} => RuleReason(dlg.form, dlg.shown)
    BY <2>1, <2>2, RuleOk
  <2> QED BY <1>1, <1>3, <2>1, <2>2, <2>3 DEF MadeRight, IsRecord, WhyRefused
<1>4. CASE kind = "neigh"
  <2>1. w = Neigh!Filled(dlg.work, dlg.form, dlg.shown) /\ hop = new_nh
    BY <1>4 DEF Filled
  <2>2. Dialog("neigh", dlg, new_nh, kernel) /\ Made(w) = Neigh!Made(w)
    BY <1>1, <1>4 DEF Made
  <2>3. /\ \A rec \in Neigh!Made(w) : IsNeigh(rec) /\ NeighShows(dlg, rec)
        /\ Neigh!Made(w) = {} => NeighReason(dlg.form, dlg.left)
    BY <2>1, <2>2, NeighOk
  <2> QED BY <1>1, <1>4, <2>1, <2>2, <2>3 DEF MadeRight, IsRecord, WhyRefused
<1> QED BY <1>1, <1>2, <1>3, <1>4 DEF Kinds

\* The three properties of what was made.
LEMMA RightReported ==
  ASSUME NEW w, NEW ran, NEW made, Gone(TRUE, w, ran, made), kind \in Kinds,
         made \in Made(w) => MadeRight(kind, dlg, w, new_nh', kernel, made),
         kind = "route" => (marked' = (new_nh'.nexthop = 1))
  PROVE  HiddenKept' /\ MadeAsShown' /\ HopsAsMarked'
<1>1. CASE made = None
  <2>1. ~MadeAfterOk'
    BY <1>1 DEF MadeAfterOk, Gone, Ended
  <2> QED BY <2>1, NothingMade
<1>2. CASE made # None
  <2>1. /\ last'.mode = dlg.mode /\ last'.old = kernel /\ last'.form = dlg.form
        /\ last'.shown = dlg.shown /\ last'.left = dlg.left /\ last'.encs = dlg.encs
        /\ last'.held = dlg.held /\ last'.ok = TRUE /\ last'.work = w /\ last'.made = made
        /\ kind' = kind
    BY DEF Gone, Ended
  <2>2. MadeRight(kind, dlg, w, new_nh', kernel, made)
    BY <1>2 DEF Gone
  <2>3. HiddenKept'
    BY <2>1, <2>2 DEF HiddenKept, MadeRight, RouteHides, RuleHides
  <2>4. MadeAsShown'
    <3>1. CASE kind = "route"
      <4>1. Sections' = Places(w, dlg.form)
        BY <2>1, <3>1 DEF Sections, Places
      <4>2. \A s, x :
              /\ Widgets(s)' = IF s = 1 THEN Route!MainWidgets ELSE Route!HopWidgets
              /\ Surprises(s)' = Route!Surprises(w, dlg.form, dlg.shown, dlg.left, dlg.held, s)
              /\ Shown(x)' = Route!Shown(x)
        BY <2>1, <3>1 DEF Widgets, Surprises, Shown
      <4>3. RouteShows(dlg, w, made)
        BY <2>2, <3>1 DEF MadeRight
      <4> QED BY <2>1, <4>1, <4>2, <4>3 DEF MadeAsShown, RouteShows
    <3>2. CASE kind = "rule"
      <4>1. Sections' = << 1 >>
        BY <2>1, <3>2 DEF Sections
      <4>2. /\ Widgets(1)' = Rule!Widgets
            /\ Surprises(1)' = Rule!Surprises(w, dlg.form, dlg.shown, dlg.left)
            /\ Shown(made)' = Rule!Shown(made)
        BY <2>1, <3>2 DEF Widgets, Surprises, Shown
      <4>3. RuleShows(dlg, w, made)
        BY <2>2, <3>2 DEF MadeRight
      <4> QED BY <2>1, <4>1, <4>2, <4>3 DEF MadeAsShown, RuleShows
    <3>3. CASE kind = "neigh"
      <4>1. Sections' = << 1 >>
        BY <2>1, <3>3 DEF Sections
      <4>2. /\ Widgets(1)' = Neigh!Widgets
            /\ Surprises(1)' = Neigh!Surprises(dlg.form, dlg.left)
            /\ Shown(made)' = Neigh!Shown(made)
        BY <2>1, <3>3 DEF Widgets, Surprises, Shown
      <4>3. NeighShows(dlg, made)
        BY <2>2, <3>3 DEF MadeRight
      <4> QED BY <2>1, <4>1, <4>2, <4>3 DEF MadeAsShown, NeighShows
    <3> QED BY <3>1, <3>2, <3>3 DEF Kinds
  <2>5. HopsAsMarked'
    <3> SUFFICES ASSUME kind = "route", w[1].nhid = 0
                 PROVE  Len(made) = Len(Places(w, dlg.form))
                          + IF marked' /\ Last(dlg.form).nexthop = 0 THEN 1 ELSE 0
      BY <2>1 DEF HopsAsMarked, Sections, Places
    <3> QED BY <2>2 DEF MadeRight, RouteHops
  <2> QED BY <2>3, <2>4, <2>5
<1> QED BY <1>1, <1>2

LEMMA OkSafe ==
  ASSUME IInv, Ok
  PROVE  Safe'
<1>1. /\ kind \in Kinds /\ HopTyped(new_nh) /\ Dialog(kind, dlg, new_nh, kernel)
      /\ marked \in BOOLEAN /\ (kind = "route" => (marked = (new_nh.nexthop = 1)))
      /\ count \in [dialogs : 0 .. MaxDialogs, touches : 0 .. MaxTouches]
      /\ kernel # None => IsRecord(kind, kernel)
      /\ dlg # None
  BY DEF IInv, Ok
<1>2. CASE dlg.change \/ ChangeList
  <2> DEFINE filled == Filled(dlg.work, dlg.form, dlg.shown)
             w == filled[1]
             hop == filled[2]
  <2>1. << w, hop >> = Filled(dlg.work, dlg.form, dlg.shown)
    BY <1>1 DEF Filled, Route!Filled, Kinds
  <2>2. /\ Commands(TRUE, w) /\ new_nh' = hop
        /\ marked' = (marked \/ (kind = "route" /\ Last(dlg.form).nexthop = 1))
    BY <1>2 DEF Ok
  <2> HIDE DEF w, hop
  <2>3. /\ HopTyped(hop)
        /\ kind = "route" =>
             (hop.nexthop = 1) = (new_nh.nexthop = 1 \/ Last(dlg.form).nexthop = 1)
        /\ \A rec \in Made(w) : MadeRight(kind, dlg, w, hop, kernel, rec)
        /\ Made(w) = {} => WhyRefused(kind, w, dlg.form, dlg.shown, dlg.left, TRUE)
    BY <1>1, <2>1, FilledRight
  <2>4. PICK ran, made : Gone(TRUE, w, ran, made)
    BY <2>2, CommandsAre
  <2>5. dlg' = None /\ kind' = kind /\ count' = count /\ Ended(last', dlg, kernel, TRUE, w, ran, made)
    BY <2>4 DEF Gone
  <2>6. marked' \in BOOLEAN /\ (kind = "route" => (marked' = (new_nh'.nexthop = 1)))
    BY <1>1, <2>2, <2>3
  <2>7. HiddenKept' /\ MadeAsShown' /\ HopsAsMarked'
    BY <1>1, <2>2, <2>3, <2>4, <2>6, RightReported
  <2>8. IdleRunsNothing'
    <3>1. \/ dlg.encs # {}
          \/ \E s \in DOMAIN dlg.form :
               \/ dlg.form[s] # dlg.shown[s]
               \/ \E f \in Twins(s) : dlg.form[s][f] = 1
      BY <1>1, <1>2 DEF Dialog, ChangeList, Changed
    <3>2. \A s : Twins(s)' = Twins(s)
      BY <2>5 DEF Twins, Widgets
    <3>3. /\ last'.encs = dlg.encs /\ last'.form = dlg.form /\ last'.shown = dlg.shown
          /\ last'.ok = TRUE
      BY <2>5 DEF Ended
    <3> QED BY <3>1, <3>2, <3>3 DEF IdleRunsNothing
  <2>9. RefusedForReason'
    BY <1>1, <2>3, <2>5, RefusalReported
  <2>10. kernel' # None => IsRecord(kind, kernel')
    BY <1>1, <2>3, <2>4 DEF Gone, MadeRight
  <2>11. EncapAsShown'
    BY <2>5, EncapNext
  <2>12. IInv'
    BY <1>1, <2>2, <2>3, <2>5, <2>6, <2>10, <2>11 DEF IInv
  <2> QED BY <2>7, <2>8, <2>9, <2>12 DEF Safe, Reports
<1>3. CASE ~(dlg.change \/ ChangeList)
  <2>1. Close(TRUE, dlg.work, {}, None, kernel) /\ new_nh' = new_nh /\ marked' = marked
    BY <1>3 DEF Ok
  <2>2. /\ dlg' = None /\ kind' = kind /\ count' = count /\ kernel' = kernel
        /\ Ended(last', dlg, kernel, TRUE, dlg.work, {}, None)
    BY <2>1, CloseIs
  <2>3. HiddenKept' /\ MadeAsShown' /\ HopsAsMarked'
    <3>1. ~MadeAfterOk'
      BY <2>2 DEF MadeAfterOk, Ended
    <3> QED BY <3>1, NothingMade
  <2>4. IdleRunsNothing' /\ RefusedForReason'
    BY <2>2 DEF IdleRunsNothing, RefusedForReason, Ended
  <2>5. EncapAsShown'
    BY <2>2, EncapNext
  <2>6. IInv'
    BY <1>1, <2>1, <2>2, <2>5 DEF IInv
  <2> QED BY <2>3, <2>4, <2>6 DEF Safe, Reports
<1> QED BY <1>2, <1>3

\* The type invariant follows from the inductive one.
LEMMA InvTyped ==
  ASSUME IInv
  PROVE  TypeOK
<1>1. /\ kind \in Kinds /\ marked \in BOOLEAN /\ HopTyped(new_nh)
      /\ count \in [dialogs : 0 .. MaxDialogs, touches : 0 .. MaxTouches]
  BY DEF IInv
<1>2. DOMAIN new_nh = DOMAIN Route!Hop /\ new_nh.enc \in Route!Encs
  BY <1>1 DEF HopTyped
<1>3. ASSUME dlg # None
      PROVE  /\ dlg.mode \in {"edit", "create"} /\ dlg.change \in BOOLEAN
             /\ DOMAIN dlg.shown = DOMAIN dlg.form
             /\ \A s \in DOMAIN dlg.form : Drawn(Widgets(s), dlg.form[s])
             /\ kind = "neigh" => dlg.form[1].use = 0 \/ dlg.form[1].managed = 0
             /\ \A s \in DOMAIN dlg.work, f \in Widgets(1) :
                  f \in DOMAIN dlg.work[s] => dlg.work[s][f] \in Values(f) \cup {Unset}
  <2>1. Dialog(kind, dlg, new_nh, kernel)
    BY <1>3 DEF IInv
  <2>2. dlg.mode \in {"edit", "create"} /\ dlg.change \in BOOLEAN
    BY <2>1 DEF Dialog
  <2>3. CASE kind = "route"
    <3>1. RouteDlg(dlg, new_nh)
      BY <2>1, <2>3 DEF Dialog
    <3> DEFINE n == Len(dlg.work)
    <3>2. /\ n \in Nat /\ n > 0 /\ DOMAIN dlg.work = 1 .. n /\ DOMAIN dlg.form = 1 .. n + 1
          /\ DOMAIN dlg.shown = DOMAIN dlg.form
      BY <3>1 DEF RouteDlg
    <3>3. \A s : Widgets(s) = IF s = 1 THEN Route!MainWidgets ELSE Route!HopWidgets
      BY <2>3 DEF Widgets
    <3>4. ASSUME NEW s \in DOMAIN dlg.form
          PROVE  Drawn(Widgets(s), dlg.form[s])
      <4>1. SecOk(s, n, IF s =< n THEN dlg.work[s] ELSE new_nh, dlg.form[s], dlg.shown[s],
                  Esc(dlg.left, s), dlg.held)
        BY <3>1, <3>2 DEF RouteDlg
      <4>2. CASE s = 1
        BY <3>3, <4>1, <4>2 DEF SecOk, MainOk
      <4>3. CASE s \in 2 .. n
        BY <3>3, <4>1, <4>3 DEF SecOk, HopOk
      <4>4. CASE s = n + 1
        <5>1. s # 1
          BY <3>2, <4>4
        <5> QED BY <3>3, <4>1, <4>4, <5>1 DEF SecOk, NewOk
      <4> QED BY <3>2, <4>2, <4>3, <4>4
    <3>5. ASSUME NEW s \in DOMAIN dlg.work, NEW f \in Widgets(1), f \in DOMAIN dlg.work[s]
          PROVE  dlg.work[s][f] \in Values(f) \cup {Unset}
      <4>1. RouteTyped(dlg.work)
        BY <3>1, WorkTyped
      <4>2. f \in Route!MainWidgets /\ f # "rtvia" /\ f # "enc"
        BY <3>3, MoreNames
      <4>3. CASE s = 1
        BY <4>1, <4>2, <4>3 DEF RouteTyped, MainTyped
      <4>4. CASE s # 1
        <5>1. s \in 2 .. n
          BY <3>2, <4>4
        <5>2. HopTyped(dlg.work[s])
          BY <4>1, <5>1 DEF RouteTyped
        <5>3. f \in Route!HopWidgets
          BY <3>5, <4>2, <5>2, Names DEF HopTyped
        <5> QED BY <5>2, <5>3 DEF HopTyped
      <4> QED BY <4>3, <4>4
    <3> QED BY <2>2, <2>3, <3>2, <3>4, <3>5
  <2>4. CASE kind = "rule"
    <3>1. /\ OneSection(dlg)
          /\ RuleSec(dlg.work[1], dlg.form[1], dlg.shown[1], EscOf(dlg.left, Rule!Menus, 1))
      BY <2>1, <2>4 DEF Dialog, RuleDlg
    <3>2. Widgets(1) = Rule!Widgets
      BY <2>4 DEF Widgets
    <3> QED BY <2>2, <2>4, <3>1, <3>2 DEF OneSection, RuleSec
  <2>5. CASE kind = "neigh"
    <3>1. /\ OneSection(dlg)
          /\ NeighSec(dlg.work[1], dlg.form[1], dlg.shown[1], EscOf(dlg.left, Neigh!Menus, 1))
      BY <2>1, <2>5 DEF Dialog, NeighDlg
    <3>2. Widgets(1) = Neigh!Widgets
      BY <2>5 DEF Widgets
    <3> QED BY <2>2, <2>5, <3>1, <3>2 DEF OneSection, NeighSec, Drawn
  <2> QED BY <1>1, <2>3, <2>4, <2>5 DEF Kinds
<1> QED BY <1>1, <1>2, <1>3 DEF TypeOK, Drawn

-----------------------------------------------------------------------------
(***************************************************************************)
(* The theorems.                                                           *)
(***************************************************************************)

\* The invariant, and with it what every closed dialog leaves.
THEOREM Inductive == Spec => []Safe
<1>1. Safe /\ [Next]_vars => Safe'
  <2> SUFFICES ASSUME Safe, [Next]_vars PROVE Safe'
    OBVIOUS
  <2>1. CASE Edit \/ Create
    BY <2>1, OpenSafe DEF Safe
  <2>2. CASE Ok
    BY <2>2, OkSafe DEF Safe
  <2>3. CASE Cancel
    BY <2>3, CancelSafe DEF Safe
  <2>4. ASSUME dlg # None, NEW s \in DOMAIN dlg.form, Used(s)
        PROVE  Safe'
    BY <2>4, UseSafe
  <2>5. CASE UNCHANGED vars
    <3>1. UNCHANGED << last, kind, marked >> /\ UNCHANGED << kernel, new_nh, dlg, count >>
      BY <2>5 DEF vars
    <3>2. Reports'
      BY <3>1, StillReported DEF Safe
    <3>3. EncapAsShown'
      BY <3>1 DEF Safe, IInv, EncapAsShown
    <3>4. IInv'
      BY <3>1, <3>3 DEF Safe, IInv
    <3> QED BY <3>2, <3>4 DEF Safe
  <2> QED BY <2>1, <2>2, <2>3, <2>4, <2>5 DEF Next, Used
<1> QED BY <1>1, InitSafe, PTL DEF Spec

\* The dialogs have the widgets of their kind, with values a widget can have, and
\* one of the radio buttons of a neighbour at most.
THEOREM TypeCorrect == Spec => []TypeOK
<1>1. IInv => TypeOK
  BY InvTyped
<1> QED BY <1>1, Inductive, PTL DEF Safe

\* What OK makes is what the dialog showed, of the record and of each of its next
\* hops, but for the attributes named in Surprises.
THEOREM OkMakesWhatIsShown == Spec => []MadeAsShown
BY Inductive, PTL DEF Safe, Reports

\* A next hop object, an encapsulation that was not opened and a rule's action,
\* which the dialog does not show, outlive the edit.
THEOREM EditKeepsHidden == Spec => []HiddenKept
BY Inductive, PTL DEF Safe, Reports

\* A route has the next hops that were checked, in this dialog or an earlier one.
THEOREM MadeWithCheckedHops == Spec => []HopsAsMarked
BY Inductive, PTL DEF Safe, Reports

\* No command without a change.
THEOREM NoChangeNoCommand == Spec => []IdleRunsNothing
BY Inductive, PTL DEF Safe, Reports

\* A create command nobody could run, which costs an edit its record, comes of a
\* missing encapsulation, family or way out of a route, of an emptied goto or of
\* l3mdev with a table, or of a neighbour without an address or a device.
THEOREM LostForReason == Spec => []RefusedForReason
BY Inductive, PTL DEF Safe, Reports

\* A command says of an encapsulation what its dialog showed.
THEOREM EncapsulationAsShown == Spec => []EncapAsShown
BY Inductive, PTL DEF Safe, IInv

=============================================================================
