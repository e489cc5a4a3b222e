------------------------- MODULE InterfaceEdit_proofs -------------------------
(***************************************************************************)
(* Proofs about InterfaceEdit for every value of its constants: any number *)
(* of addresses, prefixes, cells and dialogs.                              *)
(***************************************************************************)
EXTENDS InterfaceEdit, TLAPS

Kernels == [link : Link, addrs : SUBSET Address]
Copies  == [link : Link, ip : [Addr -> Entry \cup {Blank}]]
Forms   == [link : Link, rows : [Rows -> Cell]]
Texts   == [Addr -> SUBSET (Addr \cup {Blank})]
Cells   == {NameCell, MacCell, UpCell, PromiscCell} \cup UNION { CellsOf(r) : r \in Rows }

\* TypeOK, with what the records are made of.
Typed ==
  /\ pc \in {"panel", "dialog", "commands"}
  /\ kernel \in Kernels /\ start \in Kernels
  /\ net_if \in Copies /\ fdc \in Copies /\ dlg \in Forms
  /\ text \in Texts /\ todo \subseteq Cells
  /\ change \in BOOLEAN /\ refused \in BOOLEAN /\ adrift \in BOOLEAN
  /\ dialogs \in 0 .. MaxDialogs

\* The rows of IPv6 addresses have no cell for a broadcast address.
NoSixBroadcast == \A r \in Rows : IsSix(r) => dlg.rows[r].bc = Shown(fdc, r).bc

\* The copy is a reading of the kernel until a command has succeeded.
Follows == ~ adrift /\ ~ (pc = "commands" /\ change) => Reads(net_if, kernel)

-----------------------------------------------------------------------------
(***************************************************************************)
(* The operators.                                                          *)
(***************************************************************************)

LEMMA RowFacts == Addr \subseteq Rows /\ Rows \subseteq Nat /\ Add4 \in Rows /\ Add6 \in Rows
BY EditAssumption DEF Addr, Rows, Add4, Add6

LEMMA RereadType == \A a \in Rows, b \in Bits : Reread(a, b) \subseteq Bits
BY DEF Reread, Bits

\* What a command makes of the kernel.
LEMMA KernelTypes ==
  ASSUME NEW k \in Kernels
  PROVE  /\ Down(k) \in Kernels /\ Up(k) \in Kernels
         /\ \A nm \in Names : [k EXCEPT !.link.name = nm] \in Kernels
         /\ \A b \in BOOLEAN : [k EXCEPT !.link.mac = b] \in Kernels
         /\ \A b \in BOOLEAN : [k EXCEPT !.link.promisc = b] \in Kernels
         /\ \A r : Del(k, r) \in Kernels
         /\ \A r \in Address : Add(k, r) \in Kernels
<1> USE DEF Kernels, Link
<1>1. Down(k) \in Kernels /\ Up(k) \in Kernels
  BY Zenon DEF Down, Up
<1>2. /\ \A nm \in Names : [k EXCEPT !.link.name = nm] \in Kernels
      /\ \A b \in BOOLEAN : [k EXCEPT !.link.mac = b] \in Kernels
      /\ \A b \in BOOLEAN : [k EXCEPT !.link.promisc = b] \in Kernels
  OBVIOUS
<1>3. \A r : Del(k, r) \in Kernels
  BY DEF Del
<1>4. \A r \in Address : Add(k, r) \in Kernels
  BY DEF Add
<1> QED BY <1>1, <1>2, <1>3, <1>4

LEMMA CopyTypes ==
  ASSUME NEW n \in Copies
  PROVE  /\ \A nm \in Names : [n EXCEPT !.link.name = nm] \in Copies
         /\ \A a, e : a \in Addr /\ e \in Entry \cup {Blank} => [n EXCEPT !.ip[a] = e] \in Copies
         /\ \A a, b, e : a \in Addr /\ b \in Addr /\ e \in Entry =>
              [n EXCEPT !.ip[a] = Blank, !.ip[b] = e] \in Copies
BY Zenon DEF Copies, Link

\* A row of the dialog asks for an address, or for nothing.
LEMMA NewType ==
  ASSUME Typed, NEW r \in Rows
  PROVE  /\ New(r).ip = dlg.rows[r].ip
         /\ dlg.rows[r].ip # Blank => New(r) \in Address
         /\ New(r).bits \in Bits /\ New(r).bc \in Broadcast
<1>1. dlg.rows[r] \in Cell
  BY DEF Typed, Forms
<1>2. MaskIn(r, dlg.rows[r]) \in Bits
  BY <1>1 DEF MaskIn, Cell, Bits
<1>3. BroadcastIn(r, dlg.rows[r]) \in Broadcast
  BY <1>1 DEF BroadcastIn, Cell, Broadcast
<1> QED BY <1>1, <1>2, <1>3 DEF New, Address, Cell

LEMMA ShownType ==
  ASSUME NEW n \in Copies, NEW r \in Rows
  PROVE  Shown(n, r) \in Cell
BY DEF Shown, Copies, Cell, Entry, Broadcast

LEMMA ReadsType == ASSUME Typed, Update PROVE net_if' \in Copies
<1> DEFINE entries == UNION { { [bits |-> b, bc |-> r.bc] : b \in Reread(r.ip, r.bits) \cup {r.bits} } :
                              r \in kernel.addrs }
<1>1. entries \subseteq Entry
  <2>1. ASSUME NEW r \in kernel.addrs, NEW b \in Reread(r.ip, r.bits) \cup {r.bits}
        PROVE  [bits |-> b, bc |-> r.bc] \in Entry
    <3>1. r \in Address
      BY DEF Typed, Kernels
    <3>2. r.bits \in Bits /\ r.bc \in Broadcast /\ r.ip \in Rows
      BY <3>1, RowFacts DEF Address
    <3>3. b \in Bits
      BY <3>2, RereadType
    <3> QED BY <3>2, <3>3 DEF Entry
  <2> QED BY <2>1
<1>2. PICK ip \in [Addr -> entries \cup {Blank}] : net_if' = [link |-> kernel.link, ip |-> ip]
  BY DEF Update
<1>3. ip \in [Addr -> Entry \cup {Blank}]
  <2> HIDE DEF entries
  <2> QED BY <1>1, <1>2
<1> QED BY <1>2, <1>3 DEF Copies, Typed, Kernels

-----------------------------------------------------------------------------
(***************************************************************************)
(* The commands.  Each takes the kernel a part of its path, and the copy   *)
(* changes only when it went all of it; Outcome says so of any of them.    *)
(***************************************************************************)

\* What a command that ends on the path ks of the kernel does at most.
Outcome(ks) ==
  /\ pc' = pc /\ fdc' = fdc /\ dlg' = dlg /\ start' = start /\ dialogs' = dialogs
  /\ refused' \in BOOLEAN
  /\ kernel' \in {kernel} \cup ks
  /\ \/ /\ net_if' = net_if /\ text' = text /\ change' = change
        /\ adrift' = adrift /\ kernel' = kernel
     \/ /\ net_if' = net_if /\ text' = text /\ change' = change /\ adrift' = TRUE
     \/ change' = TRUE /\ adrift' = adrift

LEMMA RootExecOutcome ==
  ASSUME Typed, NEW path, NEW good \in Nat, NEW ACTION Whole, RootExec(path, good, Whole),
         Len(path) \in Nat \ {0}, good <= Len(path)
  PROVE  /\ Outcome({ path[n] : n \in 1 .. good })
         /\ UNCHANGED << net_if, text >> \/ (good = Len(path) /\ Whole)
<1> DEFINE most  == IF net_if.link.name = kernel.link.name THEN good ELSE 0
           whole == Len(path)
<1>1. PICK n \in 0 .. most :
        /\ kernel' = IF n = 0 THEN kernel ELSE path[n]
        /\ refused' = (refused \/ n < most)
        /\ adrift' = (adrift \/ n \in 1 .. whole - 1)
        /\ change' = Returned(n = whole)
        /\ IF n = whole THEN Whole ELSE UNCHANGED << net_if, text >>
        /\ UNCHANGED << pc, form, start, dialogs >>
  BY DEF RootExec
<1>2. n \in 0 .. whole /\ n \in 0 .. good /\ whole \in Nat \ {0}
  BY <1>1
<1> HIDE DEF most, whole
<1>3. /\ pc' = pc /\ fdc' = fdc /\ dlg' = dlg /\ start' = start /\ dialogs' = dialogs
      /\ refused' \in BOOLEAN
  BY <1>1 DEF form, Typed
<1>4. kernel' \in {kernel} \cup { path[m] : m \in 1 .. good }
  BY <1>1, <1>2
<1>5. CASE n = 0
  <2>1. ~ (n \in 1 .. whole - 1) /\ n # whole
    BY <1>2, <1>5
  <2>2. net_if' = net_if /\ text' = text /\ kernel' = kernel
    BY <1>1, <1>5, <2>1
  <2>3. change' = change /\ adrift' = adrift
    BY <1>1, <2>1 DEF Returned, Typed
  <2> QED BY <1>3, <1>4, <2>2, <2>3 DEF Outcome
<1>6. CASE n \in 1 .. whole - 1
  <2>1. n # whole
    BY <1>2, <1>6
  <2>2. net_if' = net_if /\ text' = text
    BY <1>1, <2>1
  <2>3. change' = change /\ adrift' = TRUE
    BY <1>1, <1>6, <2>1 DEF Returned, Typed
  <2> QED BY <1>3, <1>4, <2>2, <2>3 DEF Outcome
<1>7. CASE n = whole
  <2>1. ~ (n \in 1 .. whole - 1)
    BY <1>2, <1>7
  <2>2. change' = TRUE /\ adrift' = adrift
    BY <1>1, <1>7, <2>1 DEF Returned, Typed
  <2>3. good = whole /\ Whole
    BY <1>1, <1>2, <1>7 DEF whole
  <2> QED BY <1>3, <1>4, <2>2, <2>3 DEF Outcome, whole
<1> QED BY <1>2, <1>5, <1>6, <1>7

LEMMA CommandStep ==
  ASSUME Typed, NEW ks \in SUBSET Kernels, Outcome(ks),
         net_if' \in Copies, text' \in Texts, todo' \subseteq Cells
  PROVE  Typed'
BY DEF Typed, Outcome

Executed ==
  /\ \E ks \in SUBSET Kernels : Outcome(ks)
  /\ net_if' \in Copies /\ text' \in Texts

LEMMA SkipExecuted == ASSUME Typed, Skip PROVE Executed
<1>1. Outcome({})
  BY DEF Skip, form, history, Outcome, Typed
<1> QED BY <1>1 DEF Executed, Skip, Typed

\* The commands of the link go down, change it and come up again.
LEMMA ThreeCalls ==
  ASSUME Typed, NEW a \in Kernels, NEW b \in Kernels, NEW c \in Kernels, NEW ACTION Whole,
         RootExec(<< a, b, c >>, 3, Whole), Whole => net_if' \in Copies /\ text' = text
  PROVE  Executed
<1> DEFINE ks == { << a, b, c >>[n] : n \in 1 .. 3 }
<1>1. Outcome(ks) /\ (UNCHANGED << net_if, text >> \/ Whole)
  BY RootExecOutcome, SMTT(30)
<1>2. ks \subseteq Kernels
  BY SMTT(30)
<1> HIDE DEF ks
<1> QED BY <1>1, <1>2 DEF Executed, Typed

LEMMA OneCall ==
  ASSUME Typed, NEW a \in Kernels, NEW good \in {0, 1}, NEW ACTION Whole,
         RootExec(<< a >>, good, Whole), Whole => net_if' \in Copies /\ text' \in Texts
  PROVE  Executed
<1> DEFINE ks == { << a >>[n] : n \in 1 .. good }
<1>1. Outcome(ks) /\ (UNCHANGED << net_if, text >> \/ Whole)
  BY RootExecOutcome
<1>2. ks \subseteq Kernels
  BY SMTT(30)
<1> HIDE DEF ks
<1> QED BY <1>1, <1>2 DEF Executed, Typed

LEMMA TwoCalls ==
  ASSUME Typed, NEW a \in Kernels, NEW b \in Kernels, NEW good \in {0, 1, 2}, NEW ACTION Whole,
         RootExec(<< a, b >>, good, Whole), Whole => net_if' \in Copies /\ text' \in Texts
  PROVE  Executed
<1> DEFINE ks == { << a, b >>[n] : n \in 1 .. good }
<1>1. Outcome(ks) /\ (UNCHANGED << net_if, text >> \/ Whole)
  BY RootExecOutcome, SMTT(30)
<1>2. ks \subseteq Kernels
  BY SMTT(30)
<1> HIDE DEF ks
<1> QED BY <1>1, <1>2 DEF Executed, Typed

LEMMA LinkExecuted ==
  ASSUME Typed, SetInterfaceName \/ SetMac \/ SetUp \/ SetPromisc
  PROVE  Executed
<1> DEFINE down  == Down(kernel)
           named == [down EXCEPT !.link.name = dlg.link.name]
           set   == [down EXCEPT !.link.mac = dlg.link.mac]
<1>0. kernel \in Kernels /\ net_if \in Copies /\ dlg.link \in Link
  BY DEF Typed, Forms
<1>1. down \in Kernels
  BY <1>0, KernelTypes
<1>2. named \in Kernels /\ set \in Kernels
  <2> HIDE DEF down
  <2> QED BY <1>0, <1>1, KernelTypes DEF Link
<1>3. Up(named) \in Kernels /\ Up(set) \in Kernels
  <2> HIDE DEF named, set
  <2> QED BY <1>2, KernelTypes
<1>4. CASE SetInterfaceName
  <2>1. RootExec(<< down, named, Up(named) >>, 3, net_if' = Renamed /\ UNCHANGED text)
    BY <1>4 DEF SetInterfaceName
  <2>2. Renamed \in Copies
    BY <1>0, CopyTypes, Zenon DEF Renamed, Link
  <2> HIDE DEF down, named
  <2> QED BY <1>1, <1>2, <1>3, <2>1, <2>2, ThreeCalls
<1>5. CASE SetMac
  <2>1. RootExec(<< down, set, Up(set) >>, 3, Keep)
    BY <1>5 DEF SetMac
  <2>2. Keep => net_if' \in Copies /\ text' = text
    BY <1>0 DEF Keep
  <2> HIDE DEF down, set
  <2> QED BY <1>1, <1>2, <1>3, <2>1, <2>2, ThreeCalls
<1>6. Keep => net_if' \in Copies /\ text' \in Texts
  BY <1>0 DEF Keep, Typed
<1>7. CASE SetUp
  <2> DEFINE k == IF dlg.link.up THEN Up(kernel) ELSE Down(kernel)
  <2>1. RootExec(<< k >>, 1, Keep)
    BY <1>7 DEF SetUp
  <2>2. k \in Kernels
    BY <1>0, KernelTypes
  <2> HIDE DEF k
  <2> QED BY <1>6, <2>1, <2>2, OneCall
<1>8. CASE SetPromisc
  <2> DEFINE k == [kernel EXCEPT !.link.promisc = dlg.link.promisc]
  <2>1. RootExec(<< k >>, 1, Keep)
    BY <1>8 DEF SetPromisc
  <2>2. k \in Kernels
    BY <1>0, KernelTypes DEF Link
  <2> HIDE DEF k
  <2> QED BY <1>6, <2>1, <2>2, OneCall
<1> QED BY <1>4, <1>5, <1>7, <1>8

LEMMA OldTextType ==
  ASSUME Typed, NEW r \in Addr, NEW a \in OldText(r)
  PROVE  a \in Addr \cup {Blank}
BY DEF OldText, Typed, Texts

LEMMA FreedType ==
  ASSUME Typed, NEW a, NEW stored \in SUBSET (Addr \cup {Blank})
  PROVE  Freed(a, stored) \in Texts
BY DEF Freed, Typed, Texts

LEMMA DeleteIpExecuted ==
  ASSUME Typed, NEW a \in Addr \cup {Blank}, DeleteIp(a)
  PROVE  Executed
<1>1. CASE ~ Known(a)
  BY <1>1, SkipExecuted DEF DeleteIp
<1>2. CASE Known(a)
  <2> DEFINE old  == [ip |-> a, bits |-> net_if.ip[a].bits]
             good == IF CanDel(kernel, old) THEN 1 ELSE 0
  <2>1. RootExec(<< Del(kernel, old) >>, good,
                 net_if' = [net_if EXCEPT !.ip[a] = Blank] /\ text' = Freed(a, {}))
    BY <1>2 DEF DeleteIp
  <2>2. Del(kernel, old) \in Kernels /\ good \in {0, 1}
    BY KernelTypes DEF Typed
  <2>3. a \in Addr
    BY <1>2 DEF Known
  <2>4. [net_if EXCEPT !.ip[a] = Blank] \in Copies /\ Freed(a, {}) \in Texts
    BY <2>3, CopyTypes, FreedType, Zenon DEF Typed
  <2> HIDE DEF old, good
  <2> QED BY <2>1, <2>2, <2>4, OneCall
<1> QED BY <1>1, <1>2

\* A command that is not accepted whole changes no more than the kernel.
LEMMA Refused ==
  ASSUME Typed, NEW path, NEW good \in Nat, NEW ACTION Whole, RootExec(path, good, Whole),
         Len(path) \in Nat \ {0}, good < Len(path), \A n \in 1 .. good : path[n] \in Kernels
  PROVE  Executed
<1> DEFINE ks == { path[n] : n \in 1 .. good }
<1>1. Outcome(ks) /\ (UNCHANGED << net_if, text >> \/ (good = Len(path) /\ Whole))
  BY RootExecOutcome
<1>2. ks \subseteq Kernels
  BY SMTT(30)
<1> HIDE DEF ks
<1> QED BY <1>1, <1>2 DEF Executed, Typed

LEMMA AddIpExecuted ==
  ASSUME Typed, NEW r \in Rows, AddIp(New(r))
  PROVE  Executed
<1> DEFINE new == New(r)
<1>1. CASE Known(new.ip)
  BY <1>1, SkipExecuted DEF AddIp
<1>2. CASE ~ Known(new.ip)
  <2> DEFINE good  == IF CanAdd(kernel, new) THEN 1 ELSE 0
             added == [net_if EXCEPT !.ip[new.ip] = [bits |-> new.bits, bc |-> Blank]]
  <2>1. RootExec(<< Add(kernel, new) >>, good, net_if' = added /\ UNCHANGED text)
    BY <1>2 DEF AddIp
  <2>2. CASE new.ip # Blank
    <3>1. new \in Address
      BY <2>2, NewType
    <3>2. Add(kernel, new) \in Kernels /\ good \in {0, 1}
      BY <3>1, KernelTypes DEF Typed
    <3>3. [bits |-> new.bits, bc |-> Blank] \in Entry
      BY NewType DEF Entry, Broadcast
    <3>4. added \in Copies
      BY <3>1, <3>3, CopyTypes, Zenon DEF Typed, Address
    <3> HIDE DEF good, added, new
    <3> QED BY <2>1, <3>2, <3>4, OneCall DEF Typed
  <2>3. CASE new.ip = Blank
    <3>1. good = 0
      BY <2>3 DEF CanAdd
    <3> HIDE DEF added, new
    <3> QED BY <2>1, <3>1, Refused
  <2> QED BY <2>2, <2>3
<1> QED BY <1>1, <1>2

LEMMA ChangeIpExecuted ==
  ASSUME Typed, NEW r \in Rows, NEW a \in Addr \cup {Blank}, ChangeIp(a, New(r))
  PROVE  Executed
<1> DEFINE new     == New(r)
           old     == [ip |-> a, bits |-> net_if.ip[a].bits]
           without == Del(kernel, old)
           good    == IF ~ CanDel(kernel, old) THEN 0 ELSE IF CanAdd(without, new) THEN 2 ELSE 1
           whole   == /\ \E entry \in Rewritten(a, new) :
                           net_if' = [net_if EXCEPT !.ip[a] = Blank, !.ip[new.ip] = entry]
                      /\ text' = Freed(a, {new.ip})
<1>1. \/ Skip
      \/ Known(a) /\ RootExec(<< without, Add(without, new) >>, good, whole)
  BY Zenon DEF ChangeIp
<1>2. CASE Skip
  BY <1>2, SkipExecuted
<1>3. CASE Known(a) /\ RootExec(<< without, Add(without, new) >>, good, whole)
  <2>1. a \in Addr /\ without \in Kernels
    BY <1>3, KernelTypes, Zenon DEF Known, Typed
  <2>2. CASE new.ip # Blank
    <3>1. new \in Address
      BY <2>2, NewType
    <3>2. Add(without, new) \in Kernels
      <4> HIDE DEF without, new
      <4> QED BY <2>1, <3>1, KernelTypes
    <3>3. good \in {0, 1, 2}
      OBVIOUS
    <3>4. ASSUME whole PROVE net_if' \in Copies /\ text' \in Texts
      <4>1. PICK entry \in Rewritten(a, new) :
              net_if' = [net_if EXCEPT !.ip[a] = Blank, !.ip[new.ip] = entry]
        BY <3>4, Zenon
      <4>2. new.ip \in Addr /\ new.bits \in Bits
        <5> HIDE DEF new
        <5> QED BY <3>1 DEF Address
      <4>3. entry \in Entry
        <5>1. Reread(new.ip, new.bits) \subseteq Bits
          BY <4>2, RowFacts, RereadType
        <5> HIDE DEF new
        <5> QED BY <5>1 DEF Rewritten, Entry, Broadcast
      <4>4. [net_if EXCEPT !.ip[a] = Blank, !.ip[new.ip] = entry] \in Copies
        <5> HIDE DEF new
        <5> QED BY <2>1, <4>2, <4>3, CopyTypes, Zenon DEF Typed
      <4>5. text' \in Texts
        BY <3>4, <4>2, FreedType
      <4> QED BY <4>1, <4>4, <4>5
    <3> HIDE DEF new, without, good, whole
    <3> QED BY <1>3, <2>1, <3>2, <3>3, <3>4, TwoCalls
  <2>3. CASE new.ip = Blank
    <3>1. good \in {0, 1}
      BY <2>3 DEF CanAdd
    <3> HIDE DEF new, without, good, whole
    <3>2. \A n \in 1 .. good : << without, Add(without, new) >>[n] \in Kernels
      BY <2>1, <3>1
    <3>3. Len(<< without, Add(without, new) >>) = 2
      OBVIOUS
    <3> QED BY <1>3, <3>1, <3>2, <3>3, Refused, SMTT(30)
  <2> QED BY <2>2, <2>3
<1> QED BY <1>1, <1>2, <1>3, Zenon

-----------------------------------------------------------------------------
(***************************************************************************)
(* The steps.                                                              *)
(***************************************************************************)

Command ==
  \/ SetInterfaceName \/ SetMac \/ SetUp \/ SetPromisc
  \/ DeleteRow \/ AddRow \/ ChangeRow

LEMMA CommandExecuted == ASSUME Typed, Command PROVE Executed
<1>1. CASE SetInterfaceName \/ SetMac \/ SetUp \/ SetPromisc
  BY <1>1, LinkExecuted
<1>2. CASE DeleteRow
  <2>1. PICK r \in Addr : \E a \in OldText(r) : DeleteIp(a)
    BY <1>2 DEF DeleteRow
  <2> QED BY <2>1, OldTextType, DeleteIpExecuted
<1>3. CASE AddRow
  <2>1. PICK r \in {Add4, Add6} : AddIp(New(r))
    BY <1>3 DEF AddRow
  <2> QED BY <2>1, RowFacts, AddIpExecuted
<1>4. CASE ChangeRow
  <2>1. PICK r \in Addr : \E a \in OldText(r) : ChangeIp(a, New(r))
    BY <1>4 DEF ChangeRow
  <2> QED BY <2>1, RowFacts, OldTextType, ChangeIpExecuted
<1> QED BY <1>1, <1>2, <1>3, <1>4 DEF Command

\* Each takes its cell from the list while the list is run.
LEMMA CommandTodo == Command => pc = "commands" /\ todo' \subseteq todo
BY DEF Command, SetInterfaceName, SetMac, SetUp, SetPromisc, DeleteRow, AddRow, ChangeRow,
       Cell1st

LEMMA ListType == ASSUME NoSixBroadcast PROVE ChangeList \subseteq Cells
<1>1. ASSUME NEW r \in Rows
      PROVE  << r, 1 >> \in Cells /\ << r, 2 >> \in Cells /\ (~ IsSix(r) => << r, 3 >> \in Cells)
  <2>1. << r, 1 >> \in CellsOf(r) /\ << r, 2 >> \in CellsOf(r)
        /\ (~ IsSix(r) => << r, 3 >> \in CellsOf(r))
    BY DEF CellsOf
  <2> QED BY <2>1 DEF Cells
<1>2. ASSUME NEW r \in Rows
      PROVE  /\ { i \in {<< r, 1 >>} : dlg.rows[r].ip # Shown(fdc, r).ip } \subseteq Cells
             /\ { i \in {<< r, 2 >>} : dlg.rows[r].mask # Shown(fdc, r).mask } \subseteq Cells
             /\ { i \in {<< r, 3 >>} : dlg.rows[r].bc # Shown(fdc, r).bc } \subseteq Cells
  BY <1>1 DEF NoSixBroadcast
<1>3. {NameCell, MacCell, UpCell, PromiscCell} \subseteq Cells
  BY DEF Cells
<1> QED BY <1>2, <1>3 DEF ChangeList

LEMMA NoSixStep == ASSUME Typed, NoSixBroadcast, [Next]_vars PROVE NoSixBroadcast'
<1> USE DEF NoSixBroadcast
<1>1. CASE OpenDialog
  BY <1>1 DEF OpenDialog, Shown
<1>2. ASSUME NEW dialog, Type(dialog), \A r \in Rows : IsSix(r) => dialog.rows[r].bc = dlg.rows[r].bc
      PROVE  NoSixBroadcast'
  BY <1>2 DEF Type, Shown
<1>3. CASE TypeLink
  <2>1. /\ \A nm : [dlg EXCEPT !.link.name = nm].rows = dlg.rows
        /\ [dlg EXCEPT !.link.mac = ~ @].rows = dlg.rows
        /\ [dlg EXCEPT !.link.up = ~ @].rows = dlg.rows
        /\ [dlg EXCEPT !.link.promisc = ~ @].rows = dlg.rows
    BY DEF Typed, Forms
  <2> QED BY <1>2, <1>3, <2>1 DEF TypeLink
<1>4. CASE TypeRow
  <2>1. ASSUME NEW r \in Rows, NEW s \in Rows
        PROVE  /\ \A a : [dlg EXCEPT !.rows[r].ip = a].rows[s].bc = dlg.rows[s].bc
               /\ \A m : [dlg EXCEPT !.rows[r].mask = m].rows[s].bc = dlg.rows[s].bc
               /\ \A b : s # r => [dlg EXCEPT !.rows[r].bc = b].rows[s].bc = dlg.rows[s].bc
    BY DEF Typed, Forms, Cell
  <2>2. PICK r \in Rows :
          \/ \E a \in OfFamily(r) \cup {Blank} : Type([dlg EXCEPT !.rows[r].ip = a])
          \/ \E m \in Prefixes \cup {Blank} : Type([dlg EXCEPT !.rows[r].mask = m])
          \/ \E b \in Broadcast : ~ IsSix(r) /\ Type([dlg EXCEPT !.rows[r].bc = b])
    BY <1>4 DEF TypeRow
  <2>3. ASSUME fdc' = fdc, \A s \in Rows : IsSix(s) => dlg'.rows[s].bc = dlg.rows[s].bc
        PROVE  NoSixBroadcast'
    BY <2>3 DEF Shown
  <2>4. ASSUME NEW a, Type([dlg EXCEPT !.rows[r].ip = a]) PROVE NoSixBroadcast'
    <3>1. fdc' = fdc /\ dlg' = [dlg EXCEPT !.rows[r].ip = a]
      BY <2>4 DEF Type
    <3> QED BY <2>1, <2>3, <3>1
  <2>5. ASSUME NEW m, Type([dlg EXCEPT !.rows[r].mask = m]) PROVE NoSixBroadcast'
    <3>1. fdc' = fdc /\ dlg' = [dlg EXCEPT !.rows[r].mask = m]
      BY <2>5 DEF Type
    <3> QED BY <2>1, <2>3, <3>1
  <2>6. ASSUME NEW b, ~ IsSix(r), Type([dlg EXCEPT !.rows[r].bc = b]) PROVE NoSixBroadcast'
    <3>1. fdc' = fdc /\ dlg' = [dlg EXCEPT !.rows[r].bc = b]
      BY <2>6 DEF Type
    <3>2. \A s \in Rows : IsSix(s) => s # r
      BY <2>6
    <3> QED BY <2>1, <2>3, <3>1, <3>2
  <2> QED BY <2>2, <2>4, <2>5, <2>6
<1>5. CASE PressOk \/ Cancel \/ Return
  BY <1>5 DEF PressOk, Cancel, Return, form, Shown
<1>6. CASE Command
  <2>1. fdc' = fdc /\ dlg' = dlg
    BY <1>6, CommandExecuted DEF Executed, Outcome
  <2> QED BY <2>1 DEF Shown
<1>7. CASE UNCHANGED vars
  BY <1>7 DEF vars, form, Shown
<1> QED BY <1>1, <1>3, <1>4, <1>5, <1>6, <1>7 DEF Next, Command

LEMMA TypeStep == ASSUME Typed, NoSixBroadcast, [Next]_vars PROVE Typed'
<1> USE DEF Typed
<1>1. CASE OpenDialog
  <2>1. [r \in Rows |-> Shown(net_if, r)] \in [Rows -> Cell]
    BY ShownType
  <2>2. dlg' \in Forms
    BY <1>1, <2>1 DEF OpenDialog, Forms, Copies
  <2>3. dialogs' \in 0 .. MaxDialogs
    BY <1>1, EditAssumption DEF OpenDialog
  <2>4. text' \in Texts
    BY <1>1 DEF OpenDialog, Texts
  <2> QED BY <1>1, <2>2, <2>3, <2>4 DEF OpenDialog
<1>2. ASSUME NEW dialog \in Forms, Type(dialog) PROVE Typed'
  BY <1>2 DEF Type, history
<1>3. CASE TypeLink
  <2>1. /\ \A nm \in Names : [dlg EXCEPT !.link.name = nm] \in Forms
        /\ [dlg EXCEPT !.link.mac = ~ @] \in Forms
        /\ [dlg EXCEPT !.link.up = ~ @] \in Forms
        /\ [dlg EXCEPT !.link.promisc = ~ @] \in Forms
    BY DEF Forms, Link
  <2> QED BY <1>2, <1>3, <2>1 DEF TypeLink
<1>4. CASE TypeRow
  <2>1. ASSUME NEW r \in Rows
        PROVE  /\ \A a \in OfFamily(r) \cup {Blank} : [dlg EXCEPT !.rows[r].ip = a] \in Forms
               /\ \A m \in Prefixes \cup {Blank} : [dlg EXCEPT !.rows[r].mask = m] \in Forms
               /\ \A b \in Broadcast : [dlg EXCEPT !.rows[r].bc = b] \in Forms
    BY DEF Forms, Cell, OfFamily, Bits
  <2> QED BY <1>2, <1>4, <2>1 DEF TypeRow
<1>5. CASE PressOk
  BY <1>5, ListType DEF PressOk, form, history
<1>6. CASE Cancel
  BY <1>6 DEF Cancel, form, history
<1>7. CASE Command
  <2>1. Executed
    BY <1>7, CommandExecuted
  <2>2. todo' \subseteq Cells
    BY <1>7, CommandTodo
  <2> QED BY <2>1, <2>2, CommandStep DEF Executed
<1>8. CASE Return
  <2>1. net_if' \in Copies
    BY <1>8, ReadsType DEF Return
  <2> QED BY <1>8, <2>1 DEF Return, form
<1>9. CASE UNCHANGED vars
  BY <1>9 DEF vars, form, history
<1> QED BY <1>1, <1>3, <1>4, <1>5, <1>6, <1>7, <1>8, <1>9 DEF Next, Command

LEMMA FollowsStep == ASSUME Typed, Follows, [Next]_vars PROVE Follows'
<1> USE DEF Follows
<1>1. CASE OpenDialog
  BY <1>1 DEF OpenDialog
<1>2. CASE TypeLink \/ TypeRow
  BY <1>2 DEF TypeLink, TypeRow, Type, history
<1>3. CASE PressOk \/ Cancel
  BY <1>3 DEF PressOk, Cancel, history
<1>4. CASE Command
  <2>1. PICK ks : Outcome(ks)
    BY <1>4, CommandExecuted DEF Executed
  <2>2. pc = "commands"
    BY <1>4, CommandTodo
  <2> QED BY <2>1, <2>2 DEF Outcome
<1>5. CASE Return
  BY <1>5 DEF Return, Update
<1>6. CASE UNCHANGED vars
  BY <1>6 DEF vars, history
<1> QED BY <1>1, <1>2, <1>3, <1>4, <1>5, <1>6 DEF Next, Command

LEMMA Start == ASSUME Init PROVE Typed /\ NoSixBroadcast /\ Follows
<1>1. kernel \in Kernels /\ start \in Kernels /\ net_if \in Copies /\ fdc \in Copies
  BY InitialAssumption DEF Init, Kernels, Copies
<1>2. [r \in Rows |-> Shown(net_if, r)] \in [Rows -> Cell]
  BY <1>1, ShownType
<1>3. dlg \in Forms
  BY <1>1, <1>2 DEF Init, Forms, Copies
<1>4. dialogs \in 0 .. MaxDialogs
  BY EditAssumption DEF Init
<1>5. adrift \in BOOLEAN /\ Follows
  BY DEF Init, Follows
<1>6. NoSixBroadcast
  BY DEF Init, NoSixBroadcast
<1>7. text \in Texts
  BY DEF Init, Texts
<1> QED BY <1>1, <1>3, <1>4, <1>5, <1>6, <1>7 DEF Init, Typed

LEMMA FollowsAlways == Spec => [](Typed /\ NoSixBroadcast /\ Follows)
<1>1. Typed /\ NoSixBroadcast /\ Follows /\ [Next]_vars
        => (Typed /\ NoSixBroadcast /\ Follows)'
  BY TypeStep, NoSixStep, FollowsStep
<1> QED BY <1>1, Start, PTL DEF Spec

-----------------------------------------------------------------------------
\* The dialog and the commands keep their types, also where a row's first text has
\* been freed and where a command names no address.
THEOREM EditTypeCorrect == Spec => []TypeOK
<1>1. Typed => TypeOK
  BY DEF Typed, TypeOK, Kernels, Copies, Forms, Texts, Cells
<1> QED BY <1>1, FollowsAlways, PTL

\* EditInterface reports every change it makes to the interface, so that the panel
\* is read again, but for that of a command that stopped half way.
THEOREM PanelAlwaysFollows == Spec => []PanelFollows
<1>1. Follows => PanelFollows
  BY DEF Follows, PanelFollows
<1> QED BY <1>1, FollowsAlways, PTL

-----------------------------------------------------------------------------
(***************************************************************************)
(* The addresses the user leaves alone.  A command deletes an address of a *)
(* row of the change list, or one that is read where that row's own has    *)
(* been freed.  The second is harmless as long as the copy shows it with   *)
(* another prefix than the kernel has, or not at all.                      *)
(***************************************************************************)

Spared(addrs, ip, t, x) ==
  /\ x \in addrs
  /\ \A r \in Addr \ {x.ip} : x.ip \in t[r] => ip[x.ip] = Blank \/ ip[x.ip].bits # x.bits

LeftAlone == { x \in start.addrs : ~ (x.ip \in Edited \/ IsSix(x.ip) \/ Mistaken(x)) }

\* What the commands of a dialog start from, and do not lose.
Opened ==
  /\ pc = "dialog" => kernel = start /\ net_if = fdc /\ text = [r \in Addr |-> {r}]
  /\ pc = "commands" => todo \subseteq ChangeList

AllSpared == pc = "commands" => \A x \in LeftAlone : Spared(kernel.addrs, net_if.ip, text, x)

LEMMA CellRow ==
  ASSUME NEW r \in Rows, NEW i \in CellsOf(r), i \in ChangeList
  PROVE  r \in Edited
BY DEF Edited

\* The commands of the link leave the IPv4 addresses alone.
LEMMA LinkKeeps ==
  ASSUME Typed, SetInterfaceName \/ SetMac \/ SetUp \/ SetPromisc
  PROVE  /\ net_if'.ip = net_if.ip /\ text' = text
         /\ \A x \in kernel.addrs : ~ IsSix(x.ip) => x \in kernel'.addrs
<1> DEFINE Kept(k) == \A x \in kernel.addrs : ~ IsSix(x.ip) => x \in k.addrs
<1>0. kernel \in Kernels /\ net_if \in Copies
  BY DEF Typed
<1>1. Kept(kernel) /\ Kept(Down(kernel)) /\ Kept(Up(kernel))
  BY <1>0 DEF Down, Up, Kernels
<1>2. CASE SetInterfaceName
  <2> DEFINE named == [Down(kernel) EXCEPT !.link.name = dlg.link.name]
  <2>1. Kept(named) /\ Kept(Up(named))
    BY <1>0 DEF Down, Up, Kernels
  <2>2. PICK n \in 0 .. 3 :
          /\ kernel' = IF n = 0 THEN kernel ELSE << Down(kernel), named, Up(named) >>[n]
          /\ IF n = 3 THEN net_if' = Renamed /\ UNCHANGED text ELSE UNCHANGED << net_if, text >>
    BY <1>2 DEF SetInterfaceName, RootExec
  <2>3. kernel' \in {kernel, Down(kernel), named, Up(named)}
    BY <2>2
  <2>4. net_if'.ip = net_if.ip /\ text' = text
    BY <1>0, <2>2 DEF Renamed, Copies
  <2> HIDE DEF named, Kept
  <2>5. Kept(kernel')
    BY <1>1, <2>1, <2>3
  <2> QED BY <2>4, <2>5 DEF Kept
<1>3. CASE SetMac
  <2> DEFINE set == [Down(kernel) EXCEPT !.link.mac = dlg.link.mac]
  <2>1. Kept(set) /\ Kept(Up(set))
    BY <1>0 DEF Down, Up, Kernels
  <2>2. PICK n \in 0 .. 3 :
          /\ kernel' = IF n = 0 THEN kernel ELSE << Down(kernel), set, Up(set) >>[n]
          /\ IF n = 3 THEN Keep ELSE UNCHANGED << net_if, text >>
    BY <1>3 DEF SetMac, RootExec
  <2>3. kernel' \in {kernel, Down(kernel), set, Up(set)}
    BY <2>2
  <2>4. net_if' = net_if /\ text' = text
    BY <2>2 DEF Keep
  <2> HIDE DEF set, Kept
  <2>5. Kept(kernel')
    BY <1>1, <2>1, <2>3
  <2> QED BY <2>4, <2>5 DEF Kept
<1>4. CASE SetUp
  <2> DEFINE k == IF dlg.link.up THEN Up(kernel) ELSE Down(kernel)
  <2>1. PICK n \in 0 .. 1 :
          /\ kernel' = IF n = 0 THEN kernel ELSE << k >>[n]
          /\ IF n = 1 THEN Keep ELSE UNCHANGED << net_if, text >>
    BY <1>4 DEF SetUp, RootExec
  <2>2. kernel' \in {kernel, Down(kernel), Up(kernel)} /\ net_if' = net_if /\ text' = text
    BY <2>1 DEF Keep
  <2> HIDE DEF Kept
  <2>3. Kept(kernel')
    BY <1>1, <2>2
  <2> QED BY <2>2, <2>3 DEF Kept
<1>5. CASE SetPromisc
  <2> DEFINE k == [kernel EXCEPT !.link.promisc = dlg.link.promisc]
  <2>1. PICK n \in 0 .. 1 :
          /\ kernel' = IF n = 0 THEN kernel ELSE << k >>[n]
          /\ IF n = 1 THEN Keep ELSE UNCHANGED << net_if, text >>
    BY <1>5 DEF SetPromisc, RootExec
  <2>2. Kept(k)
    BY <1>0 DEF Kernels
  <2>3. kernel' \in {kernel, k} /\ net_if' = net_if /\ text' = text
    BY <2>1 DEF Keep
  <2> HIDE DEF Kept, k
  <2>4. Kept(kernel')
    BY <1>1, <2>2, <2>3
  <2> QED BY <2>3, <2>4 DEF Kept
<1> QED BY <1>2, <1>3, <1>4, <1>5

LEMMA Deletes ==
  ASSUME NEW k \in Kernels, NEW old, NEW x \in k.addrs, << x.ip, x.bits >> # << old.ip, old.bits >>
  PROVE  x \in Del(k, old).addrs
BY DEF Del, Kernels

LEMMA Adds == ASSUME NEW k \in Kernels, NEW r PROVE Add(k, r).addrs = k.addrs \cup {r}
BY DEF Add, Kernels

\* An address of a row that the user has left alone is not that of the row r.
LEMMA DeleteSpares ==
  ASSUME Typed, NEW r \in Addr, NEW a \in OldText(r), DeleteIp(a),
         NEW x \in kernel.addrs, x.ip # r, Spared(kernel.addrs, net_if.ip, text, x)
  PROVE  Spared(kernel.addrs, net_if.ip, text, x)'
<1> DEFINE old == [ip |-> a, bits |-> net_if.ip[a].bits]
<1>0. kernel \in Kernels /\ net_if \in Copies /\ x.ip \in Addr
  BY DEF Typed, Kernels, Address
<1>1. CASE ~ Known(a)
  BY <1>1 DEF DeleteIp, Skip
<1>2. CASE Known(a)
  <2>1. PICK n \in 0 .. 1 :
          /\ kernel' = IF n = 0 THEN kernel ELSE << Del(kernel, old) >>[n]
          /\ IF n = 1 THEN net_if' = [net_if EXCEPT !.ip[a] = Blank] /\ text' = Freed(a, {})
                      ELSE UNCHANGED << net_if, text >>
    BY <1>2 DEF DeleteIp, RootExec
  <2>2. x \in Del(kernel, old).addrs
    <3>1. << x.ip, x.bits >> # << old.ip, old.bits >>
      BY <1>0, <1>2 DEF Known, OldText, Spared
    <3> HIDE DEF old
    <3> QED BY <1>0, <3>1, Deletes
  <2>3. x \in kernel'.addrs
    <3>1. kernel' \in {kernel, Del(kernel, old)}
      BY <2>1
    <3> QED BY <2>2, <3>1
  <2>4. \A s \in Addr : x.ip \in Freed(a, {})[s] => x.ip \in text[s]
    BY <1>0, RowFacts, BlankAssumption DEF Freed
  <2>5. x.ip # a => net_if'.ip[x.ip] = net_if.ip[x.ip]
    BY <1>0, <2>1 DEF Copies
  <2>6. n = 1 => net_if'.ip[a] = Blank
    BY <1>0, <1>2, <2>1, OldTextType DEF Copies, Known
  <2> QED BY <2>1, <2>3, <2>4, <2>5, <2>6 DEF Spared
<1> QED BY <1>1, <1>2

LEMMA AddSpares ==
  ASSUME Typed, NEW r \in Rows, AddIp(New(r)),
         NEW x \in kernel.addrs, Spared(kernel.addrs, net_if.ip, text, x)
  PROVE  Spared(kernel.addrs, net_if.ip, text, x)'
<1> DEFINE new == New(r)
<1>0. kernel \in Kernels /\ net_if \in Copies /\ x.ip \in Addr
  BY DEF Typed, Kernels, Address
<1>1. CASE Known(new.ip)
  BY <1>1 DEF AddIp, Skip
<1>2. CASE ~ Known(new.ip)
  <2> DEFINE added == [bits |-> new.bits, bc |-> Blank]
  <2>1. PICK n \in 0 .. IF CanAdd(kernel, new) THEN 1 ELSE 0 :
          /\ kernel' = IF n = 0 THEN kernel ELSE << Add(kernel, new) >>[n]
          /\ IF n = 1 THEN net_if' = [net_if EXCEPT !.ip[new.ip] = added] /\ UNCHANGED text
                      ELSE UNCHANGED << net_if, text >>
    BY <1>2, EditAssumption DEF AddIp, RootExec
  <2>2. x \in kernel'.addrs
    <3>1. kernel' \in {kernel, Add(kernel, new)}
      BY <2>1
    <3> QED BY <1>0, <3>1, Adds
  <2>3. text' = text
    BY <2>1
  <2>4. CASE n = 1 /\ new.ip = x.ip
    <3>1. CanAdd(kernel, new)
      BY <2>1, <2>4
    <3>2. new.bits # x.bits
      BY <2>4, <3>1 DEF CanAdd
    <3>3. net_if'.ip[x.ip] = added
      BY <1>0, <2>1, <2>4 DEF Copies
    <3> QED BY <2>2, <3>2, <3>3 DEF Spared
  <2>5. CASE ~ (n = 1 /\ new.ip = x.ip)
    <3>1. net_if'.ip[x.ip] = net_if.ip[x.ip]
      BY <1>0, <2>1, <2>5 DEF Copies
    <3> QED BY <2>2, <2>3, <3>1 DEF Spared
  <2> QED BY <2>4, <2>5
<1> QED BY <1>1, <1>2

LEMMA ChangeSpares ==
  ASSUME Typed, NEW r \in Addr, r \in Edited, NEW a \in OldText(r), ChangeIp(a, New(r)),
         NEW x \in kernel.addrs, x.ip # r, ~ IsSix(x.ip), ~ Mistaken(x),
         Spared(kernel.addrs, net_if.ip, text, x)
  PROVE  Spared(kernel.addrs, net_if.ip, text, x)'
<1> DEFINE new     == New(r)
           old     == [ip |-> a, bits |-> net_if.ip[a].bits]
           without == Del(kernel, old)
           good    == IF ~ CanDel(kernel, old) THEN 0 ELSE IF CanAdd(without, new) THEN 2 ELSE 1
           changed(entry) == [net_if EXCEPT !.ip[a] = Blank, !.ip[new.ip] = entry]
           whole   == /\ \E entry \in Rewritten(a, new) : net_if' = changed(entry)
                      /\ text' = Freed(a, {new.ip})
<1>0. kernel \in Kernels /\ net_if \in Copies /\ x.ip \in Addr
  BY DEF Typed, Kernels, Address
<1>1. CASE Skip
  BY <1>1 DEF Skip
<1>2. CASE ~ Skip
  <2>0. Known(a)
    BY <1>2, Zenon DEF ChangeIp
  <2>1. PICK n \in 0 .. good :
          /\ kernel' = IF n = 0 THEN kernel ELSE << without, Add(without, new) >>[n]
          /\ IF n = 2 THEN whole ELSE UNCHANGED << net_if, text >>
    <3>1. RootExec(<< without, Add(without, new) >>, good, whole)
      BY <1>2, Zenon DEF ChangeIp
    <3>2. good \in {0, 1, 2}
      OBVIOUS
    <3> HIDE DEF good, whole, without, new
    <3> QED BY <3>1, <3>2 DEF RootExec
  <2>6. good \in {0, 1, 2} /\ (good = 2 => CanAdd(without, new))
    OBVIOUS
  <2> HIDE DEF good
  <2>2. x \in without.addrs /\ without \in Kernels
    <3>1. << x.ip, x.bits >> # << old.ip, old.bits >>
      BY <1>0, <2>0 DEF Known, OldText, Spared
    <3> HIDE DEF old
    <3> QED BY <1>0, <3>1, Deletes, KernelTypes
  <2>3. x \in kernel'.addrs
    <3> HIDE DEF without, new, whole
    <3>1. kernel' \in {kernel, without, Add(without, new)}
      BY <2>1, <2>6
    <3> QED BY <1>0, <2>2, <3>1, Adds
  <2>4. CASE n # 2
    BY <2>1, <2>3, <2>4 DEF Spared
  <2>5. CASE n = 2
    <3>1. CanAdd(without, new) /\ new.ip # Blank
      <4> HIDE DEF without, new, whole
      <4>1. CanAdd(without, new)
        BY <2>5, <2>6
      <4> QED BY <4>1 DEF CanAdd
    <3>2. PICK entry \in Rewritten(a, new) : net_if' = changed(entry)
      BY <2>1, <2>5, Zenon
    <3>3. a \in Addr /\ new.ip \in Addr
      <4>1. new.ip \in Addr
        BY <3>1, NewType, RowFacts DEF Address
      <4> QED BY <2>0, <4>1, OldTextType DEF Known
    <3>4. net_if' = changed(entry) /\ text' = Freed(a, {new.ip})
      BY <2>1, <2>5, <3>2, Zenon
    <3>5. CASE new.ip = x.ip
      <4>1. new.bits # x.bits
        BY <2>2, <3>1, <3>5 DEF CanAdd
      <4>2. entry.bits \in Reread(x.ip, new.bits)
        BY <3>2, <3>5 DEF Rewritten
      <4>3. entry.bits # x.bits
        BY <4>1, <4>2, <3>5, NewType, RowFacts DEF Mistaken
      <4>4. net_if'.ip[x.ip] = entry
        BY <1>0, <3>4, <3>5 DEF Copies
      <4> QED BY <2>3, <4>3, <4>4 DEF Spared
    <3>6. CASE new.ip # x.ip
      <4>1. \A s \in Addr : x.ip \in Freed(a, {new.ip})[s] => x.ip \in text[s]
        BY <1>0, <3>6, RowFacts, BlankAssumption DEF Freed
      <4>2. net_if'.ip[x.ip] = Blank \/ net_if'.ip[x.ip] = net_if.ip[x.ip]
        BY <1>0, <3>3, <3>4, <3>6 DEF Copies
      <4> QED BY <2>3, <3>4, <4>1, <4>2 DEF Spared
    <3> QED BY <3>5, <3>6
  <2> QED BY <2>4, <2>5
<1> QED BY <1>1, <1>2

LEMMA OpenedStep == ASSUME Typed, Opened, [Next]_vars PROVE Opened'
<1> USE DEF Opened
<1>1. CASE OpenDialog
  BY <1>1 DEF OpenDialog
<1>2. CASE TypeLink \/ TypeRow
  BY <1>2 DEF TypeLink, TypeRow, Type, history
<1>3. CASE PressOk
  <2>1. ChangeList' = ChangeList
    BY <1>3 DEF PressOk, form, ChangeList, Shown
  <2> QED BY <1>3, <2>1 DEF PressOk
<1>4. CASE Command
  <2>1. PICK ks : Outcome(ks)
    BY <1>4, CommandExecuted DEF Executed
  <2>2. ChangeList' = ChangeList
    BY <2>1 DEF Outcome, ChangeList, Shown
  <2>3. pc' = "commands"
    BY <1>4, <2>1, CommandTodo DEF Outcome
  <2> QED BY <1>4, <2>2, <2>3, CommandTodo
<1>5. CASE Cancel \/ Return
  BY <1>5 DEF Cancel, Return
<1>6. CASE UNCHANGED vars
  <2>1. ChangeList' = ChangeList
    BY <1>6 DEF vars, form, ChangeList, Shown
  <2> QED BY <1>6, <2>1 DEF vars, form, history
<1> QED BY <1>1, <1>2, <1>3, <1>4, <1>5, <1>6 DEF Next, Command

\* The dialog does not change while the commands are run.
LEMMA CommandForm ==
  ASSUME Typed, Command
  PROVE  /\ pc = "commands" /\ pc' = "commands" /\ fdc' = fdc /\ dlg' = dlg /\ start' = start
         /\ ChangeList' = ChangeList /\ Edited' = Edited /\ LeftAlone' = LeftAlone
<1>1. /\ pc = "commands" /\ pc' = "commands" /\ fdc' = fdc /\ dlg' = dlg /\ start' = start
  BY CommandExecuted, CommandTodo DEF Executed, Outcome
<1>2. ChangeList' = ChangeList
  BY <1>1 DEF ChangeList, Shown
<1>3. Edited' = Edited
  BY <1>2 DEF Edited
<1>4. \A x : Mistaken(x)' = Mistaken(x)
  BY <1>1, <1>3 DEF Mistaken, New
<1>5. LeftAlone' = LeftAlone
  BY <1>1, <1>3, <1>4 DEF LeftAlone
<1> QED BY <1>1, <1>2, <1>3, <1>5

LEMMA SparedStep == ASSUME Typed, Opened, AllSpared, [Next]_vars PROVE AllSpared'
<1>1. CASE Command
  <2>1. SUFFICES ASSUME NEW x \in LeftAlone PROVE Spared(kernel.addrs, net_if.ip, text, x)'
    BY <1>1, CommandForm DEF AllSpared
  <2>2. /\ x \in kernel.addrs /\ x.ip \notin Edited /\ ~ IsSix(x.ip) /\ ~ Mistaken(x)
        /\ Spared(kernel.addrs, net_if.ip, text, x) /\ todo \subseteq ChangeList
    BY <1>1, CommandForm DEF AllSpared, Spared, LeftAlone, Opened
  <2>3. CASE SetInterfaceName \/ SetMac \/ SetUp \/ SetPromisc
    BY <2>2, <2>3, LinkKeeps DEF Spared
  <2>4. CASE DeleteRow
    <3>1. PICK r \in Addr : << r, 1 >> \in todo /\ \E a \in OldText(r) : DeleteIp(a)
      BY <2>4 DEF DeleteRow, Cell1st
    <3>2. r \in Edited
      BY <2>2, <3>1, CellRow, RowFacts DEF CellsOf
    <3> QED BY <2>2, <3>1, <3>2, DeleteSpares
  <2>5. CASE AddRow
    <3>1. PICK r \in {Add4, Add6} : AddIp(New(r))
      BY <2>5 DEF AddRow
    <3> QED BY <2>2, <3>1, RowFacts, AddSpares
  <2>6. CASE ChangeRow
    <3>1. PICK r \in Addr : \E i \in CellsOf(r) : i \in todo /\ \E a \in OldText(r) : ChangeIp(a, New(r))
      BY <2>6 DEF ChangeRow, Cell1st
    <3>2. r \in Edited
      BY <2>2, <3>1, CellRow, RowFacts
    <3> QED BY <2>2, <3>1, <3>2, ChangeSpares
  <2> QED BY <1>1, <2>3, <2>4, <2>5, <2>6 DEF Command
<1>2. CASE PressOk
  <2>1. /\ pc = "dialog" /\ kernel' = kernel /\ net_if' = net_if /\ fdc' = fdc /\ dlg' = dlg
        /\ start' = start /\ text' = text
    BY <1>2 DEF PressOk, form, history
  <2>2. \A x \in start'.addrs : Spared(kernel.addrs, net_if.ip, text, x)'
    BY <2>1 DEF Opened, Spared
  <2> QED BY <2>2 DEF AllSpared, LeftAlone
<1>3. CASE OpenDialog \/ TypeLink \/ TypeRow \/ Cancel \/ Return
  BY <1>3 DEF OpenDialog, TypeLink, TypeRow, Type, Cancel, Return, AllSpared
<1>4. CASE UNCHANGED vars
  <2>1. Edited' = Edited
    BY <1>4 DEF vars, form, Edited, ChangeList, Shown
  <2>2. \A x : Mistaken(x)' = Mistaken(x)
    BY <1>4, <2>1 DEF vars, form, Mistaken, New
  <2> QED BY <1>4, <2>1, <2>2 DEF vars, history, AllSpared, LeftAlone
<1> QED BY <1>1, <1>2, <1>3, <1>4 DEF Next, Command

LEMMA SparedAlways == Spec => [](Typed /\ NoSixBroadcast /\ Opened /\ AllSpared)
<1>1. Init => Opened /\ AllSpared
  BY DEF Init, Opened, AllSpared
<1>2. Typed /\ NoSixBroadcast /\ Opened /\ AllSpared /\ [Next]_vars
        => (Typed /\ NoSixBroadcast /\ Opened /\ AllSpared)'
  BY TypeStep, NoSixStep, OpenedStep, SparedStep
<1> QED BY <1>1, <1>2, Start, PTL DEF Spec

\* An IPv4 address whose row the user has left alone outlives the commands of
\* EditInterface, whichever of them fail, also where a row's first text has been freed
\* and names another address: unless another row asks for the address with a prefix
\* that is its own once it has been written as a mask.
THEOREM RowsLeftAloneSurvive == Spec => []UntouchedSurvive
<1>1. AllSpared => UntouchedSurvive
  BY DEF AllSpared, UntouchedSurvive, Done, LeftAlone, Spared
<1> QED BY <1>1, SparedAlways, PTL
=============================================================================
