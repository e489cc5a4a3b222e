---------------------- MODULE InterfaceEdit_effect_proofs ----------------------
(***************************************************************************)
(* What the commands of EditInterface come to when none is refused and the *)
(* dialog is Within the limits that CopyFollows and EditTakesEffect state. *)
(*                                                                         *)
(* Every row has its own addresses, the one it showed and the one it asks  *)
(* for: they are as the dialog found them until the first cell of the row  *)
(* is run, and what the row asks for afterwards.  No other command reaches *)
(* them, for the text a later cell of the row reads names one of the two,  *)
(* or is blank.                                                            *)
(***************************************************************************)
EXTENDS InterfaceEdit_proofs

EntriesAt(k, a) == { x \in k.addrs : x.ip = a }

\* The address that row r asks for.
Asked(r) == dlg.rows[r].ip

Within == Fits(fdc, start) /\ Plain /\ Independent /\ ~ refused

\* The dialog has no row for an address it does not show, and a row asks for an
\* address of its own family.
RowsShown ==
  /\ \A r \in Addr : fdc.ip[r] = Blank => dlg.rows[r] = Shown(fdc, r)
  /\ \A r \in Rows : Asked(r) \in OfFamily(r) \cup {Blank}

\* Address a is as the dialog found it; gone; there as row r asks for it.
Untouched(a) == EntriesAt(kernel, a) = EntriesAt(start, a) /\ net_if.ip[a] = fdc.ip[a]
Gone(a)      == EntriesAt(kernel, a) = {} /\ net_if.ip[a] = Blank
Placed(r, a) == /\ EntriesAt(kernel, a) = {New(r)}
                /\ net_if.ip[a] = [bits |-> New(r).bits, bc |-> Blank]

AllToRun(r) == CellsOf(r) \cap ChangeList \subseteq todo

\* Row r asks for what the copy shows already: its commands are left out.
Same(r) == Asked(r) = r /\ fdc.ip[r] = [bits |-> New(r).bits, bc |-> New(r).bc]

Waiting(r) ==
  /\ AllToRun(r) \/ Same(r)
  /\ text[r] = {r} /\ Untouched(r)
  /\ Asked(r) \notin {r, Blank} => Untouched(Asked(r))

Carried(r) ==
  /\ Asked(r) # r => Gone(r)
  /\ Asked(r) # Blank => Placed(r, Asked(r))

ToAdd(r) == AllToRun(r) /\ Untouched(Asked(r))

\* What is read of the first text of a row with cells to run.  Once the text has been
\* freed the cells of the rows before are through.
TextFollows(r) ==
  CellsOf(r) \cap todo # {} =>
    \/ text[r] = {r}
    \/ text[r] \subseteq {r, Blank, Asked(r)} /\ \A j \in todo : j[1] >= r

\* The rows that add an address which keeps its place.
Adders == {Add4} \cup { r \in {Add6} : Lasting = Addr }

RowFollows(r) ==
  /\ r \in Addr => TextFollows(r)
  /\ r \in Lasting => Waiting(r) \/ Carried(r)
  /\ r \in Adders /\ Asked(r) # Blank => ToAdd(r) \/ Placed(r, Asked(r))

RowsFollow ==
  /\ \A r \in Edited : RowFollows(r)
  /\ \A a \in Lasting \ Edited : (\A r \in Edited : Asked(r) # a) => Untouched(a)

\* The link has what the cells that are through ask for.
LinkFollows ==
  /\ net_if.link.name = kernel.link.name
  /\ kernel.link.name = IF NameCell \in todo THEN start.link.name ELSE dlg.link.name
  /\ kernel.link.mac = IF MacCell \in todo THEN start.link.mac ELSE dlg.link.mac
  /\ kernel.link.promisc = IF PromiscCell \in todo THEN start.link.promisc ELSE dlg.link.promisc
  /\ \/ UpCell \in todo
     \/ UpCell \in ChangeList /\ kernel.link.up = dlg.link.up /\ {NameCell, MacCell} \cap todo = {}
     \/ UpCell \notin ChangeList /\ (kernel.link.up = start.link.up \/ (Bounce /\ kernel.link.up))

AllFollow == pc = "commands" /\ Within => RowsFollow /\ LinkFollows

-----------------------------------------------------------------------------
(***************************************************************************)
(* The dialog.                                                             *)
(***************************************************************************)

LEMMA CellFacts ==
  ASSUME NEW r \in Rows, NEW i \in CellsOf(r)
  PROVE  i[1] = r /\ i \notin {NameCell, MacCell, UpCell, PromiscCell}
BY RowFacts, EditAssumption DEF CellsOf, NameCell, MacCell, UpCell, PromiscCell, Rows, Add6, Add4

\* The link's cells of the change list.
LEMMA LinkCells ==
  /\ NameCell \in ChangeList <=> dlg.link.name # fdc.link.name
  /\ MacCell \in ChangeList <=> dlg.link.mac # fdc.link.mac
  /\ UpCell \in ChangeList <=> dlg.link.up # fdc.link.up
  /\ PromiscCell \in ChangeList <=> dlg.link.promisc # fdc.link.promisc
<1>1. \A r \in Rows : \A k : << r, k >> \notin {NameCell, MacCell, UpCell, PromiscCell}
  BY DEF NameCell, MacCell, UpCell, PromiscCell, Rows
<1>2. /\ NameCell # MacCell /\ NameCell # UpCell /\ NameCell # PromiscCell
      /\ MacCell # UpCell /\ MacCell # PromiscCell /\ UpCell # PromiscCell
  BY DEF NameCell, MacCell, UpCell, PromiscCell
<1> QED BY <1>1, <1>2 DEF ChangeList

\* A row with a cell in the change list is not as it was shown.
LEMMA EditedRow == ASSUME NEW r \in Edited PROVE r \in Rows /\ dlg.rows[r] # Shown(fdc, r)
<1>1. PICK i \in CellsOf(r) : i \in ChangeList
  BY DEF Edited
<1>2. r \in Rows
  BY DEF Edited
<1>3. i \notin {NameCell, MacCell, UpCell, PromiscCell} /\ i[1] = r
  BY <1>1, <1>2, CellFacts
<1>4. PICK s \in Rows :
        \/ i = << s, 1 >> /\ dlg.rows[s].ip # Shown(fdc, s).ip
        \/ i = << s, 2 >> /\ dlg.rows[s].mask # Shown(fdc, s).mask
        \/ i = << s, 3 >> /\ dlg.rows[s].bc # Shown(fdc, s).bc
  BY <1>1, <1>3 DEF ChangeList
<1>5. s = r
  BY <1>3, <1>4
<1> QED BY <1>2, <1>4, <1>5

LEMMA RowsShownStep == ASSUME Typed, RowsShown, [Next]_vars PROVE RowsShown'
<1> USE DEF RowsShown, Asked
<1>1. CASE OpenDialog
  <2>1. \A r \in Rows : Shown(net_if, r).ip \in OfFamily(r) \cup {Blank}
    BY DEF Shown, OfFamily
  <2>2. fdc' = net_if /\ dlg'.rows = [r \in Rows |-> Shown(net_if, r)]
    BY <1>1 DEF OpenDialog
  <2>3. \A r : Shown(fdc', r) = Shown(net_if, r)
    BY <2>2
  <2> QED BY <2>1, <2>2, <2>3, RowFacts
<1>2. CASE TypeLink
  <2>1. dlg'.rows = dlg.rows /\ fdc' = fdc
    BY <1>2 DEF TypeLink, Type, Typed, Forms
  <2> QED BY <2>1 DEF Shown
<1>3. CASE TypeRow
  <2>1. PICK r \in Rows :
          /\ r \in Addr => fdc.ip[r] # Blank
          /\ \/ \E a \in OfFamily(r) \cup {Blank} : Type([dlg EXCEPT !.rows[r].ip = a])
             \/ \E m \in Prefixes \cup {Blank} : Type([dlg EXCEPT !.rows[r].mask = m])
             \/ \E b \in Broadcast : ~ IsSix(r) /\ Type([dlg EXCEPT !.rows[r].bc = b])
    BY <1>3 DEF TypeRow
  <2>2. fdc' = fdc
    BY <2>1 DEF Type
  <2>3. \A s \in Rows : s # r => dlg'.rows[s] = dlg.rows[s]
    BY <2>1 DEF Type, Typed, Forms
  <2>4. dlg'.rows[r].ip \in OfFamily(r) \cup {Blank}
    <3>1. ASSUME NEW a \in OfFamily(r) \cup {Blank}, dlg' = [dlg EXCEPT !.rows[r].ip = a]
          PROVE  dlg'.rows[r].ip \in OfFamily(r) \cup {Blank}
      BY <3>1 DEF Typed, Forms, Cell
    <3>2. ASSUME NEW m, dlg' = [dlg EXCEPT !.rows[r].mask = m]
          PROVE  dlg'.rows[r].ip \in OfFamily(r) \cup {Blank}
      <4>1. dlg'.rows[r].ip = dlg.rows[r].ip
        BY <3>2 DEF Typed, Forms, Cell
      <4> QED BY <4>1
    <3>3. ASSUME NEW b, dlg' = [dlg EXCEPT !.rows[r].bc = b]
          PROVE  dlg'.rows[r].ip \in OfFamily(r) \cup {Blank}
      <4>1. dlg'.rows[r].ip = dlg.rows[r].ip
        BY <3>3 DEF Typed, Forms, Cell
      <4> QED BY <4>1
    <3> QED BY <2>1, <3>1, <3>2, <3>3 DEF Type
  <2>5. \A s : Shown(fdc', s) = Shown(fdc, s)
    BY <2>2
  <2> QED BY <2>1, <2>2, <2>3, <2>4, <2>5, RowFacts
<1>4. CASE PressOk \/ Cancel \/ Return
  BY <1>4 DEF PressOk, Cancel, Return, form, Shown
<1>5. CASE Command
  BY <1>5, CommandForm DEF Shown
<1>6. CASE UNCHANGED vars
  BY <1>6 DEF vars, form, Shown
<1> QED BY <1>1, <1>2, <1>3, <1>4, <1>5, <1>6 DEF Next, Command

LEMMA RowsShownStart == ASSUME Init PROVE RowsShown
<1>1. \A r \in Rows : dlg.rows[r] = Shown(fdc, r)
  BY DEF Init
<1>2. \A r \in Rows : Shown(fdc, r).ip \in OfFamily(r) \cup {Blank}
  BY DEF Shown, OfFamily
<1> QED BY <1>1, <1>2, RowFacts DEF RowsShown, Asked

\* Within the limits the copy shows what was there.
LEMMA ShownThere ==
  ASSUME Typed, Within, NEW a \in Addr
  PROVE  /\ fdc.ip[a] = Blank <=> EntriesAt(start, a) = {}
         /\ \A x \in EntriesAt(start, a) : x.bits = fdc.ip[a].bits
<1>1. IF fdc.ip[a] = Blank THEN EntriesAt(start, a) = {}
      ELSE { x.bits : x \in EntriesAt(start, a) } = {fdc.ip[a].bits}
  BY DEF Within, Fits, FitIn, EntriesAt
<1>2. CASE fdc.ip[a] = Blank
  BY <1>1, <1>2
<1>3. CASE fdc.ip[a] # Blank
  <2>1. { x.bits : x \in EntriesAt(start, a) } = {fdc.ip[a].bits}
    BY <1>1, <1>3
  <2> QED BY <1>3, <2>1
<1> QED BY <1>2, <1>3

\* A row that asks for another address asks for one that was not there, and that
\* has no row.
LEMMA AskedNew ==
  ASSUME Typed, RowsShown, Within, NEW r \in Edited, Asked(r) \notin {r, Blank}
  PROVE  /\ Asked(r) \in Addr /\ Asked(r) \notin Edited
         /\ EntriesAt(start, Asked(r)) = {} /\ fdc.ip[Asked(r)] = Blank
<1>1. Asked(r) \in Addr
  BY EditedRow DEF RowsShown, OfFamily
<1>2. EntriesAt(start, Asked(r)) = {}
  BY DEF Within, Independent, Asked, EntriesAt
<1>3. fdc.ip[Asked(r)] = Blank
  BY <1>1, <1>2, ShownThere
<1> QED BY <1>1, <1>2, <1>3, EditedRow DEF RowsShown

\* No two rows have an address in common.
LEMMA RowsApart ==
  ASSUME Typed, RowsShown, Within, NEW r \in Edited, NEW s \in Edited, r # s
  PROVE  r # Asked(s) /\ s # Asked(r) /\ (Asked(r) # Blank => Asked(r) # Asked(s))
<1>1. r # Blank /\ s # Blank
  BY EditedRow, RowFacts, BlankAssumption
<1>2. r # Asked(s) /\ s # Asked(r)
  BY <1>1, AskedNew
<1> QED BY <1>2 DEF Within, Independent, Asked

LEMMA FamilyApart ==
  ASSUME Typed, RowsShown, NEW r \in Rows, Asked(r) # Blank
  PROVE  /\ Asked(r) \in Addr /\ IsSix(Asked(r)) = IsSix(r)
         /\ r \in Lasting => Asked(r) \in Lasting
         /\ r \in Adders => Asked(r) \in Lasting
         /\ Asked(r) \in Lasting => r \in Lasting \cup Adders
<1>1. Asked(r) \in Addr /\ IsSix(Asked(r)) = IsSix(r)
  BY DEF RowsShown, OfFamily
<1>2. ~ IsSix(Add4) /\ IsSix(Add6)
  BY EditAssumption DEF IsSix, Add4, Add6
<1>3. r \in Addr \/ r = Add4 \/ r = Add6
  BY DEF Addr
<1> QED BY <1>1, <1>2, <1>3 DEF Lasting, Adders

-----------------------------------------------------------------------------
(***************************************************************************)
(* What a command does to the addresses it does not name.                  *)
(***************************************************************************)

\* The command changes no address but those of `as`, and frees no other text.
Local(as) ==
  /\ \A b \in Addr \ as : EntriesAt(kernel', b) = EntriesAt(kernel, b) /\ net_if'.ip[b] = net_if.ip[b]
  /\ \A q \in Addr \ as : Blank \notin text[q] => text'[q] = text[q]
  /\ \A q \in Addr : text'[q] \subseteq text[q] \cup as \cup {Blank}
  /\ kernel'.link = kernel.link /\ net_if'.link = net_if.link

LEMMA DelEntries ==
  ASSUME NEW k \in Kernels, NEW old
  PROVE  /\ Del(k, old).link = k.link
         /\ \A b : b # old.ip => EntriesAt(Del(k, old), b) = EntriesAt(k, b)
         /\ (\A x \in EntriesAt(k, old.ip) : x.bits = old.bits) => EntriesAt(Del(k, old), old.ip) = {}
<1>1. Del(k, old).addrs = { x \in k.addrs : << x.ip, x.bits >> # << old.ip, old.bits >> }
      /\ Del(k, old).link = k.link
  BY DEF Del, Kernels
<1> QED BY <1>1 DEF EntriesAt

LEMMA AddEntries ==
  ASSUME NEW k \in Kernels, NEW new
  PROVE  /\ Add(k, new).link = k.link
         /\ \A b : b # new.ip => EntriesAt(Add(k, new), b) = EntriesAt(k, b)
         /\ EntriesAt(k, new.ip) = {} => EntriesAt(Add(k, new), new.ip) = {new}
<1>1. Add(k, new).addrs = k.addrs \cup {new} /\ Add(k, new).link = k.link
  BY DEF Add, Kernels
<1> QED BY <1>1 DEF EntriesAt

LEMMA SkipLocal == ASSUME Skip, NEW as PROVE Local(as)
BY DEF Skip, Local

\* What DeleteIp does, unless it is left out.
LEMMA DeleteLocal ==
  ASSUME Typed, NEW a \in Addr \cup {Blank}, DeleteIp(a)
  PROVE  Local({a})
<1> DEFINE old == [ip |-> a, bits |-> net_if.ip[a].bits]
<1>0. kernel \in Kernels /\ net_if \in Copies
  BY DEF Typed
<1>1. CASE Known(a)
  <2>1. PICK n \in 0 .. 1 :
          /\ kernel' = IF n = 0 THEN kernel ELSE << Del(kernel, old) >>[n]
          /\ IF n = 1 THEN net_if' = [net_if EXCEPT !.ip[a] = Blank] /\ text' = Freed(a, {})
                      ELSE UNCHANGED << net_if, text >>
    BY <1>1 DEF DeleteIp, RootExec
  <2>2. kernel' \in {kernel, Del(kernel, old)}
    BY <2>1
  <2>3. \A b \in Addr \ {a} : EntriesAt(kernel', b) = EntriesAt(kernel, b)
    BY <1>0, <2>2, DelEntries
  <2>4. kernel'.link = kernel.link
    BY <1>0, <2>2, DelEntries
  <2>5. net_if'.link = net_if.link /\ \A b \in Addr \ {a} : net_if'.ip[b] = net_if.ip[b]
    BY <1>0, <2>1 DEF Copies
  <2>6. /\ \A q \in Addr \ {a} : Blank \notin text[q] => text'[q] = text[q]
        /\ \A q \in Addr : text'[q] \subseteq text[q] \cup {a} \cup {Blank}
    BY <2>1 DEF Freed
  <2> QED BY <2>3, <2>4, <2>5, <2>6 DEF Local
<1>2. CASE ~ Known(a)
  BY <1>2, SkipLocal DEF DeleteIp
<1> QED BY <1>1, <1>2

LEMMA AddLocal ==
  ASSUME Typed, NEW r \in Rows, AddIp(New(r))
  PROVE  Local({Asked(r)}) /\ text' = text
<1> DEFINE new == New(r)
           added == [bits |-> new.bits, bc |-> Blank]
<1>0. kernel \in Kernels /\ net_if \in Copies /\ new.ip = Asked(r)
  BY DEF Typed, New, Asked
<1>1. CASE ~ Known(new.ip)
  <2>1. PICK n \in 0 .. 1 :
          /\ kernel' = IF n = 0 THEN kernel ELSE << Add(kernel, new) >>[n]
          /\ IF n = 1 THEN net_if' = [net_if EXCEPT !.ip[new.ip] = added] /\ UNCHANGED text
                      ELSE UNCHANGED << net_if, text >>
    BY <1>1 DEF AddIp, RootExec
  <2> HIDE DEF new
  <2>2. kernel' \in {kernel, Add(kernel, new)} /\ text' = text
    BY <2>1
  <2>3. \A b \in Addr \ {Asked(r)} : EntriesAt(kernel', b) = EntriesAt(kernel, b)
    BY <1>0, <2>2, AddEntries
  <2>4. kernel'.link = kernel.link
    BY <1>0, <2>2, AddEntries
  <2>5. net_if'.link = net_if.link /\ \A b \in Addr \ {Asked(r)} : net_if'.ip[b] = net_if.ip[b]
    BY <1>0, <2>1 DEF Copies
  <2> QED BY <2>2, <2>3, <2>4, <2>5 DEF Local
<1>2. CASE Known(new.ip)
  BY <1>2, SkipLocal DEF AddIp, Skip
<1> QED BY <1>1, <1>2

NameFollows == net_if.link.name = kernel.link.name

\* DeleteIp and AddIp make one call.
LEMMA OneRuns ==
  ASSUME Typed, NEW k, NEW good \in {0, 1}, NEW ACTION Whole, RootExec(<< k >>, good, Whole)
  PROVE  /\ kernel' \in {kernel, k}
         /\ UNCHANGED << net_if, text >> \/ Whole
         /\ ~ refused' /\ NameFollows /\ good = 1 => kernel' = k /\ Whole
<1> DEFINE path == << k >>
           most == IF net_if.link.name = kernel.link.name THEN good ELSE 0
<1>1. PICK n \in 0 .. most :
        /\ kernel' = IF n = 0 THEN kernel ELSE path[n]
        /\ refused' = (refused \/ n < most)
        /\ IF n = Len(path) THEN Whole ELSE UNCHANGED << net_if, text >>
  BY DEF RootExec
<1>2. Len(path) = 1 /\ path[1] = k
  OBVIOUS
<1>3. n \in 0 .. good /\ (~ refused' /\ NameFollows => n = good)
  <2>1. most \in Nat /\ most <= good /\ (NameFollows => most = good)
    BY DEF NameFollows
  <2> HIDE DEF path, most
  <2>2. ~ refused' => ~ (n < most)
    BY <1>1
  <2> QED BY <1>1, <2>1, <2>2
<1> HIDE DEF path, most
<1>4. CASE n = 0
  BY <1>1, <1>2, <1>3, <1>4
<1>5. CASE n = 1
  BY <1>1, <1>2, <1>3, <1>5
<1> QED BY <1>3, <1>4, <1>5

\* ChangeIp makes two.
LEMMA TwoRun ==
  ASSUME Typed, NEW k, NEW l, NEW good \in {0, 1, 2}, NEW ACTION Whole,
         RootExec(<< k, l >>, good, Whole)
  PROVE  /\ kernel' \in {kernel, k, l}
         /\ UNCHANGED << net_if, text >> \/ (good = 2 /\ Whole)
         /\ ~ refused' /\ NameFollows /\ good = 2 => kernel' = l /\ Whole
<1> DEFINE path == << k, l >>
           most == IF net_if.link.name = kernel.link.name THEN good ELSE 0
<1>1. PICK n \in 0 .. most :
        /\ kernel' = IF n = 0 THEN kernel ELSE path[n]
        /\ refused' = (refused \/ n < most)
        /\ IF n = Len(path) THEN Whole ELSE UNCHANGED << net_if, text >>
  BY DEF RootExec
<1>2. Len(path) = 2 /\ path[1] = k /\ path[2] = l
  OBVIOUS
<1>3. n \in 0 .. good /\ (~ refused' /\ NameFollows => n = good)
  <2>1. most \in Nat /\ most <= good /\ (NameFollows => most = good)
    BY DEF NameFollows
  <2> HIDE DEF path, most
  <2>2. ~ refused' => ~ (n < most)
    BY <1>1
  <2> QED BY <1>1, <2>1, <2>2
<1> HIDE DEF path, most
<1>4. CASE n = 0
  BY <1>1, <1>2, <1>3, <1>4
<1>5. CASE n = 1
  BY <1>1, <1>2, <1>3, <1>5
<1>6. CASE n = 2
  BY <1>1, <1>2, <1>3, <1>6
<1> QED BY <1>3, <1>4, <1>5, <1>6

Without(a) == Del(kernel, [ip |-> a, bits |-> net_if.ip[a].bits])

Calls(a, new) ==
  IF ~ CanDel(kernel, [ip |-> a, bits |-> net_if.ip[a].bits]) THEN 0
  ELSE IF CanAdd(Without(a), new) THEN 2 ELSE 1

Replaced(a, new) ==
  /\ \E entry \in Rewritten(a, new) :
       net_if' = [net_if EXCEPT !.ip[a] = Blank, !.ip[new.ip] = entry]
  /\ text' = Freed(a, {new.ip})

\* ChangeIp when it is not left out.
LEMMA ChangeRuns ==
  ASSUME Typed, NEW a, NEW new, ChangeIp(a, new), Known(a),
         ~ (a = new.ip /\ net_if.ip[a] = [bits |-> new.bits, bc |-> new.bc])
  PROVE  /\ kernel' \in {kernel, Without(a), Add(Without(a), new)}
         /\ UNCHANGED << net_if, text >> \/ Replaced(a, new)
         /\ ~ refused' /\ NameFollows /\ Calls(a, new) = 2
              => kernel' = Add(Without(a), new) /\ Replaced(a, new)
<1>1. RootExec(<< Without(a), Add(Without(a), new) >>, Calls(a, new), Replaced(a, new))
  BY Zenon DEF ChangeIp, Without, Calls, Replaced
<1>2. Calls(a, new) \in {0, 1, 2}
  BY DEF Calls
<1> QED BY <1>1, <1>2, TwoRun

LEMMA ChangeLocal ==
  ASSUME Typed, NEW r \in Rows, NEW a \in Addr \cup {Blank}, ChangeIp(a, New(r))
  PROVE  Local({a, Asked(r)})
<1> DEFINE new == New(r)
<1>0. kernel \in Kernels /\ net_if \in Copies /\ new.ip = Asked(r)
  BY DEF Typed, New, Asked
<1>1. CASE Skip
  BY <1>1, SkipLocal
<1>2. CASE ~ Skip
  <2>1. Known(a) /\ ~ (a = new.ip /\ net_if.ip[a] = [bits |-> new.bits, bc |-> new.bc])
    BY <1>2, Zenon DEF ChangeIp
  <2> HIDE DEF new
  <2>2. /\ kernel' \in {kernel, Without(a), Add(Without(a), new)}
        /\ UNCHANGED << net_if, text >> \/ Replaced(a, new)
    BY <2>1, ChangeRuns DEF new
  <2>3. Without(a) \in Kernels /\ Without(a).link = kernel.link
        /\ \A b \in Addr \ {a} : EntriesAt(Without(a), b) = EntriesAt(kernel, b)
    BY <1>0, DelEntries, KernelTypes DEF Without
  <2>5. /\ kernel'.link = kernel.link
        /\ \A b \in Addr \ {a, Asked(r)} : EntriesAt(kernel', b) = EntriesAt(kernel, b)
    <3>1. /\ Add(Without(a), new).link = Without(a).link
          /\ \A b : b # new.ip => EntriesAt(Add(Without(a), new), b) = EntriesAt(Without(a), b)
      BY <2>3, AddEntries
    <3> QED BY <1>0, <2>2, <2>3, <3>1
  <2>6. /\ net_if'.link = net_if.link
        /\ \A b \in Addr \ {a, Asked(r)} : net_if'.ip[b] = net_if.ip[b]
    <3>1. CASE net_if' = net_if
      BY <3>1
    <3>2. ASSUME NEW entry, net_if' = [net_if EXCEPT !.ip[a] = Blank, !.ip[new.ip] = entry]
          PROVE  /\ net_if'.link = net_if.link
                 /\ \A b \in Addr \ {a, Asked(r)} : net_if'.ip[b] = net_if.ip[b]
      BY <1>0, <3>2 DEF Copies
    <3> QED BY <2>2, <3>1, <3>2, Zenon DEF Replaced
  <2>7. /\ \A q \in Addr \ {a, Asked(r)} : Blank \notin text[q] => text'[q] = text[q]
        /\ \A q \in Addr : text'[q] \subseteq text[q] \cup {a, Asked(r)} \cup {Blank}
    <3>1. text' = text \/ text' = Freed(a, {Asked(r)})
      BY <1>0, <2>2, Zenon DEF Replaced
    <3>2. CASE text' = text
      BY <3>2
    <3>3. CASE text' = Freed(a, {Asked(r)})
      BY <3>3 DEF Freed
    <3> QED BY <3>1, <3>2, <3>3
  <2> QED BY <2>5, <2>6, <2>7 DEF Local
<1> QED BY <1>1, <1>2

-----------------------------------------------------------------------------
(***************************************************************************)
(* What a command does to the addresses it names, unless it is refused.    *)
(***************************************************************************)

\* The kernel has the address a, with the prefix of the copy.
Fit(a) == /\ a \in Addr /\ net_if.ip[a] # Blank /\ EntriesAt(kernel, a) # {}
          /\ \A x \in EntriesAt(kernel, a) : x.bits = net_if.ip[a].bits

LEMMA DeleteEffect ==
  ASSUME Typed, NEW a, Fit(a), NameFollows, DeleteIp(a), ~ refused'
  PROVE  Gone(a)'
<1> DEFINE old == [ip |-> a, bits |-> net_if.ip[a].bits]
<1>0. /\ kernel \in Kernels /\ net_if \in Copies /\ a \in Addr
      /\ Known(a)
  BY RowFacts, BlankAssumption DEF Typed, Fit, Known
<1>1. CanDel(kernel, old)
  BY DEF CanDel, Fit, EntriesAt
<1>2. kernel' = Del(kernel, old) /\ net_if' = [net_if EXCEPT !.ip[a] = Blank]
  <2> DEFINE good  == IF CanDel(kernel, old) THEN 1 ELSE 0
             whole == net_if' = [net_if EXCEPT !.ip[a] = Blank] /\ text' = Freed(a, {})
  <2>1. RootExec(<< Del(kernel, old) >>, good, whole)
    BY <1>0 DEF DeleteIp
  <2>2. good = 1
    BY <1>1
  <2> HIDE DEF good, whole, old
  <2>3. kernel' = Del(kernel, old) /\ whole
    BY <2>1, <2>2, OneRuns
  <2> QED BY <2>3 DEF whole
<1>3. EntriesAt(kernel', a) = {}
  <2>1. \A x \in EntriesAt(kernel, old.ip) : x.bits = old.bits
    BY DEF Fit
  <2>2. old.ip = a
    OBVIOUS
  <2> HIDE DEF old
  <2> QED BY <1>0, <1>2, <2>1, <2>2, DelEntries
<1>4. net_if'.ip[a] = Blank
  BY <1>0, <1>2 DEF Copies
<1> QED BY <1>3, <1>4 DEF Gone

LEMMA AddEffect ==
  ASSUME Typed, NEW r \in Rows, Asked(r) \in Addr, Gone(Asked(r)), NameFollows,
         AddIp(New(r)), ~ refused'
  PROVE  /\ EntriesAt(kernel', Asked(r)) = {New(r)}
         /\ net_if'.ip[Asked(r)] = [bits |-> New(r).bits, bc |-> Blank]
<1> DEFINE new == New(r)
<1>0. /\ kernel \in Kernels /\ net_if \in Copies /\ new.ip = Asked(r)
      /\ ~ Known(new.ip) /\ new.ip # Blank
  BY RowFacts, BlankAssumption DEF Typed, Gone, Known, New, Asked
<1>1. CanAdd(kernel, new)
  BY <1>0 DEF CanAdd, Gone, EntriesAt
<1>2. kernel' = Add(kernel, new)
      /\ net_if' = [net_if EXCEPT !.ip[new.ip] = [bits |-> new.bits, bc |-> Blank]]
  <2> DEFINE good  == IF CanAdd(kernel, new) THEN 1 ELSE 0
             whole == /\ net_if' = [net_if EXCEPT !.ip[new.ip] = [bits |-> new.bits, bc |-> Blank]]
                      /\ UNCHANGED text
  <2>1. RootExec(<< Add(kernel, new) >>, good, whole)
    BY <1>0 DEF AddIp
  <2>2. good = 1
    BY <1>1
  <2> HIDE DEF good, whole, new
  <2>3. kernel' = Add(kernel, new) /\ whole
    BY <2>1, <2>2, OneRuns
  <2> QED BY <2>3 DEF whole
<1> HIDE DEF new
<1>3. EntriesAt(kernel', Asked(r)) = {new}
  BY <1>0, <1>2, AddEntries DEF Gone
<1>4. net_if'.ip[Asked(r)] = [bits |-> new.bits, bc |-> Blank]
  BY <1>0, <1>2 DEF Copies
<1> QED BY <1>3, <1>4 DEF new

LEMMA ChangeEffect ==
  ASSUME Typed, NEW r \in Rows, NEW a, Fit(a), NameFollows, ChangeIp(a, New(r)), ~ refused',
         Asked(r) \in Addr, Asked(r) = a \/ EntriesAt(kernel, Asked(r)) = {},
         Reread(Asked(r), New(r).bits) = {New(r).bits},
         ~ (a = Asked(r) /\ net_if.ip[a] = [bits |-> New(r).bits, bc |-> New(r).bc])
  PROVE  /\ EntriesAt(kernel', Asked(r)) = {New(r)}
         /\ net_if'.ip[Asked(r)] = [bits |-> New(r).bits, bc |-> Blank]
         /\ Asked(r) # a => EntriesAt(kernel', a) = {} /\ net_if'.ip[a] = Blank
<1> DEFINE new == New(r)
           old == [ip |-> a, bits |-> net_if.ip[a].bits]
<1>0. /\ kernel \in Kernels /\ net_if \in Copies /\ new.ip = Asked(r) /\ a \in Addr
      /\ Known(a) /\ Asked(r) # Blank
  BY RowFacts, BlankAssumption DEF Typed, Fit, Known, New, Asked
<1>1. CanDel(kernel, old)
  BY DEF CanDel, Fit, EntriesAt
<1>2. /\ Without(a) \in Kernels /\ EntriesAt(Without(a), a) = {}
      /\ \A b : b # a => EntriesAt(Without(a), b) = EntriesAt(kernel, b)
  <2>1. \A x \in EntriesAt(kernel, old.ip) : x.bits = old.bits
    BY DEF Fit
  <2>2. old.ip = a /\ Without(a) = Del(kernel, old)
    BY DEF Without
  <2> HIDE DEF old
  <2>3. EntriesAt(Del(kernel, old), old.ip) = {}
    BY <1>0, <2>1, DelEntries
  <2>4. \A b : b # old.ip => EntriesAt(Del(kernel, old), b) = EntriesAt(kernel, b)
    BY <1>0, DelEntries
  <2> QED BY <1>0, <2>2, <2>3, <2>4, KernelTypes
<1>3. EntriesAt(Without(a), Asked(r)) = {}
  BY <1>2
<1>4. CanAdd(Without(a), new)
  <2> HIDE DEF new
  <2> QED BY <1>0, <1>3 DEF CanAdd, EntriesAt
<1>5. Calls(a, new) = 2
  BY <1>1, <1>4 DEF Calls
<1>6. ~ (a = new.ip /\ net_if.ip[a] = [bits |-> new.bits, bc |-> new.bc])
  BY <1>0
<1> HIDE DEF new
<1>7. kernel' = Add(Without(a), new) /\ Replaced(a, new)
  BY <1>0, <1>5, <1>6, ChangeRuns DEF new
<1>8. EntriesAt(kernel', Asked(r)) = {new} /\ (Asked(r) # a => EntriesAt(kernel', a) = {})
  <2>1. /\ EntriesAt(Add(Without(a), new), new.ip) = {new}
        /\ \A b : b # new.ip => EntriesAt(Add(Without(a), new), b) = EntriesAt(Without(a), b)
    <3>1. Without(a) \in Kernels /\ EntriesAt(Without(a), new.ip) = {}
      BY <1>0, <1>2, <1>3
    <3> QED BY <3>1, AddEntries
  <2> QED BY <1>0, <1>2, <1>7, <2>1
<1>9. PICK entry \in Rewritten(a, new) : net_if' = [net_if EXCEPT !.ip[a] = Blank, !.ip[new.ip] = entry]
  BY <1>7, Zenon DEF Replaced
<1>10. entry = [bits |-> New(r).bits, bc |-> Blank]
  BY <1>0, <1>9 DEF Rewritten, new
<1>11. net_if'.ip[Asked(r)] = entry /\ (Asked(r) # a => net_if'.ip[a] = Blank)
  BY <1>0, <1>9 DEF Copies
<1> QED BY <1>8, <1>10, <1>11 DEF new

-----------------------------------------------------------------------------
(***************************************************************************)
(* The commands of a row.                                                  *)
(***************************************************************************)

RowCommand(s, i) ==
  \/ /\ s \in Addr /\ i = << s, 1 >> /\ Asked(s) = Blank
     /\ \E a \in OldText(s) : DeleteIp(a)
  \/ s \notin Addr /\ AddIp(New(s))
  \/ /\ s \in Addr /\ (i[2] = 1 => Asked(s) # Blank)
     /\ \E a \in OldText(s) : ChangeIp(a, New(s))

LEMMA RowCommands ==
  ASSUME DeleteRow \/ AddRow \/ ChangeRow
  PROVE  \E s \in Rows : \E i \in CellsOf(s) : Cell1st(i) /\ RowCommand(s, i)
<1>1. CASE DeleteRow
  <2>1. PICK s \in Addr :
          /\ Cell1st(<< s, 1 >>) /\ dlg.rows[s].ip = Blank /\ \E a \in OldText(s) : DeleteIp(a)
    BY <1>1 DEF DeleteRow
  <2>2. s \in Rows /\ << s, 1 >> \in CellsOf(s)
    BY RowFacts DEF CellsOf
  <2> QED BY <2>1, <2>2 DEF RowCommand, Asked
<1>2. CASE AddRow
  <2>1. PICK s \in {Add4, Add6} : \E i \in CellsOf(s) : Cell1st(i) /\ AddIp(New(s))
    BY <1>2 DEF AddRow
  <2>2. s \in Rows /\ s \notin Addr
    BY RowFacts DEF Addr
  <2> QED BY <2>1, <2>2 DEF RowCommand
<1>3. CASE ChangeRow
  <2>1. PICK s \in Addr : \E i \in CellsOf(s) :
          /\ Cell1st(i) /\ (i[2] = 1 => dlg.rows[s].ip # Blank)
          /\ \E a \in OldText(s) : ChangeIp(a, New(s))
    BY <1>3 DEF ChangeRow
  <2> QED BY <2>1, RowFacts DEF RowCommand, Asked
<1> QED BY <1>1, <1>2, <1>3

\* The cell that is run is the first of those left.
LEMMA CellRun ==
  ASSUME Typed, Opened, NEW s \in Rows, NEW i \in CellsOf(s), Cell1st(i)
  PROVE  /\ s \in Edited /\ i \in todo /\ CellsOf(s) \cap todo # {}
         /\ \A j \in todo : j[1] >= s
         /\ \A k : << s, k >> \in todo => i[2] <= k
         /\ todo' \subseteq todo
         /\ \A r \in Rows \ {s} : CellsOf(r) \cap todo' = CellsOf(r) \cap todo
         /\ \A j \in {NameCell, MacCell, UpCell, PromiscCell} : j \in todo' <=> j \in todo
<1>1. i \in todo /\ todo' = todo \ {i} /\ i \in ChangeList /\ i[1] = s /\ s \in Nat
  BY CellFacts, RowFacts DEF Cell1st, Opened
<1>2. s \in Edited
  BY <1>1, CellRow
<1>3. ASSUME NEW j \in todo PROVE j[1] >= s
  <2>1. j[1] \in Nat
    <3>1. CASE j \in {NameCell, MacCell, UpCell, PromiscCell}
      BY <3>1 DEF NameCell, MacCell, UpCell, PromiscCell
    <3>2. CASE \E r \in Rows : j \in CellsOf(r)
      BY <3>2, CellFacts, RowFacts
    <3> QED BY <3>1, <3>2 DEF Typed, Cells
  <2>2. i[1] < j[1] \/ i[1] = j[1]
    BY DEF Cell1st
  <2> QED BY <1>1, <2>1, <2>2
<1>4. ASSUME NEW k, << s, k >> \in todo PROVE i[2] <= k
  <2>1. i[1] < << s, k >>[1] \/ (i[1] = << s, k >>[1] /\ i[2] <= << s, k >>[2])
    BY <1>4 DEF Cell1st
  <2> QED BY <1>1, <2>1
<1>5. \A r \in Rows \ {s} : i \notin CellsOf(r)
  BY <1>1, CellFacts
<1>6. i \notin {NameCell, MacCell, UpCell, PromiscCell}
  BY CellFacts
<1> QED BY <1>1, <1>2, <1>3, <1>4, <1>5, <1>6

LEMMA LocalMore ==
  ASSUME NEW as, NEW bs, Local(as), as \subseteq bs \cup {Blank}
  PROVE  Local(bs)
<1>1. \A b \in Addr \ bs : b \in Addr \ as
  BY RowFacts, BlankAssumption
<1> QED BY <1>1 DEF Local

LEMMA RowLocal ==
  ASSUME Typed, NEW s \in Rows, NEW i, RowCommand(s, i), CellsOf(s) \cap todo # {},
         s \in Addr => TextFollows(s)
  PROVE  Local({s, Asked(s)})
<1>1. \A a \in OldText(s) : s \in Addr => a \in {s, Blank, Asked(s)} /\ a \in Addr \cup {Blank}
  BY OldTextType DEF TextFollows, OldText
<1>2. ASSUME s \in Addr, NEW a \in OldText(s), DeleteIp(a) PROVE Local({s, Asked(s)})
  BY <1>1, <1>2, DeleteLocal, LocalMore
<1>3. ASSUME AddIp(New(s)) PROVE Local({s, Asked(s)})
  BY <1>3, AddLocal, LocalMore
<1>4. ASSUME s \in Addr, NEW a \in OldText(s), ChangeIp(a, New(s)) PROVE Local({s, Asked(s)})
  <2>1. Local({a, Asked(s)})
    BY <1>1, <1>4, ChangeLocal
  <2> QED BY <1>1, <1>4, <2>1, LocalMore
<1> QED BY <1>2, <1>3, <1>4 DEF RowCommand

\* What a row asks for does not change while the commands are run.
LEMMA FormFixed ==
  ASSUME Typed, Command
  PROVE  /\ \A r : Asked(r)' = Asked(r)
         /\ \A r : New(r)' = New(r)
         /\ \A r : Same(r)' = Same(r)
         /\ Lasting' = Lasting /\ Adders' = Adders /\ Bounce' = Bounce
<1>1. fdc' = fdc /\ dlg' = dlg /\ ChangeList' = ChangeList
  BY CommandForm
<1>2. \A r : Asked(r)' = Asked(r)
  BY <1>1 DEF Asked
<1>3. \A r : New(r)' = New(r)
  BY <1>1 DEF New
<1>4. \A r : Same(r)' = Same(r)
  BY <1>1, <1>2, <1>3 DEF Same
<1>5. Lasting' = Lasting /\ Bounce' = Bounce
  BY <1>1 DEF Lasting, Bounce
<1>6. Adders' = Adders
  BY <1>5 DEF Adders
<1> QED BY <1>2, <1>3, <1>4, <1>5, <1>6

\* The rows whose cell is not run keep what they have.
LEMMA OtherRows ==
  ASSUME Typed, RowsShown, Opened, Within, Command,
         NEW s \in Rows, NEW i \in CellsOf(s), Cell1st(i), Local({s, Asked(s)}),
         NEW r \in Edited, r # s, RowFollows(r)
  PROVE  RowFollows(r)'
<1> USE FormFixed
<1>1. /\ s \in Edited /\ r \in Rows /\ r \in Nat /\ s \in Nat
      /\ r # Asked(s) /\ s # Asked(r) /\ (Asked(r) # Blank => Asked(r) # Asked(s))
  BY CellRun, EditedRow, RowsApart, RowFacts
<1>2. Asked(r) # Blank => Asked(r) \in Addr
  BY <1>1, FamilyApart
<1>3. CellsOf(r) \cap todo' = CellsOf(r) \cap todo
  BY <1>1, CellRun
<1>4. AllToRun(r) => AllToRun(r)'
  BY <1>3, CommandForm DEF AllToRun
<1>5. \A b \in Addr : b \notin {s, Asked(s)} =>
        EntriesAt(kernel', b) = EntriesAt(kernel, b) /\ net_if'.ip[b] = net_if.ip[b]
  BY DEF Local
<1>6. ASSUME NEW b \in Addr, b \notin {s, Asked(s)}
      PROVE  /\ Untouched(b) => Untouched(b)'
             /\ Gone(b) => Gone(b)'
             /\ Placed(r, b) => Placed(r, b)'
  BY <1>5, <1>6, CommandForm DEF Untouched, Gone, Placed
<1>7. ASSUME r \in Addr, text[r] = {r} PROVE text'[r] = {r}
  <2>1. Blank \notin text[r]
    BY <1>1, <1>7, BlankAssumption
  <2> QED BY <1>1, <1>7, <2>1 DEF Local
<1>8. ASSUME r \in Addr, TextFollows(r) PROVE TextFollows(r)'
  <2>1. CASE CellsOf(r) \cap todo = {}
    BY <1>3, <2>1 DEF TextFollows
  <2>2. CASE CellsOf(r) \cap todo # {}
    <3>1. PICK j \in CellsOf(r) : j \in todo
      BY <2>2
    <3>2. j[1] = r /\ i[1] = s
      BY <1>1, CellFacts
    <3>3. r >= s /\ i \in todo
      BY <3>1, <3>2, CellRun
    <3>4. ~ \A k \in todo : k[1] >= r
      BY <1>1, <3>2, <3>3
    <3>5. text[r] = {r}
      BY <1>8, <2>2, <3>4 DEF TextFollows
    <3> QED BY <1>7, <1>8, <3>5 DEF TextFollows
  <2> QED BY <2>1, <2>2
<1>9. ASSUME r \in Addr, Waiting(r) PROVE Waiting(r)'
  <2>1. Untouched(r)'
    BY <1>1, <1>6, <1>9 DEF Waiting
  <2>2. Asked(r) \notin {r, Blank} => Untouched(Asked(r))'
    BY <1>1, <1>2, <1>6, <1>9 DEF Waiting
  <2>3. text'[r] = {r}
    BY <1>7, <1>9 DEF Waiting
  <2> QED BY <1>4, <1>9, <2>1, <2>2, <2>3 DEF Waiting, Untouched
<1>10. Asked(r) # Blank /\ Placed(r, Asked(r)) => Placed(r, Asked(r))'
  BY <1>1, <1>2, <1>6 DEF Placed
<1>11. ASSUME r \in Addr, Carried(r) PROVE Carried(r)'
  <2>1. Asked(r) # r => Gone(r)'
    BY <1>1, <1>6, <1>11 DEF Carried
  <2> QED BY <1>10, <1>11, <2>1 DEF Carried
<1>12. ASSUME Asked(r) # Blank, ToAdd(r) PROVE ToAdd(r)'
  <2>1. Untouched(Asked(r))'
    BY <1>1, <1>2, <1>6, <1>12 DEF ToAdd, Untouched
  <2> QED BY <1>4, <1>12, <2>1 DEF ToAdd
<1>13. Lasting \subseteq Addr
  BY DEF Lasting
<1> QED BY <1>8, <1>9, <1>10, <1>11, <1>12, <1>13 DEF RowFollows

LEMMA SkipKeeps ==
  ASSUME Typed, Command, Skip, NEW r
  PROVE  /\ Untouched(r) => Untouched(r)'
         /\ Gone(r) => Gone(r)'
         /\ \A a : Placed(r, a) => Placed(r, a)'
<1>1. kernel' = kernel /\ net_if' = net_if /\ fdc' = fdc /\ start' = start /\ New(r)' = New(r)
  BY CommandForm, FormFixed DEF Skip
<1> QED BY <1>1 DEF Untouched, Gone, Placed

\* A row whose addresses are as the dialog found them names one the kernel has.
LEMMA WaitingFits ==
  ASSUME Typed, RowsShown, Within, NEW s \in Edited, s \in Addr, Waiting(s)
  PROVE  Fit(s)
<1>1. fdc.ip[s] # Blank
  BY EditedRow DEF RowsShown
<1> QED BY <1>1, ShownThere DEF Waiting, Untouched, Fit

LEMMA PlacedFits ==
  ASSUME Typed, NEW r \in Rows, NEW a \in Addr, Placed(r, a)
  PROVE  Fit(a)
<1>1. [bits |-> New(r).bits, bc |-> Blank] \in Entry
  BY NewType DEF Entry, Broadcast
<1>2. net_if.ip[a] = [bits |-> New(r).bits, bc |-> Blank]
  BY DEF Placed
<1>3. net_if.ip[a] # Blank /\ net_if.ip[a].bits = New(r).bits
  BY <1>1, <1>2, BlankAssumption
<1> QED BY <1>3 DEF Placed, Fit

\* The prefix of an edited row survives its mask.
LEMMA AskedPlain ==
  ASSUME Typed, RowsShown, Within, NEW s \in Edited, Asked(s) # Blank
  PROVE  Reread(Asked(s), New(s).bits) = {New(s).bits}
<1>1. IsSix(Asked(s)) = IsSix(s)
  BY EditedRow, FamilyApart
<1>2. Reread(s, New(s).bits) = {New(s).bits}
  BY DEF Within, Plain
<1> QED BY <1>1, <1>2 DEF Reread

\* The row whose cell is run is carried, or was as it should be.
LEMMA DeletedRow ==
  ASSUME Typed, RowsShown, Within, Command, NameFollows, ~ refused',
         NEW s \in Edited, s \in Addr, Asked(s) = Blank, Waiting(s) \/ Carried(s),
         NEW a \in OldText(s), Waiting(s) => a = s, a \in {s, Blank}, DeleteIp(a)
  PROVE  Carried(s)'
<1> USE FormFixed
<1>0. s # Blank
  BY RowFacts, BlankAssumption
<1>1. CASE Waiting(s)
  BY <1>0, <1>1, WaitingFits, DeleteEffect DEF Carried
<1>2. CASE Carried(s)
  <2>1. Gone(s) /\ ~ Known(a)
    BY <1>0, <1>2 DEF Carried, Gone, Known
  <2>2. Skip
    BY <2>1 DEF DeleteIp
  <2>3. Gone(s)'
    BY <2>1, <2>2, SkipKeeps
  <2> QED BY <1>0, <2>3 DEF Carried
<1> QED BY <1>1, <1>2

LEMMA ChangedRow ==
  ASSUME Typed, RowsShown, Opened, Within, Command, NameFollows, ~ refused',
         NEW s \in Edited, s \in Addr, NEW i \in CellsOf(s), Cell1st(i),
         i[2] = 1 => Asked(s) # Blank, Waiting(s) \/ Carried(s),
         NEW a \in OldText(s), a \in {s, Blank, Asked(s)}, ChangeIp(a, New(s)),
         Local({a, Asked(s)})
  PROVE  Waiting(s)' \/ Carried(s)'
<1> USE FormFixed
<1>0. /\ s # Blank /\ s \in Rows /\ New(s).ip = Asked(s)
      /\ Asked(s) # Blank => Asked(s) \in Addr
  BY EditedRow, FamilyApart, RowFacts, BlankAssumption DEF New, Asked
<1>1. CASE Waiting(s)
  <2>1. a = s /\ Fit(s) /\ net_if.ip[s] = fdc.ip[s]
    BY <1>1, WaitingFits DEF Waiting, OldText, Untouched
  <2>2. CASE Same(s)
    <3>1. Skip
      BY <1>0, <2>1, <2>2 DEF Same, ChangeIp
    <3>2. text' = text /\ Untouched(s)'
      BY <1>1, <3>1, SkipKeeps DEF Skip, Waiting
    <3> QED BY <1>1, <2>2, <3>2 DEF Waiting, Same
  <2>3. CASE ~ Same(s)
    <3>1. Asked(s) # Blank
      <4>1. SUFFICES ASSUME Asked(s) = Blank PROVE FALSE
        OBVIOUS
      <4>2. fdc.ip[s] # Blank
        BY <2>1 DEF Fit
      <4>3. << s, 1 >> \in ChangeList
        BY <1>0, <4>1, <4>2 DEF ChangeList, Shown, Asked
      <4>4. << s, 1 >> \in CellsOf(s)
        BY DEF CellsOf
      <4>5. << s, 1 >> \in todo
        BY <1>1, <2>3, <4>3, <4>4 DEF Waiting, AllToRun
      <4>6. i[2] <= 1 /\ i[2] \in 1 .. 3
        BY <1>0, <4>5, CellRun DEF CellsOf
      <4>7. i[2] = 1
        BY <4>6
      <4> QED BY <4>1, <4>7
    <3>2. Asked(s) = s \/ EntriesAt(kernel, Asked(s)) = {}
      BY <1>1, <3>1, AskedNew DEF Waiting, Untouched
    <3>3. ~ (s = Asked(s) /\ net_if.ip[s] = [bits |-> New(s).bits, bc |-> New(s).bc])
      BY <2>1, <2>3 DEF Same
    <3>4. /\ EntriesAt(kernel', Asked(s)) = {New(s)}
          /\ net_if'.ip[Asked(s)] = [bits |-> New(s).bits, bc |-> Blank]
          /\ Asked(s) # s => EntriesAt(kernel', s) = {} /\ net_if'.ip[s] = Blank
      BY <1>0, <2>1, <3>1, <3>2, <3>3, AskedPlain, ChangeEffect
    <3> QED BY <3>4 DEF Carried, Gone, Placed
  <2> QED BY <2>2, <2>3
<1>2. CASE Carried(s) /\ ~ Known(a)
  <2>1. Skip
    BY <1>2 DEF ChangeIp
  <2> QED BY <1>2, <2>1, SkipKeeps DEF Carried, Gone, Placed
<1>3. CASE Carried(s) /\ Known(a)
  <2>1. a = Asked(s) /\ Asked(s) # Blank /\ Placed(s, Asked(s))
    BY <1>3 DEF Carried, Gone, Known
  <2>2. Fit(Asked(s))
    BY <1>0, <2>1, PlacedFits
  <2>3. Asked(s) # s => Gone(s)'
    <3>1. Asked(s) # s => EntriesAt(kernel', s) = EntriesAt(kernel, s) /\ net_if'.ip[s] = net_if.ip[s]
      BY <2>1 DEF Local
    <3> QED BY <1>3, <3>1 DEF Carried, Gone
  <2>4. CASE net_if.ip[a] = [bits |-> New(s).bits, bc |-> New(s).bc]
    <3>1. Skip
      BY <1>0, <2>1, <2>4 DEF ChangeIp
    <3> QED BY <2>1, <2>3, <3>1, SkipKeeps DEF Carried, Placed
  <2>5. CASE net_if.ip[a] # [bits |-> New(s).bits, bc |-> New(s).bc]
    <3>1. /\ EntriesAt(kernel', Asked(s)) = {New(s)}
          /\ net_if'.ip[Asked(s)] = [bits |-> New(s).bits, bc |-> Blank]
      BY <1>0, <2>1, <2>2, <2>5, AskedPlain, ChangeEffect
    <3> QED BY <2>3, <3>1 DEF Carried, Placed
  <2> QED BY <2>4, <2>5
<1> QED BY <1>1, <1>2, <1>3

LEMMA AddedRow ==
  ASSUME Typed, RowsShown, Within, Command, NameFollows, ~ refused',
         NEW s \in Edited, s \notin Addr, Asked(s) # Blank, AddIp(New(s)),
         ToAdd(s) \/ Placed(s, Asked(s))
  PROVE  Placed(s, Asked(s))'
<1> USE FormFixed
<1>0. s \in Rows /\ New(s).ip = Asked(s) /\ Asked(s) \in Addr
  BY EditedRow, FamilyApart DEF New, Asked
<1>1. CASE ToAdd(s)
  <2>1. Gone(Asked(s))
    BY <1>0, <1>1, AskedNew DEF ToAdd, Untouched, Gone
  <2> QED BY <1>0, <2>1, AddEffect DEF Placed
<1>2. CASE Placed(s, Asked(s))
  <2>1. Known(New(s).ip)
    BY <1>0, <1>2, PlacedFits DEF Known, Fit
  <2>2. Skip
    BY <2>1 DEF AddIp
  <2> QED BY <1>2, <2>2, SkipKeeps DEF Placed
<1> QED BY <1>1, <1>2

LEMMA OwnRow ==
  ASSUME Typed, RowsShown, Opened, Within, Command, NameFollows, ~ refused',
         NEW s \in Edited, NEW i \in CellsOf(s), Cell1st(i), RowCommand(s, i), RowFollows(s),
         Local({s, Asked(s)})
  PROVE  RowFollows(s)'
<1> USE FormFixed
<1>0. s \in Rows /\ Lasting \subseteq Addr /\ (s \in Adders => s \notin Addr)
  BY EditedRow DEF Lasting, Adders, Addr
<1>1. CellsOf(s) \cap todo # {} /\ todo' \subseteq todo /\ \A j \in todo : j[1] >= s
  BY <1>0, CellRun
<1>2. s \in Addr => text[s] \subseteq {s, Blank, Asked(s)}
  BY <1>1 DEF RowFollows, TextFollows
<1>3. s \in Addr => TextFollows(s)'
  <2>1. s \in Addr => text'[s] \subseteq {s, Blank, Asked(s)}
    BY <1>2 DEF Local
  <2> QED BY <1>1, <2>1 DEF TextFollows
<1>4. ASSUME s \in Lasting PROVE Waiting(s)' \/ Carried(s)'
  <2>1. s \in Addr /\ (Waiting(s) \/ Carried(s))
    BY <1>0, <1>4 DEF RowFollows
  <2>2. ASSUME Asked(s) = Blank, NEW a \in OldText(s), DeleteIp(a) PROVE Carried(s)'
    <3>1. a \in {s, Blank} /\ (Waiting(s) => a = s)
      BY <1>2, <2>1, <2>2 DEF OldText, Waiting
    <3> QED BY <2>1, <2>2, <3>1, DeletedRow
  <2>3. ASSUME i[2] = 1 => Asked(s) # Blank, NEW a \in OldText(s), ChangeIp(a, New(s))
        PROVE  Waiting(s)' \/ Carried(s)'
    <3>1. a \in {s, Blank, Asked(s)} /\ a \in Addr \cup {Blank}
      BY <1>2, <2>1, OldTextType DEF OldText
    <3>2. Local({a, Asked(s)})
      BY <1>0, <2>3, <3>1, ChangeLocal
    <3> QED BY <2>1, <2>3, <3>1, <3>2, ChangedRow
  <2> QED BY <2>1, <2>2, <2>3 DEF RowCommand
<1>5. ASSUME s \in Adders, Asked(s) # Blank PROVE Placed(s, Asked(s))'
  <2>1. s \notin Addr /\ AddIp(New(s)) /\ (ToAdd(s) \/ Placed(s, Asked(s)))
    BY <1>0, <1>5 DEF RowCommand, RowFollows
  <2> QED BY <1>5, <2>1, AddedRow
<1> QED BY <1>3, <1>4, <1>5, <1>0 DEF RowFollows

\* The limits are those of the dialog, and of the commands run so far.
LEMMA WithinBefore == ASSUME Typed, Command, Within' PROVE Within /\ ~ refused'
<1>1. /\ fdc' = fdc /\ dlg' = dlg /\ start' = start /\ Edited' = Edited
      /\ \A r : New(r)' = New(r)
  BY CommandForm, FormFixed
<1>2. refused => refused'
  <2>1. ASSUME NEW path, NEW good, NEW ACTION Whole, RootExec(path, good, Whole), refused
        PROVE  refused'
    BY <2>1 DEF RootExec
  <2>2. Skip => refused' = refused
    BY DEF Skip, history
  <2> QED BY <2>1, <2>2, ZenonT(30) DEF Command, SetInterfaceName, SetMac, SetUp, SetPromisc, DeleteRow, AddRow,
             ChangeRow, DeleteIp, AddIp, ChangeIp
<1> QED BY <1>1, <1>2 DEF Within, Fits, FitIn, Plain, Independent

LEMMA RowStep ==
  ASSUME Typed, RowsShown, Opened, Within, RowsFollow, LinkFollows, Command, ~ refused',
         DeleteRow \/ AddRow \/ ChangeRow
  PROVE  RowsFollow' /\ LinkFollows'
<1> USE FormFixed
<1>0. PICK s \in Rows : \E i \in CellsOf(s) : Cell1st(i) /\ RowCommand(s, i)
  BY RowCommands
<1>1. PICK i \in CellsOf(s) : Cell1st(i) /\ RowCommand(s, i)
  BY <1>0
<1>2. s \in Edited /\ CellsOf(s) \cap todo # {}
  BY <1>1, CellRun
<1>3. NameFollows
  BY DEF LinkFollows, NameFollows
<1>4. Local({s, Asked(s)})
  BY <1>1, <1>2, RowLocal DEF RowsFollow, RowFollows
<1>5. ASSUME NEW r \in Edited PROVE RowFollows(r)'
  <2>1. RowFollows(r)
    BY DEF RowsFollow
  <2>2. CASE r = s
    BY <1>1, <1>3, <1>4, <2>1, <2>2, OwnRow
  <2>3. CASE r # s
    BY <1>1, <1>4, <2>1, <2>3, OtherRows
  <2> QED BY <2>2, <2>3
<1>6. ASSUME NEW a \in Lasting \ Edited, \A r \in Edited : Asked(r) # a PROVE Untouched(a)'
  <2>1. a \in Addr /\ a \notin {s, Asked(s)} /\ Untouched(a)
    BY <1>2, <1>6 DEF RowsFollow, Lasting
  <2> QED BY <1>4, <2>1, CommandForm DEF Untouched, Local
<1>7. RowsFollow'
  BY <1>5, <1>6, CommandForm DEF RowsFollow
<1>8. LinkFollows'
  <2>1. kernel'.link = kernel.link /\ net_if'.link = net_if.link
    BY <1>4 DEF Local
  <2>2. /\ NameCell \in todo' <=> NameCell \in todo
        /\ MacCell \in todo' <=> MacCell \in todo
        /\ UpCell \in todo' <=> UpCell \in todo
        /\ PromiscCell \in todo' <=> PromiscCell \in todo
    BY <1>1, CellRun
  <2> QED BY <2>1, <2>2, CommandForm DEF LinkFollows
<1> QED BY <1>7, <1>8

-----------------------------------------------------------------------------
(***************************************************************************)
(* The commands of the link.                                               *)
(***************************************************************************)

LEMMA ThreeRun ==
  ASSUME Typed, NEW k, NEW l, NEW m, NEW ACTION Whole, RootExec(<< k, l, m >>, 3, Whole)
  PROVE  /\ kernel' \in {kernel, k, l, m}
         /\ ~ refused' /\ NameFollows => kernel' = m /\ Whole
<1> DEFINE path == << k, l, m >>
           most == IF net_if.link.name = kernel.link.name THEN 3 ELSE 0
<1>1. PICK n \in 0 .. most :
        /\ kernel' = IF n = 0 THEN kernel ELSE path[n]
        /\ refused' = (refused \/ n < most)
        /\ IF n = Len(path) THEN Whole ELSE UNCHANGED << net_if, text >>
  BY DEF RootExec
<1>2. Len(path) = 3 /\ path[1] = k /\ path[2] = l /\ path[3] = m
  OBVIOUS
<1>3. n \in 0 .. 3 /\ (~ refused' /\ NameFollows => n = 3)
  <2>1. most \in Nat /\ most <= 3 /\ (NameFollows => most = 3)
    BY DEF NameFollows
  <2> HIDE DEF path, most
  <2>2. ~ refused' => ~ (n < most)
    BY <1>1
  <2> QED BY <1>1, <2>1, <2>2
<1> HIDE DEF path, most
<1>4. CASE n = 0
  BY <1>1, <1>3, <1>4
<1>5. CASE n = 1
  BY <1>1, <1>2, <1>3, <1>5
<1>6. CASE n = 2
  BY <1>1, <1>2, <1>3, <1>6
<1>7. CASE n = 3
  BY <1>1, <1>2, <1>3, <1>7
<1> QED BY <1>3, <1>4, <1>5, <1>6, <1>7

\* The link of the kernel and of the copy after a command that was not refused.
LEMMA LinkEffect ==
  ASSUME Typed, NameFollows, ~ refused'
  PROVE  /\ SetInterfaceName =>
              /\ kernel'.link = [kernel.link EXCEPT !.name = dlg.link.name, !.up = TRUE]
              /\ net_if'.link.name = dlg.link.name
         /\ SetMac =>
              /\ kernel'.link = [kernel.link EXCEPT !.mac = dlg.link.mac, !.up = TRUE]
              /\ net_if' = net_if
         /\ SetUp =>
              /\ kernel'.link = [kernel.link EXCEPT !.up = dlg.link.up]
              /\ net_if' = net_if
         /\ SetPromisc =>
              /\ kernel'.link = [kernel.link EXCEPT !.promisc = dlg.link.promisc]
              /\ net_if' = net_if
<1>0. kernel \in Kernels /\ net_if \in Copies /\ dlg.link \in Link /\ 1 \in {0, 1}
  BY DEF Typed, Forms
<1>1. ASSUME SetInterfaceName
      PROVE  /\ kernel'.link = [kernel.link EXCEPT !.name = dlg.link.name, !.up = TRUE]
             /\ net_if'.link.name = dlg.link.name
  <2> DEFINE named == [Down(kernel) EXCEPT !.link.name = dlg.link.name]
             whole == net_if' = Renamed /\ UNCHANGED text
  <2>1. RootExec(<< Down(kernel), named, Up(named) >>, 3, whole)
    BY <1>1 DEF SetInterfaceName
  <2>2. Up(named).link = [kernel.link EXCEPT !.name = dlg.link.name, !.up = TRUE]
    BY <1>0 DEF Up, Down, Kernels, Link
  <2>3. Renamed.link.name = dlg.link.name
    BY <1>0 DEF Renamed, Copies, Link
  <2> HIDE DEF named, whole
  <2>4. kernel' = Up(named) /\ whole
    BY <2>1, ThreeRun
  <2> QED BY <2>2, <2>3, <2>4 DEF whole
<1>2. ASSUME SetMac
      PROVE  /\ kernel'.link = [kernel.link EXCEPT !.mac = dlg.link.mac, !.up = TRUE]
             /\ net_if' = net_if
  <2> DEFINE set == [Down(kernel) EXCEPT !.link.mac = dlg.link.mac]
  <2>1. RootExec(<< Down(kernel), set, Up(set) >>, 3, Keep)
    BY <1>2 DEF SetMac
  <2>2. Up(set).link = [kernel.link EXCEPT !.mac = dlg.link.mac, !.up = TRUE]
    BY <1>0 DEF Up, Down, Kernels, Link
  <2> HIDE DEF set
  <2>3. kernel' = Up(set) /\ Keep
    BY <2>1, ThreeRun
  <2> QED BY <2>2, <2>3 DEF Keep
<1>3. ASSUME SetUp
      PROVE  /\ kernel'.link = [kernel.link EXCEPT !.up = dlg.link.up]
             /\ net_if' = net_if
  <2> DEFINE k == IF dlg.link.up THEN Up(kernel) ELSE Down(kernel)
  <2>1. RootExec(<< k >>, 1, Keep)
    BY <1>3 DEF SetUp
  <2>2. k.link = [kernel.link EXCEPT !.up = dlg.link.up]
    BY <1>0 DEF Up, Down, Kernels, Link
  <2> HIDE DEF k
  <2>3. kernel' = k /\ Keep
    BY <1>0, <2>1, OneRuns
  <2> QED BY <2>2, <2>3 DEF Keep
<1>4. ASSUME SetPromisc
      PROVE  /\ kernel'.link = [kernel.link EXCEPT !.promisc = dlg.link.promisc]
             /\ net_if' = net_if
  <2> DEFINE k == [kernel EXCEPT !.link.promisc = dlg.link.promisc]
  <2>1. RootExec(<< k >>, 1, Keep)
    BY <1>4 DEF SetPromisc
  <2>2. k.link = [kernel.link EXCEPT !.promisc = dlg.link.promisc]
    BY <1>0 DEF Kernels, Link
  <2> HIDE DEF k
  <2>3. kernel' = k /\ Keep
    BY <1>0, <2>1, OneRuns
  <2> QED BY <2>2, <2>3 DEF Keep
<1> QED BY <1>1, <1>2, <1>3, <1>4

\* They take no address away that keeps its place.
LEMMA LinkEntries ==
  ASSUME Typed, Opened, SetInterfaceName \/ SetMac \/ SetUp \/ SetPromisc, NEW a \in Lasting
  PROVE  EntriesAt(kernel', a) = EntriesAt(kernel, a)
<1>0. kernel \in Kernels
  BY DEF Typed
<1>1. \A x \in kernel.addrs : ~ IsSix(x.ip) => x \in kernel'.addrs
  BY LinkKeeps
<1>2. kernel'.addrs \subseteq kernel.addrs
  <2>1. CASE SetInterfaceName
    <3> DEFINE named == [Down(kernel) EXCEPT !.link.name = dlg.link.name]
    <3>1. RootExec(<< Down(kernel), named, Up(named) >>, 3, net_if' = Renamed /\ UNCHANGED text)
      BY <2>1 DEF SetInterfaceName
    <3>2. /\ Down(kernel).addrs \subseteq kernel.addrs /\ named.addrs \subseteq kernel.addrs
          /\ Up(named).addrs \subseteq kernel.addrs
      BY <1>0 DEF Up, Down, Kernels
    <3> HIDE DEF named
    <3>3. kernel' \in {kernel, Down(kernel), named, Up(named)}
      BY <3>1, ThreeRun
    <3> QED BY <3>2, <3>3
  <2>2. CASE SetMac
    <3> DEFINE set == [Down(kernel) EXCEPT !.link.mac = dlg.link.mac]
    <3>1. RootExec(<< Down(kernel), set, Up(set) >>, 3, Keep)
      BY <2>2 DEF SetMac
    <3>2. /\ Down(kernel).addrs \subseteq kernel.addrs /\ set.addrs \subseteq kernel.addrs
          /\ Up(set).addrs \subseteq kernel.addrs
      BY <1>0 DEF Up, Down, Kernels
    <3> HIDE DEF set
    <3>3. kernel' \in {kernel, Down(kernel), set, Up(set)}
      BY <3>1, ThreeRun
    <3> QED BY <3>2, <3>3
  <2>3. CASE SetUp
    <3> DEFINE k == IF dlg.link.up THEN Up(kernel) ELSE Down(kernel)
    <3>1. RootExec(<< k >>, 1, Keep)
      BY <2>3 DEF SetUp
    <3>2. k.addrs \subseteq kernel.addrs
      BY <1>0 DEF Up, Down, Kernels
    <3> HIDE DEF k
    <3>3. kernel' \in {kernel, k}
      BY <3>1, OneRuns
    <3> QED BY <3>2, <3>3
  <2>4. CASE SetPromisc
    <3> DEFINE k == [kernel EXCEPT !.link.promisc = dlg.link.promisc]
    <3>1. RootExec(<< k >>, 1, Keep)
      BY <2>4 DEF SetPromisc
    <3>2. k.addrs \subseteq kernel.addrs
      BY <1>0 DEF Kernels
    <3> HIDE DEF k
    <3>3. kernel' \in {kernel, k}
      BY <3>1, OneRuns
    <3> QED BY <3>2, <3>3
  <2> QED BY <2>1, <2>2, <2>3, <2>4
<1>3. CASE SetPromisc
  <2> DEFINE k == [kernel EXCEPT !.link.promisc = dlg.link.promisc]
  <2>1. RootExec(<< k >>, 1, Keep)
    BY <1>3 DEF SetPromisc
  <2>2. k.addrs = kernel.addrs
    BY <1>0 DEF Kernels
  <2> HIDE DEF k
  <2>3. kernel' \in {kernel, k}
    BY <2>1, OneRuns
  <2> QED BY <2>2, <2>3 DEF EntriesAt
<1>4. CASE SetInterfaceName \/ SetMac \/ SetUp
  <2>1. {NameCell, MacCell, UpCell} \cap ChangeList # {}
    BY <1>4 DEF SetInterfaceName, SetMac, SetUp, Cell1st, Opened
  <2>2. ~ IsSix(a)
    BY <2>1 DEF Lasting, Bounce
  <2> QED BY <1>1, <1>2, <2>2 DEF EntriesAt
<1> QED BY <1>3, <1>4

LEMMA LinkStep ==
  ASSUME Typed, RowsShown, Opened, Within, RowsFollow, LinkFollows, Command, ~ refused',
         SetInterfaceName \/ SetMac \/ SetUp \/ SetPromisc
  PROVE  RowsFollow' /\ LinkFollows'
<1> USE FormFixed
<1>0. /\ kernel \in Kernels /\ net_if \in Copies /\ dlg.link \in Link /\ NameFollows
      /\ kernel.link \in Link
  BY DEF Typed, Forms, Kernels, LinkFollows, NameFollows
<1>1. PICK i \in {NameCell, MacCell, UpCell, PromiscCell} : Cell1st(i)
  BY DEF SetInterfaceName, SetMac, SetUp, SetPromisc
<1>2. i \in todo /\ todo' = todo \ {i} /\ todo \subseteq ChangeList
  BY <1>1 DEF Cell1st, Opened
<1>3. \A r \in Rows : i \notin CellsOf(r)
  BY CellFacts
<1>4. \A a \in Lasting : EntriesAt(kernel', a) = EntriesAt(kernel, a)
  BY LinkEntries
<1>5. net_if'.ip = net_if.ip /\ text' = text
  BY LinkKeeps
<1>6. ASSUME NEW a \in Lasting
      PROVE  /\ Untouched(a) => Untouched(a)'
             /\ Gone(a) => Gone(a)'
             /\ \A r : Placed(r, a) => Placed(r, a)'
  BY <1>4, <1>5, CommandForm DEF Untouched, Gone, Placed
<1>7. ASSUME NEW r \in Edited PROVE RowFollows(r)'
  <2>1. r \in Rows /\ RowFollows(r) /\ CellsOf(r) \cap todo' = CellsOf(r) \cap todo
    BY <1>2, <1>3, EditedRow DEF RowsFollow
  <2>2. AllToRun(r) => AllToRun(r)'
    BY <2>1, CommandForm DEF AllToRun
  <2>3. r \in Addr => TextFollows(r)'
    BY <1>2, <1>5, <2>1 DEF RowFollows, TextFollows
  <2>4. Asked(r) # Blank /\ r \in Lasting \cup Adders => Asked(r) \in Lasting
    BY <2>1, FamilyApart
  <2>5. r \in Lasting /\ Waiting(r) => Waiting(r)'
    BY <1>5, <1>6, <2>2, <2>4 DEF Waiting, Untouched
  <2>6. r \in Lasting /\ Carried(r) => Carried(r)'
    BY <1>6, <2>4 DEF Carried, Placed
  <2>7. r \in Adders /\ Asked(r) # Blank => (ToAdd(r) => ToAdd(r)') /\ (Placed(r, Asked(r)) => Placed(r, Asked(r))')
    BY <1>6, <2>2, <2>4 DEF ToAdd, Placed, Untouched
  <2> QED BY <2>1, <2>3, <2>5, <2>6, <2>7 DEF RowFollows
<1>8. RowsFollow'
  BY <1>6, <1>7, CommandForm DEF RowsFollow
<1>9. LinkFollows'
  <2>1. /\ NameCell # MacCell /\ NameCell # UpCell /\ NameCell # PromiscCell
        /\ MacCell # UpCell /\ MacCell # PromiscCell /\ UpCell # PromiscCell
    BY DEF NameCell, MacCell, UpCell, PromiscCell
  <2> USE <1>0, <1>2, <2>1, CommandForm DEF LinkFollows, Link
  <2>2. CASE SetInterfaceName
    <3>1. /\ kernel'.link = [kernel.link EXCEPT !.name = dlg.link.name, !.up = TRUE]
          /\ net_if'.link.name = dlg.link.name
      BY <2>2, LinkEffect
    <3>2. todo' = todo \ {NameCell} /\ NameCell \in todo
      BY <2>2 DEF SetInterfaceName, Cell1st
    <3>3. Bounce
      BY <3>2 DEF Bounce
    <3> QED BY <3>1, <3>2, <3>3
  <2>3. CASE SetMac
    <3>1. kernel'.link = [kernel.link EXCEPT !.mac = dlg.link.mac, !.up = TRUE] /\ net_if' = net_if
      BY <2>3, LinkEffect
    <3>2. todo' = todo \ {MacCell} /\ MacCell \in todo
      BY <2>3 DEF SetMac, Cell1st
    <3>3. Bounce
      BY <3>2 DEF Bounce
    <3> QED BY <3>1, <3>2, <3>3
  <2>4. CASE SetUp
    <3>1. kernel'.link = [kernel.link EXCEPT !.up = dlg.link.up] /\ net_if' = net_if
      BY <2>4, LinkEffect
    <3>2. todo' = todo \ {UpCell} /\ UpCell \in todo
      BY <2>4 DEF SetUp, Cell1st
    <3>3. NameCell \notin todo /\ MacCell \notin todo
      BY <2>4 DEF SetUp, Cell1st, NameCell, MacCell, UpCell
    <3> QED BY <3>1, <3>2, <3>3
  <2>5. CASE SetPromisc
    <3>1. kernel'.link = [kernel.link EXCEPT !.promisc = dlg.link.promisc] /\ net_if' = net_if
      BY <2>5, LinkEffect
    <3>2. todo' = todo \ {PromiscCell} /\ PromiscCell \in todo
      BY <2>5 DEF SetPromisc, Cell1st
    <3> QED BY <3>1, <3>2
  <2> QED BY <2>2, <2>3, <2>4, <2>5
<1> QED BY <1>8, <1>9

-----------------------------------------------------------------------------
(***************************************************************************)
(* The invariant.                                                          *)
(***************************************************************************)

\* The dialog is committed with everything as it found it.
LEMMA OpenFollows ==
  ASSUME Typed, RowsShown, Opened, PressOk, Within
  PROVE  RowsFollow' /\ LinkFollows'
<1>1. /\ pc = "dialog" /\ kernel' = kernel /\ net_if' = net_if /\ fdc' = fdc /\ dlg' = dlg
      /\ start' = start /\ text' = text /\ todo' = ChangeList
  BY DEF PressOk, form, history
<1>2. kernel = start /\ net_if = fdc /\ text = [r \in Addr |-> {r}]
  BY <1>1 DEF Opened
<1>3. ChangeList' = ChangeList /\ \A r : New(r)' = New(r)
  BY <1>1 DEF ChangeList, Shown, New
<1>4. Edited' = Edited /\ Lasting' = Lasting /\ Bounce' = Bounce
  BY <1>3 DEF Edited, Lasting, Bounce
<1>5. \A r : AllToRun(r)' /\ Untouched(r)'
  BY <1>1, <1>2, <1>3 DEF AllToRun, Untouched
<1>6. \A r \in Addr : TextFollows(r)' /\ Waiting(r)'
  BY <1>1, <1>2, <1>5 DEF TextFollows, Waiting, Untouched, AllToRun
<1>7. \A r : ToAdd(r)'
  BY <1>1, <1>2, <1>3 DEF ToAdd, AllToRun, Untouched
<1>8. RowsFollow'
  BY <1>5, <1>6, <1>7 DEF RowsFollow, RowFollows, Lasting
<1>9. start.link = fdc.link
  BY DEF Within, Fits
<1>10. LinkFollows'
  <2>1. dlg.link \in Link /\ fdc.link \in Link
    BY DEF Typed, Forms, Copies
  <2> QED BY <1>1, <1>2, <1>3, <1>4, <1>9, <2>1, LinkCells DEF LinkFollows, Link
<1> QED BY <1>8, <1>10

LEMMA AllFollowStep ==
  ASSUME Typed, RowsShown, Opened, AllFollow, [Next]_vars
  PROVE  AllFollow'
<1>1. CASE Command
  <2>1. SUFFICES ASSUME Within' PROVE RowsFollow' /\ LinkFollows'
    BY DEF AllFollow
  <2>2. Within /\ ~ refused'
    BY <1>1, <2>1, WithinBefore
  <2>3. RowsFollow /\ LinkFollows
    BY <1>1, <2>2, CommandTodo DEF AllFollow
  <2> QED BY <1>1, <2>2, <2>3, RowStep, LinkStep DEF Command
<1>2. CASE PressOk
  <2>1. SUFFICES ASSUME Within' PROVE RowsFollow' /\ LinkFollows'
    BY DEF AllFollow
  <2>2. Within
    <3>1. fdc' = fdc /\ dlg' = dlg /\ start' = start /\ refused' = refused
      BY <1>2 DEF PressOk, form, history
    <3>2. Edited' = Edited /\ \A r : New(r)' = New(r)
      BY <3>1 DEF Edited, ChangeList, Shown, New
    <3> QED BY <2>1, <3>1, <3>2 DEF Within, Fits, FitIn, Plain, Independent
  <2> QED BY <1>2, <2>2, OpenFollows
<1>3. CASE OpenDialog \/ TypeLink \/ TypeRow \/ Cancel \/ Return
  BY <1>3 DEF OpenDialog, TypeLink, TypeRow, Type, Cancel, Return, AllFollow
<1>4. CASE UNCHANGED vars
  <2>1. /\ pc' = pc /\ kernel' = kernel /\ net_if' = net_if /\ fdc' = fdc /\ dlg' = dlg
        /\ text' = text /\ todo' = todo /\ start' = start /\ refused' = refused
    BY <1>4 DEF vars, form, history
  <2>2. ChangeList' = ChangeList
    BY <2>1 DEF ChangeList, Shown
  <2>3. /\ Within' = Within
        /\ RowsFollow' = RowsFollow
        /\ LinkFollows' = LinkFollows
    BY <2>1, <2>2 DEF Within, Fits, FitIn, Plain, Independent, Edited, New, RowsFollow, RowFollows,
       LinkFollows, Lasting, Bounce, TextFollows, Waiting, Carried, Adders, ToAdd, Placed, Same,
       AllToRun, Untouched, Gone, Asked
  <2> QED BY <2>1, <2>3 DEF AllFollow
<1> QED BY <1>1, <1>2, <1>3, <1>4 DEF Next, Command

LEMMA AllFollowAlways == Spec => [](Typed /\ NoSixBroadcast /\ RowsShown /\ Opened /\ AllFollow)
<1>1. Init => Typed /\ NoSixBroadcast /\ RowsShown /\ Opened /\ AllFollow
  <2>1. Init => Opened /\ AllFollow
    BY DEF Init, Opened, AllFollow
  <2> QED BY <2>1, Start, RowsShownStart
<1>2. Typed /\ NoSixBroadcast /\ RowsShown /\ Opened /\ AllFollow /\ [Next]_vars
        => (Typed /\ NoSixBroadcast /\ RowsShown /\ Opened /\ AllFollow)'
  BY TypeStep, NoSixStep, RowsShownStep, OpenedStep, AllFollowStep
<1> QED BY <1>1, <1>2, PTL DEF Spec

-----------------------------------------------------------------------------
(***************************************************************************)
(* What follows from it.                                                   *)
(***************************************************************************)

\* The copy and the kernel have the same of address a.
Agree(a) == IF net_if.ip[a] = Blank THEN EntriesAt(kernel, a) = {}
            ELSE { x.bits : x \in EntriesAt(kernel, a) } = {net_if.ip[a].bits}

LEMMA FitAgrees == ASSUME NEW a, Fit(a) \/ Gone(a) PROVE Agree(a)
<1>1. CASE Fit(a)
  <2>1. { x.bits : x \in EntriesAt(kernel, a) } = {net_if.ip[a].bits}
    BY <1>1 DEF Fit
  <2> QED BY <1>1, <2>1 DEF Agree, Fit
<1>2. CASE Gone(a)
  BY <1>2 DEF Agree, Gone
<1> QED BY <1>1, <1>2

LEMMA UntouchedAgrees == ASSUME Typed, Within, NEW a \in Addr, Untouched(a) PROVE Agree(a)
<1>1. CASE fdc.ip[a] = Blank
  <2>1. Gone(a)
    BY <1>1, ShownThere DEF Untouched, Gone
  <2> QED BY <2>1, FitAgrees
<1>2. CASE fdc.ip[a] # Blank
  <2>1. Fit(a)
    BY <1>2, ShownThere DEF Untouched, Fit
  <2> QED BY <2>1, FitAgrees
<1> QED BY <1>1, <1>2

LEMMA AllAgree ==
  ASSUME Typed, RowsShown, Within, RowsFollow, NEW a \in Lasting
  PROVE  Agree(a)
<1>0. a \in Addr
  BY DEF Lasting
<1>1. CASE a \in Edited
  <2>1. Waiting(a) \/ Carried(a)
    BY <1>1 DEF RowsFollow, RowFollows
  <2>2. CASE Waiting(a)
    BY <1>0, <1>1, <2>2, WaitingFits, FitAgrees
  <2>3. CASE Carried(a) /\ Asked(a) = a
    <3>1. a # Blank /\ a \in Rows
      BY <1>0, RowFacts, BlankAssumption
    <3>2. Placed(a, a)
      BY <2>3, <3>1 DEF Carried
    <3> QED BY <1>0, <3>1, <3>2, PlacedFits, FitAgrees
  <2>4. CASE Carried(a) /\ Asked(a) # a
    BY <2>4, FitAgrees DEF Carried
  <2> QED BY <2>1, <2>2, <2>3, <2>4
<1>2. ASSUME a \notin Edited, NEW r \in Edited, Asked(r) = a PROVE Agree(a)
  <2>1. r \in Rows /\ Asked(r) # Blank
    BY <1>0, <1>2, EditedRow, RowFacts, BlankAssumption
  <2>2. r \in Lasting \cup Adders /\ r # a
    BY <1>2, <2>1, FamilyApart
  <2>3. Untouched(a) \/ Placed(r, a)
    BY <1>2, <2>1, <2>2 DEF RowsFollow, RowFollows, Waiting, Carried, ToAdd
  <2> QED BY <1>0, <2>1, <2>3, UntouchedAgrees, PlacedFits, FitAgrees
<1>3. CASE a \notin Edited /\ \A r \in Edited : Asked(r) # a
  <2>1. Untouched(a)
    BY <1>3 DEF RowsFollow
  <2> QED BY <1>0, <2>1, UntouchedAgrees
<1> QED BY <1>1, <1>2, <1>3

LEMMA LinkTakesEffect ==
  ASSUME Typed, Within, LinkFollows, todo = {}, Bounce => start.link.up \/ dlg.link.up
  PROVE  kernel.link = dlg.link
<1>1. kernel.link \in Link /\ dlg.link \in Link /\ start.link \in Link /\ start.link = fdc.link
  BY DEF Typed, Forms, Kernels, Within, Fits
<1>2. /\ kernel.link.name = dlg.link.name /\ kernel.link.mac = dlg.link.mac
      /\ kernel.link.promisc = dlg.link.promisc
  BY DEF LinkFollows
<1>3. kernel.link.up = dlg.link.up
  <2>1. CASE UpCell \in ChangeList
    BY <2>1 DEF LinkFollows
  <2>2. CASE UpCell \notin ChangeList
    <3>1. dlg.link.up = start.link.up
      BY <1>1, <2>2, LinkCells
    <3> QED BY <1>1, <2>2, <3>1 DEF LinkFollows, Link
  <2> QED BY <2>1, <2>2
<1> QED BY <1>1, <1>2, <1>3 DEF Link

LEMMA RowTakesEffect ==
  ASSUME Typed, RowsShown, Within, RowsFollow, Accurate(fdc, start), todo = {},
         NEW r \in Edited, r \in Lasting \cup Adders
  PROVE  /\ Asked(r) # Blank => New(r) \in kernel.addrs
         /\ r \in Addr => \A x \in kernel.addrs : x.ip = r => x = New(r)
<1>1. ~ AllToRun(r)
  BY DEF Edited, AllToRun
<1>2. r \in Rows /\ r # Blank
  BY EditedRow, RowFacts, BlankAssumption
<1>3. CASE r \in Lasting /\ Waiting(r)
  <2>1. r \in Addr /\ Asked(r) = r /\ fdc.ip[r] = [bits |-> New(r).bits, bc |-> New(r).bc]
    BY <1>1, <1>3 DEF Waiting, Same, Lasting
  <2>2. Fit(r) /\ fdc.ip[r] # Blank
    BY <1>3, <2>1, WaitingFits DEF Fit, Waiting, Untouched
  <2>3. EntriesAt(kernel, r) = EntriesAt(start, r)
    BY <1>3 DEF Waiting, Untouched
  <2>4. { x.bc : x \in EntriesAt(start, r) } = {New(r).bc}
    BY <2>1, <2>2 DEF Accurate, EntriesAt
  <2>5. ASSUME NEW x \in EntriesAt(kernel, r) PROVE x = New(r)
    <3>1. x \in Address /\ x.ip = r
      BY DEF EntriesAt, Typed, Kernels
    <3>2. x.bits = New(r).bits
      BY <2>1, <2>3, ShownThere
    <3>3. x.bc = New(r).bc
      BY <2>3, <2>4
    <3>4. New(r).ip = r /\ New(r) \in Address
      BY <1>2, <2>1, NewType DEF Asked
    <3> QED BY <3>1, <3>2, <3>3, <3>4 DEF Address
  <2>6. EntriesAt(kernel, r) # {}
    BY <2>2 DEF Fit
  <2> QED BY <2>5, <2>6 DEF EntriesAt
<1>4. CASE r \in Lasting /\ Carried(r)
  <2>1. Asked(r) # Blank => EntriesAt(kernel, Asked(r)) = {New(r)}
    BY <1>4 DEF Carried, Placed
  <2>2. Asked(r) # r => EntriesAt(kernel, r) = {}
    BY <1>4 DEF Carried, Gone
  <2>3. EntriesAt(kernel, r) \subseteq {New(r)}
    BY <1>2, <2>1, <2>2
  <2> QED BY <2>1, <2>3 DEF EntriesAt
<1>5. CASE r \in Adders
  <2>1. r \notin Addr
    BY <1>5 DEF Adders, Addr
  <2>2. Asked(r) # Blank => EntriesAt(kernel, Asked(r)) = {New(r)}
    BY <1>1, <1>5 DEF RowsFollow, RowFollows, ToAdd, Placed
  <2> QED BY <2>1, <2>2 DEF EntriesAt
<1> QED BY <1>3, <1>4, <1>5 DEF RowsFollow, RowFollows

\* While the commands of a dialog are run the copy has the addresses and prefixes that
\* the kernel has, for any number of cells: each command leaves the copy, and the text
\* its row reads the address from, as the next one needs them.  The limits are those of
\* the property: no prefix that a mask loses, no address that two rows have, and no
\* command refused.
THEOREM CopyAlwaysFollows == Spec => []CopyFollows
<1>1. Typed /\ RowsShown /\ AllFollow => CopyFollows
  <2>1. SUFFICES ASSUME Typed, RowsShown, AllFollow, pc = "commands", Within
                 PROVE  FitIn(Lasting, net_if, kernel)
    BY DEF CopyFollows, Within
  <2>2. \A a \in Lasting : Agree(a)
    BY <2>1, AllAgree DEF AllFollow
  <2> QED BY <2>2 DEF FitIn, Agree, EntriesAt
<1> QED BY <1>1, AllFollowAlways, PTL

\* When EditInterface has run every command and none was refused, the interface is what
\* the dialog showed, for any number of cells: within the limits of the property, which
\* add that the copy was accurate and the link not left down by a new name or MAC.
THEOREM EditAlwaysTakesEffect == Spec => []EditTakesEffect
<1>1. Typed /\ RowsShown /\ AllFollow => EditTakesEffect
  <2>1. SUFFICES ASSUME Typed, RowsShown, AllFollow, Done, Within, Accurate(fdc, start),
                        Bounce => start.link.up \/ dlg.link.up
                 PROVE  /\ kernel.link = dlg.link
                        /\ \A r \in Edited : r \in Lasting \cup Adders =>
                             /\ Asked(r) # Blank => New(r) \in kernel.addrs
                             /\ r \in Addr => \A x \in kernel.addrs : x.ip = r => x = New(r)
    BY DEF EditTakesEffect, Within, Asked, Adders
  <2>2. RowsFollow /\ LinkFollows /\ todo = {}
    BY <2>1 DEF AllFollow, Done
  <2> QED BY <2>1, <2>2, LinkTakesEffect, RowTakesEffect
<1> QED BY <1>1, AllFollowAlways, PTL
=============================================================================
