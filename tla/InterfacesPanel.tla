--------------------------- MODULE InterfacesPanel ---------------------------
(***************************************************************************)
(* netcfginterfaces.cpp and netifs.cpp: the panel of interfaces, the store *)
(* it lists, and the captures started from it.  What F4's dialog does to   *)
(* an interface is InterfaceEdit's; here it succeeds in something or not.  *)
(***************************************************************************)
EXTENDS Naturals, FiniteSets, Sequences, SequencesExt, Functions

CONSTANTS
  Names,       \* names of interfaces
  Longer,      \* Longer[n]: the names that begin with n, n among them
  Short,       \* names whose text is kept inside a string: up to three characters
  MaxCaptures  \* bound: entries of the list of captures

ASSUME InterfacesAssumption ==
  /\ Longer \in [Names -> SUBSET Names] /\ \A n \in Names : n \in Longer[n]
  /\ Short \subseteq Names /\ MaxCaptures \in Nat

VARIABLES
  net,      \* the kernel's interfaces, each with its promiscuous flag
  running,  \* interfaces with a tcpdump process
  nifs,     \* the store, as net
  change,   \* a reload is due
  tcpdump,  \* captures the panel knows of
  behind,   \* history: a command, or a load that failed, since the last load that did not
  lost,     \* history: a key took a due reload back, and none was tried since
  outer,    \* history: others changed the interfaces since the last load
  asked,    \* history: the promiscuous flag the last capture asked for
  refused,  \* history: interfaces whose last capture could not set it
  strayed   \* history: captures that were given up while they ran

kernelVars == << net, running >>
panelVars  == << nifs, change, tcpdump >>
history    == << behind, lost, outer, asked, refused, strayed >>
ifaceVars  == << kernelVars, panelVars, history >>

Stores == UNION {[S -> BOOLEAN] : S \in SUBSET Names}

-----------------------------------------------------------------------------
(***************************************************************************)
(* Update.  Each outcome is [ok, ifs].  The dump of links may have lost    *)
(* records (NetlinkDump), the dump of addresses may fail after the links   *)
(* were stored, and no links at all are taken for a failure.               *)
(***************************************************************************)

\* The links that were dumped, each stored with its flags under its name.
Linked(k) == {Restrict(k, S) : S \in SUBSET DOMAIN k}

UpdateByNetlink(k) ==
  {[ok |-> FALSE, ifs |-> << >>]}
    \cup {[ok |-> ok, ifs |-> l] : ok \in BOOLEAN, l \in Linked(k) \ {<< >>}}

\* getifaddrs: a failure leaves what is stored.
UpdateByProcNet(k, stored) == {[ok |-> FALSE, ifs |-> stored], [ok |-> TRUE, ifs |-> k]}

Update(k) == UNION {IF u.ok THEN {u} ELSE UpdateByProcNet(k, u.ifs) : u \in UpdateByNetlink(k)}

-----------------------------------------------------------------------------
(***************************************************************************)
(* What a key leaves behind.                                               *)
(***************************************************************************)

\* Slip: a reload is done with, whether it failed or not.
Slip_GetFindData(due, dirty, other) ==
  \E u \in IF due THEN Update(net') ELSE {[ok |-> FALSE, ifs |-> nifs]} :
    /\ nifs' = u.ifs
    /\ change' = FALSE
    /\ behind' = (dirty \/ due) /\ ~u.ok
    /\ outer' = (other /\ ~u.ok)
    /\ lost' = (lost /\ ~due)

GetFindData(due, dirty, other) ==
  \E u \in IF due THEN Update(net') ELSE {[ok |-> FALSE, ifs |-> nifs]} :
    /\ nifs' = u.ifs
    /\ change' = (due /\ ~u.ok)
    /\ behind' = ((dirty \/ due) /\ ~u.ok)
    /\ outer' = (other /\ ~u.ok)
    /\ lost' = (lost /\ ~due)

\* redraw = change = FALSE.
NoRedraw == /\ change' = FALSE
            /\ lost' = (lost \/ change)
            /\ UNCHANGED << nifs, behind, outer >>

-----------------------------------------------------------------------------
(***************************************************************************)
(* The keys.                                                               *)
(***************************************************************************)

Reread ==
  /\ UNCHANGED << kernelVars, tcpdump, asked, refused, strayed >>
  /\ GetFindData(TRUE, behind, outer)

\* EditInterface: a command succeeded, or nothing came of the dialog.
EditInterface(n) ==
  /\ n \in DOMAIN nifs
  /\ UNCHANGED << running, tcpdump, refused, strayed >>
  /\ \/ UNCHANGED << net, asked >> /\ NoRedraw
     \/ /\ n \in DOMAIN net
        /\ \E on \in BOOLEAN :
             /\ net' = [net EXCEPT ![n] = on]
             /\ asked' = IF on = net[n] THEN asked ELSE [asked EXCEPT ![n] = {}]
        /\ GetFindData(TRUE, TRUE, outer)

\* SetPromisc(on) of the stored interface: the kernel's flags, and whether its
\* command failed.  It is left out when the store has the flag.
SetPromisc(n, on) ==
  IF nifs[n] = on THEN {[now |-> net, failed |-> FALSE]}
  ELSE {[now |-> net, failed |-> TRUE]}
         \cup {[now |-> [net EXCEPT ![n] = on], failed |-> FALSE] : m \in {n} \cap DOMAIN net}

\* TcpDumpStart.  Nobody looks at what becomes of the flag; what was asked is known
\* unless the command was left out for a store that others have made stale.  The
\* command of tcpdump goes to the background: it is a success whatever becomes of
\* tcpdump, unless no command may be run.
TcpDumpStart(n, on) ==
  \E p \in SetPromisc(n, on) :
    /\ net' = p.now
    /\ asked' = [asked EXCEPT ![n] = IF nifs[n] = on /\ outer THEN {} ELSE {on}]
    /\ refused' = IF p.failed THEN refused \cup {n} ELSE refused \ {n}
    /\ \/ UNCHANGED << tcpdump, running, strayed >>
       \/ /\ Len(tcpdump) < MaxCaptures
          /\ tcpdump' = Append(tcpdump, n)
          /\ running' \in {running} \cup {running \cup {n} : m \in {n} \cap DOMAIN net}
          /\ strayed' = strayed

\* Slip: nothing is reread after a capture was started.
Slip_TcpdumpInterface(n) ==
  /\ n \in DOMAIN nifs
  /\ \/ UNCHANGED << kernelVars, tcpdump, asked, refused, strayed >>
     \/ \E m \in DOMAIN nifs, on \in BOOLEAN : TcpDumpStart(m, on)
  /\ NoRedraw

\* TcpdumpInterface: always TRUE, with another interface chosen in the dialog
\* or the dialog left.
TcpdumpInterface(n) ==
  /\ n \in DOMAIN nifs
  /\ \/ UNCHANGED << kernelVars, tcpdump, asked, refused, strayed >>
     \/ \E m \in DOMAIN nifs, on \in BOOLEAN : TcpDumpStart(m, on)
  /\ GetFindData(TRUE, TRUE, outer)

\* The list without some entries: the others keep their order.
Without(s, gone) ==
  LET left   == DOMAIN s \ gone
      rising == {f \in Bijection(1 .. Cardinality(left), left) :
                   \A i, j \in DOMAIN f : i < j => f[i] < f[j]}
  IN  {[i \in DOMAIN f |-> s[f[i]]] : f \in rising}

\* TcpDumpStop, of entry k of the list.  The first entry of that name goes, and
\* with it the text the next ones are compared with: of those with the same name
\* any may go, and where the text of a short name was the entry that moved up is
\* now, so that any may.  Each that goes is killed under its name, whatever comes
\* of that, with every capture whose interface begins with it.
TcpDumpStop(k) ==
  LET n     == tcpdump[k]
      first == CHOOSE i \in DOMAIN tcpdump :
                 tcpdump[i] = n /\ \A j \in DOMAIN tcpdump : tcpdump[j] = n => i =< j
      next  == {i \in DOMAIN tcpdump : i > first /\ (n \in Short \/ tcpdump[i] = n)}
  IN  \E rest \in SUBSET next :
        LET gone == {tcpdump[i] : i \in {first} \cup rest}
        IN  \E killed \in SUBSET gone :
              /\ tcpdump' \in Without(tcpdump, {first} \cup rest)
              /\ running' = running \ UNION {Longer[m] : m \in killed}
              /\ strayed' = strayed \cup ((gone \ killed) \cap running)

\* TcpdumpStop: always FALSE.
StopCapture ==
  /\ UNCHANGED << net, asked, refused >>
  /\ \/ UNCHANGED << tcpdump, running, strayed >>
     \/ \E k \in DOMAIN tcpdump : TcpDumpStop(k)
  /\ NoRedraw

-----------------------------------------------------------------------------
(***************************************************************************)
(* Other programs.                                                         *)
(***************************************************************************)

Appear(n) == /\ n \notin DOMAIN net
             /\ net' = [m \in DOMAIN net \cup {n} |-> IF m = n THEN FALSE ELSE net[m]]
             /\ UNCHANGED running

Disappear(n) == /\ n \in DOMAIN net
                /\ net' = Restrict(net, DOMAIN net \ {n})
                /\ running' = running \ {n}

Switch(n) == n \in DOMAIN net /\ net' = [net EXCEPT ![n] = ~@] /\ UNCHANGED running

EndCapture(n) == n \in running /\ running' = running \ {n} /\ UNCHANGED net

Event(n) ==
  /\ Appear(n) \/ Disappear(n) \/ Switch(n) \/ EndCapture(n)
  /\ outer' = (outer \/ net' # net)
  /\ asked' = IF net' = net THEN asked ELSE [asked EXCEPT ![n] = {}]
  /\ UNCHANGED << panelVars, behind, lost, refused, strayed >>

-----------------------------------------------------------------------------
\* NetcfgInterfaces(), when the host has started the plugin; and what is left of
\* it when the plugin ends.
NewPanel ==
  /\ nifs' = << >> /\ change' = TRUE /\ tcpdump' = << >>
  /\ behind' = FALSE /\ lost' = FALSE /\ outer' = FALSE
  /\ asked' = [n \in Names |-> {}] /\ refused' = {}
  /\ strayed' = running

IfaceInit ==
  /\ net \in UNION {[S -> {FALSE}] : S \in SUBSET Names} /\ running = {}
  /\ nifs = << >> /\ change = TRUE /\ tcpdump = << >>
  /\ behind = FALSE /\ lost = FALSE /\ outer = FALSE
  /\ asked = [n \in Names |-> {}] /\ refused = {} /\ strayed = {}
=============================================================================
