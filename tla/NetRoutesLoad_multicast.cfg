SPECIFICATION Spec
CONSTANTS
  r4 = r4
  r6 = r6
  n1 = n1
  p1 = p1
  u1 = u1
  m1 = m1
  first = first
  second = second
  None = None
  Obj = {r4}
  Class <- MCClass
  Proxy <- MCProxy
  Oif <- MCOif
  Index = {first, second}
  Name = {"eth0"}
  Alien = {m1}
  Switches = {"ipv6_forwarding"}
  MaxEvents = 0
PROPERTIES
  LoadEnds
