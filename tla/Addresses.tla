------------------------------ MODULE Addresses ------------------------------
(* The addresses of the clients: which one a new client gets, and how all of *)
(* them move when an administrator changes the range of the interface.  An   *)
(* address is a number, a range (CIDR) the numbers from its network address  *)
(* to its broadcast address.  IPv4 and IPv6 are treated alike; one is here.  *)
EXTENDS Integers, FiniteSets

Cidr == [start : Nat \ {0}, end : Nat]

\* The addresses of a range, and those nextIP gives away: not the network, the
\* server or the broadcast address.
Within(r)   == r.start .. r.end
Gives(r)    == (r.start + 2) .. (r.end - 1)
Free(r, T)  == Gives(r) \ T
nextIP(r, T) == CHOOSE i \in Free(r, T) : \A j \in Free(r, T) : i <= j

\* updateCidr moves the rows R one after the other, in the order of their ids:
\* when c moves, those before it have their new addresses, it and those behind
\* it the old ones, and all of them count as taken.
\* Mutant: the clients are read once, before the loop.
ReadOnce(R, old, new, c)  == {old[d] : d \in R}
TakenFor(R, old, new, c)  == {IF d < c THEN new[d] ELSE old[d] : d \in R}

\* The outcome of the loop: the only function of this kind, or none when some
\* client finds the range full and the transaction is rolled back.
Moves(r, R, old) ==
  {new \in [R -> Gives(r)] :
     \A c \in R : LET T == TakenFor(R, old, new, c)
                  IN Free(r, T) # {} /\ new[c] = nextIP(r, T)}

\* addr is UNIQUE in the table of the clients.
Unique(R, addr) == \A c, d \in R : addr[c] = addr[d] => c = d
=============================================================================
