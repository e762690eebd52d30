--------------------------- MODULE RecoveryTickets ---------------------------
(***************************************************************************)
(* The recovery tickets of src/server.ts: issued for an address, which     *)
(* uses up the earlier ones of that address, valid for a quarter of an     *)
(* hour, redeemed by a request of their own, and kept in memory.           *)
(***************************************************************************)
EXTENDS Integers, Sequences

CONSTANTS
    Emails,     \* addresses of users
    MaxTickets  \* bound: tickets issued

ASSUME TicketAssumption == MaxTickets \in Nat

VARIABLES
    tickets,  \* every ticket issued, in order
    known     \* those of this run of the server: the map in its memory

ticketVars == <<tickets, known>>

Ticket == [email : Emails, used : BOOLEAN, expired : BOOLEAN, verified : Nat]

TicketTypeOK ==
    /\ tickets \in Seq(Ticket)
    /\ known \subseteq 1..Len(tickets)

TicketInit == tickets = <<>> /\ known = {}

-----------------------------------------------------------------------------
(* Mutant: only an earlier ticket that has expired is used up. *)
SpentByExpired(email, n) == n \in known /\ tickets[n].email = email /\ tickets[n].expired

(* An unknown address gets the same answer and no ticket. *)
SpentBy(email, n) == n \in known /\ tickets[n].email = email

IssueTicket(email) ==
    /\ Len(tickets) < MaxTickets
    /\ tickets' = Append([n \in 1..Len(tickets) |->
                              IF SpentBy(email, n) THEN [tickets[n] EXCEPT !.used = TRUE]
                              ELSE tickets[n]],
                         [email |-> email, used |-> FALSE, expired |-> FALSE, verified |-> 0])
    /\ known' = known \cup {Len(tickets) + 1}

(* An unknown or used ticket is refused; an expired one is used up. *)
VerifyTicket(n) ==
    /\ n \in known
    /\ ~tickets[n].used
    /\ tickets' = [tickets EXCEPT
           ![n].used = TRUE,
           ![n].verified = IF tickets[n].expired THEN @ ELSE @ + 1]
    /\ UNCHANGED known

ExpireTicket(n) ==
    /\ tickets' = [tickets EXCEPT ![n].expired = TRUE]
    /\ UNCHANGED known

RestartServer == known' = {} /\ UNCHANGED tickets

TicketNext ==
    \/ \E email \in Emails : IssueTicket(email)
    \/ \E n \in 1..Len(tickets) : VerifyTicket(n)
    \/ \E n \in 1..Len(tickets) : ExpireTicket(n)
    \/ RestartServer

TicketSpec == TicketInit /\ [][TicketNext]_ticketVars

-----------------------------------------------------------------------------
(* A ticket is redeemed at most once, and an address has at most one that  *)
(* still can be: the newest of this run of the server, however requests    *)
(* for new ones and redemptions of older ones interleave ('Single-use      *)
(* redemption of recovery ticket', server.ts).                             *)
Redeemable(n) == n \in known /\ ~tickets[n].used

TicketsInv ==
    /\ \A n \in 1..Len(tickets) :
           /\ tickets[n].verified <= 1
           /\ Redeemable(n) => tickets[n].verified = 0
    /\ \A m, n \in 1..Len(tickets) :
           m < n /\ n \in known /\ tickets[m].email = tickets[n].email => ~Redeemable(m)
=============================================================================
