----------------------------- MODULE SeatsProofs -----------------------------
(***************************************************************************)
(* No seat is on two valid tickets, and a seat is sold exactly as long as  *)
(* a valid ticket is for it: for every set of seats, carts and box-office  *)
(* sales, and whatever happens between the reads and the writes.           *)
(*                                                                         *)
(* The sold seats and the valid tickets agree.  Only the fulfilment and    *)
(* the cancellation touch either; every other step is quiet.               *)
(*                                                                         *)
(* And, until a fault happens: seats and hold of a cart live and die       *)
(* together, an order has all of its seats, and nobody loses seats that    *)
(* have not lapsed.                                                        *)
(***************************************************************************)
EXTENDS SeatsProps, FiniteSetTheorems, TLAPS

\* The tickets' seats are sold to the ticket's order, and the sold seats are on a ticket of
\* the order they are sold to.
SeatsAgree ==
    /\ \A s \in Sales : Minted(s) =>
         \A x \in ticket[s] : seat[x].status = "sold" /\ seat[x].sold = s
    /\ \A x \in Seats : seat[x].status = "sold" =>
         seat[x].sold \in Sales /\ Minted(seat[x].sold) /\ x \in ticket[seat[x].sold]

\* Seats stay sold to whom they are sold, and no other seat is sold.
SeatsQuiet ==
    \A x \in Seats :
        \/ seat'[x].status = seat[x].status /\ seat'[x].sold = seat[x].sold
        \/ seat[x].status # "sold" /\ seat'[x].status # "sold"

\* No order is minted or cancelled, and the tickets of minted orders stay.
SalesQuiet ==
    \A s \in Sales : /\ Minted(s)' <=> Minted(s)
                     /\ Minted(s) => ticket'[s] = ticket[s]

-----------------------------------------------------------------------------
(* The operators. *)

\* A freed seat is a seat, and it is not sold.
LEMMA FreeType ==
  ASSUME NEW r \in Seat
  PROVE  /\ Free(r) \in Seat
         /\ Free(r).status = "available"
  BY Zenon DEF Free, Seat, Status

\* Freed touches held seats only.
LEMMA FreedType ==
  ASSUME TypeOK, NEW xs
  PROVE  /\ Freed(xs) \in [Seats -> Seat]
         /\ \A x \in Seats : \/ Freed(xs)[x] = seat[x]
                             \/ Held(x) /\ Freed(xs)[x].status = "available"
<1>1. seat \in [Seats -> Seat]
  BY DEF TypeOK
<1>2. \A x \in Seats : seat[x] \in Seat
  BY <1>1
<1> QED
  BY <1>2, FreeType DEF Freed

\* The same of seats that are freed, whatever set they are.
LEMMA FreedQuiet ==
  ASSUME TypeOK, NEW xs, seat' = Freed(xs)
  PROVE  seat' \in [Seats -> Seat] /\ SeatsQuiet
  BY FreedType DEF SeatsQuiet, Held

\* A released hold leaves everything else of the sale.
LEMMA ReleaseType ==
  ASSUME NEW r \in Sale
  PROVE  /\ Release(r) \in Sale
         /\ Release(r).state = r.state
         /\ Release(r).qty = r.qty
  BY Zenon DEF Release, Sale

\* The losers keep their state.
LEMMA UnholdType ==
  ASSUME TypeOK, NEW cs
  PROVE  /\ Unhold(cs) \in [Sales -> Sale]
         /\ \A s \in Sales : /\ Unhold(cs)[s].state = sale[s].state
                             /\ Unhold(cs)[s].qty = sale[s].qty
                             /\ Unhold(cs)[s] \in Sale
<1>1. \A s \in Sales : sale[s] \in Sale
  BY DEF TypeOK
<1> QED
  BY <1>1, ReleaseType DEF Unhold

\* A claim holds seats that were not sold.
LEMMA ClaimType ==
  ASSUME TypeOK, NEW xs, NEW o \in Carts \cup {None}, Claim(xs, o)
  PROVE  seat' \in [Seats -> Seat] /\ SeatsQuiet
<1> DEFINE Taken(x) == [Free(seat[x]) EXCEPT !.status = "held", !.owner = o]
<1>1. \A x \in Seats : seat[x] \in Seat /\ Free(seat[x]) \in Seat
  BY FreeType DEF TypeOK
<1>2. \A x \in Seats : Taken(x) \in Seat /\ Taken(x).status = "held"
  BY <1>1, Zenon DEF Seat, Status
<1> HIDE DEF Taken
<1>3. seat' = [x \in Seats |-> IF x \in xs THEN Taken(x) ELSE Reclaimed(xs)[x]]
  BY DEF Claim, Taken
<1>4. \A x \in xs : seat[x].status # "sold"
  BY DEF Claim, Bookable, Lapsed, Held
<1>5. /\ Reclaimed(xs) \in [Seats -> Seat]
      /\ \A x \in Seats : \/ Reclaimed(xs)[x] = seat[x]
                          \/ Held(x) /\ Reclaimed(xs)[x].status = "available"
  BY FreedType DEF Reclaimed
<1> QED
  BY <1>2, <1>3, <1>4, <1>5 DEF SeatsQuiet, Held

\* Finite sets have a size; so does every set of seats.
LEMMA SizeIsNat ==
  ASSUME NEW xs \in SUBSET Seats
  PROVE  Cardinality(xs) \in Nat
  BY ConstantsAssumption, FS_Subset, FS_CardinalityType

\* What a quiet step keeps.
LEMMA QuietAgrees ==
  ASSUME TypeOK, TypeOK', SeatsAgree, SeatsQuiet, SalesQuiet
  PROVE  SeatsAgree'
<1> USE DEF Minted
<1>1. ASSUME NEW s \in Sales, Minted(s)', NEW x \in ticket'[s]
      PROVE  seat'[x].status = "sold" /\ seat'[x].sold = s
  <2>1. Minted(s) /\ x \in ticket[s]
    BY <1>1 DEF SalesQuiet
  <2>2. seat[x].status = "sold" /\ seat[x].sold = s /\ x \in Seats
    BY <2>1 DEF SeatsAgree, TypeOK
  <2> QED
    BY <2>2 DEF SeatsQuiet
<1>2. ASSUME NEW x \in Seats, seat'[x].status = "sold"
      PROVE  seat'[x].sold \in Sales /\ sale'[seat'[x].sold].state = "fulfilled"
             /\ x \in ticket'[seat'[x].sold]
  <2>1. seat[x].status = "sold" /\ seat'[x].sold = seat[x].sold
    BY <1>2 DEF SeatsQuiet
  <2>2. seat[x].sold \in Sales /\ Minted(seat[x].sold) /\ x \in ticket[seat[x].sold]
    BY <2>1 DEF SeatsAgree
  <2> QED
    BY <2>1, <2>2 DEF SalesQuiet
<1> QED
  BY <1>1, <1>2 DEF SeatsAgree


-----------------------------------------------------------------------------
(* The steps that are quiet, one lemma each. *)

\* Counting faults, a step stays within those that are allowed.
LEMMA StepType ==
  ASSUME TypeOK, NEW me, NEW fs, Step(me, fs)
  PROVE  faults' \subseteq Allow
  BY DEF TypeOK, Step

\* Sales whose records change without becoming or ceasing to be minted.
LEMMA SalesStay ==
  ASSUME UNCHANGED ticket,
         \A s \in Sales : sale'[s].state = "fulfilled" <=> sale[s].state = "fulfilled"
  PROVE  SalesQuiet
  BY DEF SalesQuiet, Minted

LEMMA PickStep ==
  ASSUME TypeOK, NEW c \in Carts, NEW xs \in SUBSET Seats, Pick(c, xs)
  PROVE  TypeOK' /\ SeatsQuiet /\ SalesQuiet
<1> DEFINE U == Unhold(Losers(xs))
           r == [U[c] EXCEPT !.qty = sale[c].qty + Cardinality(xs), !.lapsed = FALSE,
                             !.hold = IF c \in Losers(xs) THEN "gone" ELSE "held"]
<1>1. U \in [Sales -> Sale] /\ \A s \in Sales : U[s].state = sale[s].state /\ U[s].qty = sale[s].qty
  BY UnholdType
<1>2. c \in Sales /\ U[c] \in Sale
  BY <1>1 DEF Sales
<1>3. sale[c].qty + Cardinality(xs) \in 0..MaxQty
  <2>1. sale[c].qty \in Nat /\ Cardinality(xs) \in Nat /\ MaxQty \in Nat
    BY <1>2, SizeIsNat, ConstantsAssumption DEF Sale, TypeOK
  <2>2. sale[c].qty + Cardinality(xs) <= MaxQty
    BY DEF Pick
  <2> QED
    BY <2>1, <2>2
<1>4. r \in Sale /\ r.state = U[c].state
  BY <1>2, <1>3, Zenon DEF Sale
<1>5. sale' = [U EXCEPT ![c] = r]
  BY DEF Pick
<1> HIDE DEF r, U
<1>6. sale' \in [Sales -> Sale] /\ \A s \in Sales : sale'[s].state = sale[s].state
  BY <1>1, <1>2, <1>4, <1>5
<1>7. seat' \in [Seats -> Seat] /\ SeatsQuiet
  BY ClaimType DEF Pick
<1>8. SalesQuiet
  BY <1>6, SalesStay DEF Pick
<1> QED
  BY <1>6, <1>7, <1>8, StepType DEF Pick, TypeOK

LEMMA SellStep ==
  ASSUME TypeOK, NEW t \in Taps, NEW xs \in SUBSET Seats, NEW state \in {"pending", "paid"},
         Sell(t, xs, state)
  PROVE  TypeOK' /\ SeatsQuiet /\ SalesQuiet
<1> DEFINE U == Unhold(Losers(xs))
           r == [state |-> state, qty |-> 0, ordered |-> Cardinality(xs),
                 hold |-> IF state = "paid" THEN "none" ELSE "held", lapsed |-> FALSE]
<1>1. U \in [Sales -> Sale] /\ \A s \in Sales : U[s].state = sale[s].state
  BY UnholdType
<1>2. Cardinality(xs) \in 0..MaxQty /\ 0 \in 0..MaxQty
  BY SizeIsNat, ConstantsAssumption DEF Sell
<1>3. r \in Sale /\ r.state # "fulfilled"
  BY <1>2 DEF Sale, State
<1>4. sale' = [U EXCEPT ![t] = r] /\ sale[t].state # "fulfilled" /\ t \in Sales
  BY DEF Sell, Sales
<1> HIDE DEF r, U
<1>5. sale' \in [Sales -> Sale]
      /\ \A s \in Sales : sale'[s].state = "fulfilled" <=> sale[s].state = "fulfilled"
  BY <1>1, <1>3, <1>4
<1>6. seat' \in [Seats -> Seat] /\ SeatsQuiet
  BY ClaimType DEF Sell
<1>7. SalesQuiet
  BY <1>5, SalesStay DEF Sell
<1>8. want' \in [Taps -> SUBSET Seats]
  BY DEF Sell, TypeOK
<1> QED
  BY <1>5, <1>6, <1>7, <1>8, StepType DEF Sell, TypeOK

LEMMA EmptyStep ==
  ASSUME TypeOK, NEW c \in Carts, Empty(c)
  PROVE  TypeOK' /\ SeatsQuiet /\ SalesQuiet
<1> DEFINE r == [state |-> "open", qty |-> 0, ordered |-> 0, hold |-> "none", lapsed |-> FALSE]
<1>1. r \in Sale /\ r.state = "open"
  BY ConstantsAssumption DEF Sale, State
<1>2. sale' = [sale EXCEPT ![c] = r] /\ sale[c].state = "open" /\ c \in Sales
  BY DEF Empty, Sales
<1> HIDE DEF r
<1>3. sale' \in [Sales -> Sale] /\ \A s \in Sales : sale'[s].state = sale[s].state
  BY <1>1, <1>2 DEF TypeOK
<1>4. SalesQuiet
  BY <1>3, SalesStay DEF Empty
<1> QED
  BY <1>3, <1>4, FreedQuiet, StepType DEF Empty, TypeOK

LEMMA ScrubReadStep ==
  ASSUME TypeOK, NEW c \in Carts, ScrubRead(c)
  PROVE  TypeOK' /\ SeatsQuiet /\ SalesQuiet
<1>1. Valid(c) \in SUBSET Seats
  BY DEF Valid, Owned
<1>2. scrub' \in [Carts -> {None} \cup SUBSET Seats]
  BY <1>1 DEF ScrubRead, TypeOK
<1>3. SalesQuiet /\ SeatsQuiet
  BY SalesStay DEF ScrubRead, SeatsQuiet
<1> QED
  BY <1>2, <1>3, StepType DEF ScrubRead, TypeOK

LEMMA ScrubWriteStep ==
  ASSUME TypeOK, NEW c \in Carts, ScrubWrite(c)
  PROVE  TypeOK' /\ SeatsQuiet /\ SalesQuiet
<1> DEFINE m == Least(Cardinality(scrub[c]), sale[c].qty)
           gone == [Release(sale[c]) EXCEPT !.qty = 0]
           less == [sale[c] EXCEPT !.qty = m]
<1>1. scrub[c] \in SUBSET Seats /\ c \in Sales /\ sale[c] \in Sale
  BY DEF TypeOK, ScrubWrite, Sales
<1>2. m \in 0..MaxQty
  BY <1>1, SizeIsNat, ConstantsAssumption DEF Least, Sale
<1> HIDE DEF m
<1>3. gone \in Sale /\ gone.state = sale[c].state
  <2>1. Release(sale[c]) \in Sale /\ Release(sale[c]).state = sale[c].state
    BY <1>1, ReleaseType
  <2>2. 0 \in 0..MaxQty
    BY ConstantsAssumption
  <2> QED
    BY <2>1, <2>2, Zenon DEF Sale
<1>4. less \in Sale /\ less.state = sale[c].state
  BY <1>1, <1>2, Zenon DEF Sale
<1>5. sale' = [sale EXCEPT ![c] = IF scrub[c] = {} THEN gone ELSE less]
  BY DEF ScrubWrite, m
<1> HIDE DEF gone, less
<1>6. sale' \in [Sales -> Sale] /\ \A s \in Sales : sale'[s].state = sale[s].state
  BY <1>1, <1>3, <1>4, <1>5 DEF TypeOK
<1>7. SalesQuiet
  BY <1>6, SalesStay DEF ScrubWrite
<1>8. scrub' \in [Carts -> {None} \cup SUBSET Seats]
  BY DEF ScrubWrite, TypeOK
<1> QED
  BY <1>6, <1>7, <1>8, FreedQuiet, StepType DEF ScrubWrite, TypeOK

LEMMA CheckoutStep ==
  ASSUME TypeOK, NEW c \in Carts, Checkout(c)
  PROVE  TypeOK' /\ SeatsQuiet /\ SalesQuiet
<1> DEFINE r == [sale[c] EXCEPT !.state = "pending", !.ordered = sale[c].qty]
           fresh(x) == [seat[x] EXCEPT !.lapsed = FALSE]
<1>1. c \in Sales /\ sale[c] \in Sale
  BY DEF TypeOK, Sales
<1>2. r \in Sale /\ r.state = "pending"
  BY <1>1, Zenon DEF Sale, State
<1>3. \A x \in Seats : fresh(x) \in Seat /\ fresh(x).status = seat[x].status
                       /\ fresh(x).sold = seat[x].sold
  <2>1. \A x \in Seats : seat[x] \in Seat
    BY DEF TypeOK
  <2> QED
    BY <2>1, Zenon DEF Seat
<1>4. /\ sale' = [sale EXCEPT ![c] = r]
      /\ seat' = [x \in Seats |-> IF x \in Owned(c) /\ Held(x) THEN fresh(x) ELSE seat[x]]
      /\ sale[c].state = "open"
  BY DEF Checkout
<1> HIDE DEF r, fresh
<1>5. sale' \in [Sales -> Sale]
      /\ \A s \in Sales : sale'[s].state = "fulfilled" <=> sale[s].state = "fulfilled"
  BY <1>1, <1>2, <1>4 DEF TypeOK
<1>6. seat' \in [Seats -> Seat] /\ SeatsQuiet
  BY <1>3, <1>4 DEF TypeOK, SeatsQuiet
<1>7. SalesQuiet
  BY <1>5, SalesStay DEF Checkout
<1> QED
  BY <1>5, <1>6, <1>7, StepType DEF Checkout, TypeOK

LEMMA HoldLapsesStep ==
  ASSUME TypeOK, NEW c \in Carts, HoldLapses(c)
  PROVE  TypeOK' /\ SeatsQuiet /\ SalesQuiet
<1> DEFINE r == [sale[c] EXCEPT !.lapsed = TRUE]
<1>1. c \in Sales /\ sale[c] \in Sale
  BY DEF TypeOK, Sales
<1>2. r \in Sale /\ r.state = sale[c].state
  BY <1>1, Zenon DEF Sale
<1>3. sale' = [sale EXCEPT ![c] = r]
  BY DEF HoldLapses
<1> HIDE DEF r
<1>4. sale' \in [Sales -> Sale] /\ \A s \in Sales : sale'[s].state = sale[s].state
  BY <1>1, <1>2, <1>3 DEF TypeOK
<1>5. SalesQuiet /\ SeatsQuiet
  BY <1>4, SalesStay DEF HoldLapses, SeatsQuiet
<1> QED
  BY <1>4, <1>5, StepType DEF HoldLapses, TypeOK

LEMMA PayStep ==
  ASSUME TypeOK, NEW s \in Sales, Pay(s)
  PROVE  TypeOK' /\ SeatsQuiet /\ SalesQuiet
<1> DEFINE r == [sale[s] EXCEPT !.state = "paid"]
<1>1. r \in Sale /\ r.state = "paid" /\ sale[s].state # "fulfilled"
  <2>1. sale[s] \in Sale
    BY DEF TypeOK
  <2> QED
    BY <2>1, Zenon DEF Sale, State, Pay
<1>2. sale' = [sale EXCEPT ![s] = r]
  BY DEF Pay
<1> HIDE DEF r
<1>3. sale' \in [Sales -> Sale]
      /\ \A u \in Sales : sale'[u].state = "fulfilled" <=> sale[u].state = "fulfilled"
  BY <1>1, <1>2 DEF TypeOK
<1>4. SalesQuiet /\ SeatsQuiet
  BY <1>3, SalesStay DEF Pay, SeatsQuiet
<1> QED
  BY <1>3, <1>4, StepType DEF Pay, TypeOK

LEMMA ReleaseOrderStep ==
  ASSUME TypeOK, NEW s \in Sales, ReleaseOrder(s)
  PROVE  TypeOK' /\ SeatsQuiet /\ SalesQuiet
<1> DEFINE r == [Release(sale[s]) EXCEPT !.state = "released"]
<1>1. Release(sale[s]) \in Sale /\ sale[s].state # "fulfilled"
  BY ReleaseType DEF TypeOK, ReleaseOrder
<1>2. r \in Sale /\ r.state = "released"
  BY <1>1, Zenon DEF Sale, State
<1>3. sale' = [sale EXCEPT ![s] = r]
  BY DEF ReleaseOrder
<1> HIDE DEF r
<1>4. sale' \in [Sales -> Sale]
      /\ \A u \in Sales : sale'[u].state = "fulfilled" <=> sale[u].state = "fulfilled"
  BY <1>1, <1>2, <1>3 DEF TypeOK
<1>5. SalesQuiet
  BY <1>4, SalesStay DEF ReleaseOrder
<1> QED
  BY <1>4, <1>5, FreedQuiet, StepType DEF ReleaseOrder, TypeOK

LEMMA MintReadStep ==
  ASSUME TypeOK, NEW s \in Sales, MintRead(s)
  PROVE  TypeOK' /\ SeatsQuiet /\ SalesQuiet
<1> DEFINE r == [sale[s] EXCEPT !.state = "minting"]
<1>1. r \in Sale /\ r.state = "minting" /\ sale[s].state = "paid"
  <2>1. sale[s] \in Sale
    BY DEF TypeOK
  <2> QED
    BY <2>1, Zenon DEF Sale, State, MintRead
<1>2. sale' = [sale EXCEPT ![s] = r]
  BY DEF MintRead
<1> HIDE DEF r
<1>3. sale' \in [Sales -> Sale]
      /\ \A u \in Sales : sale'[u].state = "fulfilled" <=> sale[u].state = "fulfilled"
  BY <1>1, <1>2 DEF TypeOK
<1>4. Assigned(s) \subseteq Seats
  BY DEF Assigned, Owned, TypeOK, Sales
<1>5. PICK xs \in SUBSET Seats : ticket' = [ticket EXCEPT ![s] = xs]
  BY <1>4 DEF MintRead
<1>6. ticket' \in [Sales -> SUBSET Seats] /\ \A u \in Sales : u # s => ticket'[u] = ticket[u]
  BY <1>5 DEF TypeOK
<1>7. SalesQuiet /\ SeatsQuiet
  BY <1>1, <1>3, <1>6 DEF MintRead, SeatsQuiet, SalesQuiet, Minted
<1> QED
  BY <1>3, <1>6, <1>7, StepType DEF MintRead, TypeOK

LEMMA SweepStep ==
  ASSUME TypeOK, Sweep
  PROVE  TypeOK' /\ SeatsQuiet /\ SalesQuiet
<1>1. CASE SweepRead
  <2>1. Found.seats \subseteq Seats /\ Found.lines \subseteq Carts
    BY DEF Found, Losers
  <2>2. SalesQuiet /\ SeatsQuiet
    BY <1>1, SalesStay DEF SweepRead, SeatsQuiet
  <2> QED
    BY <1>1, <2>1, <2>2, StepType DEF SweepRead, TypeOK
<1>2. CASE SweepWrite
  <2>1. sale' \in [Sales -> Sale] /\ \A s \in Sales : sale'[s].state = sale[s].state
    BY <1>2, UnholdType DEF SweepWrite, SweptHolds
  <2>2. SalesQuiet
    BY <1>2, <2>1, SalesStay DEF SweepWrite
  <2> QED
    BY <1>2, <2>1, <2>2, FreedQuiet, StepType DEF SweepWrite, TypeOK
<1> QED
  BY <1>1, <1>2 DEF Sweep

\* Locks and time change a seat's lock and its lapse only.
LEMMA SeatStep ==
  ASSUME TypeOK, NEW x \in Seats, Lock(x) \/ Unlock(x) \/ Lapse(x)
  PROVE  TypeOK' /\ SeatsQuiet /\ SalesQuiet
<1> DEFINE r == IF Lock(x) THEN [seat[x] EXCEPT !.locked = TRUE]
                ELSE IF Unlock(x) THEN [seat[x] EXCEPT !.locked = FALSE]
                ELSE [seat[x] EXCEPT !.lapsed = TRUE]
<1>1. r \in Seat /\ r.status = seat[x].status /\ r.sold = seat[x].sold
  <2>1. seat[x] \in Seat
    BY DEF TypeOK
  <2> QED
    BY <2>1, Zenon DEF Seat
<1>2. seat' = [seat EXCEPT ![x] = r]
  BY DEF Lock, Unlock, Lapse
<1> HIDE DEF r
<1>3. seat' \in [Seats -> Seat] /\ SeatsQuiet
  BY <1>1, <1>2 DEF TypeOK, SeatsQuiet
<1>4. UNCHANGED <<sale, want, ticket, scrub, sweep>> /\ faults' \subseteq Allow
  BY StepType DEF Lock, Unlock, Lapse
<1> QED
  BY <1>3, <1>4, SalesStay DEF TypeOK

-----------------------------------------------------------------------------
(* The steps that sell and give back. *)

\* The fulfilment: its seats are held, so they are on no other valid ticket.
LEMMA MintWriteStep ==
  ASSUME TypeOK, SeatsAgree, NEW s \in Sales, MintWrite(s)
  PROVE  TypeOK' /\ SeatsAgree'
<1> USE DEF Minted
<1> DEFINE done == [Release(sale[s]) EXCEPT !.state = "fulfilled"]
           back == [sale[s] EXCEPT !.state = "paid"]
           Mine(x) == [Free(seat[x]) EXCEPT !.status = "sold", !.sold = s]
<1>1. sale[s] \in Sale /\ sale[s].state = "minting"
  BY DEF TypeOK, MintWrite
<1>2. done \in Sale /\ done.state = "fulfilled"
  <2>1. Release(sale[s]) \in Sale
    BY <1>1, ReleaseType
  <2> QED
    BY <2>1, Zenon DEF Sale, State
<1>3. back \in Sale /\ back.state = "paid"
  BY <1>1, Zenon DEF Sale, State
<1>4. \A x \in Seats : Mine(x) \in Seat /\ Mine(x).status = "sold" /\ Mine(x).sold = s
  <2>1. \A x \in Seats : Free(seat[x]) \in Seat
    BY FreeType DEF TypeOK
  <2> QED
    BY <2>1, Zenon DEF Seat, Status
<1>5. ticket[s] \subseteq Seats
  BY DEF TypeOK
<1>6. CASE \A x \in ticket[s] : MayMark(x)
  <2>1. /\ seat' = [x \in Seats |-> IF x \in ticket[s] THEN Mine(x) ELSE seat[x]]
        /\ sale' = [sale EXCEPT ![s] = done]
        /\ ticket' = ticket
    BY <1>6 DEF MintWrite
  <2>2. \A x \in ticket[s] : seat[x].status = "held"
    BY <1>6 DEF MayMark, Held
  <2> HIDE DEF done, Mine
  <2>3. TypeOK'
    BY <1>2, <1>4, <2>1, StepType DEF TypeOK, MintWrite
  <2>4. ASSUME NEW u \in Sales, sale'[u].state = "fulfilled", NEW x \in ticket'[u]
        PROVE  seat'[x].status = "sold" /\ seat'[x].sold = u
    <3>1. CASE u = s
      BY <1>4, <1>5, <2>1, <3>1
    <3>2. CASE u # s
      <4>1. seat[x].status = "sold" /\ seat[x].sold = u /\ x \in Seats
        BY <2>1, <2>4, <3>2 DEF SeatsAgree, TypeOK
      <4> QED
        BY <2>1, <2>2, <4>1
    <3> QED
      BY <3>1, <3>2
  <2>5. ASSUME NEW x \in Seats, seat'[x].status = "sold"
        PROVE  seat'[x].sold \in Sales /\ sale'[seat'[x].sold].state = "fulfilled"
               /\ x \in ticket'[seat'[x].sold]
    <3>1. CASE x \in ticket[s]
      BY <1>2, <1>4, <2>1, <3>1 DEF TypeOK
    <3>2. CASE x \notin ticket[s]
      <4>1. seat'[x] = seat[x]
        BY <2>1, <3>2
      <4>2. seat[x].sold \in Sales /\ Minted(seat[x].sold) /\ x \in ticket[seat[x].sold]
        BY <2>5, <4>1 DEF SeatsAgree
      <4> QED
        BY <1>1, <1>2, <2>1, <4>1, <4>2 DEF TypeOK
    <3> QED
      BY <3>1, <3>2
  <2> QED
    BY <2>3, <2>4, <2>5 DEF SeatsAgree
<1>7. CASE ~(\A x \in ticket[s] : MayMark(x))
  <2>1. /\ sale' = [sale EXCEPT ![s] = back]
        /\ ticket' = [ticket EXCEPT ![s] = {}]
        /\ seat' = seat
    BY <1>7 DEF MintWrite
  <2> HIDE DEF back
  <2>2. TypeOK'
    BY <1>3, <2>1, StepType DEF TypeOK, MintWrite
  <2>3. SeatsQuiet /\ SalesQuiet
    BY <1>1, <1>3, <2>1 DEF SeatsQuiet, SalesQuiet, TypeOK
  <2> QED
    BY <2>2, <2>3, QuietAgrees
<1> QED
  BY <1>6, <1>7

\* The cancellation: the seats it gives back are those of its own tickets.
LEMMA CancelStep ==
  ASSUME TypeOK, SeatsAgree, NEW s \in Sales, Cancel(s)
  PROVE  TypeOK' /\ SeatsAgree'
<1> USE DEF Minted
<1> DEFINE r == [sale[s] EXCEPT !.state = "cancelled"]
<1>1. r \in Sale /\ r.state = "cancelled"
  <2>1. sale[s] \in Sale
    BY DEF TypeOK
  <2> QED
    BY <2>1, Zenon DEF Sale, State
<1>2. /\ sale' = [sale EXCEPT ![s] = r]
      /\ ticket' = [ticket EXCEPT ![s] = {}]
      /\ seat' = [x \in Seats |-> IF seat[x].sold = s THEN Free(seat[x]) ELSE seat[x]]
  BY DEF Cancel, Restored
<1>3. \A x \in Seats : Free(seat[x]) \in Seat /\ Free(seat[x]).status = "available"
  BY FreeType DEF TypeOK
<1> HIDE DEF r
<1>4. TypeOK'
  BY <1>1, <1>2, <1>3, StepType DEF TypeOK, Cancel
<1>5. ASSUME NEW u \in Sales, sale'[u].state = "fulfilled", NEW x \in ticket'[u]
      PROVE  seat'[x].status = "sold" /\ seat'[x].sold = u
  <2>1. u # s /\ Minted(u) /\ x \in ticket[u]
    BY <1>1, <1>2, <1>5 DEF TypeOK
  <2>2. seat[x].status = "sold" /\ seat[x].sold = u /\ x \in Seats
    BY <2>1 DEF SeatsAgree, TypeOK
  <2> QED
    BY <1>2, <2>1, <2>2
<1>6. ASSUME NEW x \in Seats, seat'[x].status = "sold"
      PROVE  seat'[x].sold \in Sales /\ sale'[seat'[x].sold].state = "fulfilled"
             /\ x \in ticket'[seat'[x].sold]
  <2>1. seat[x].sold # s /\ seat'[x] = seat[x]
    BY <1>2, <1>3, <1>6
  <2>2. seat[x].sold \in Sales /\ Minted(seat[x].sold) /\ x \in ticket[seat[x].sold]
    BY <1>6, <2>1 DEF SeatsAgree
  <2> QED
    BY <1>2, <2>1, <2>2 DEF TypeOK
<1> QED
  BY <1>4, <1>5, <1>6 DEF SeatsAgree

-----------------------------------------------------------------------------
\* Nothing is sold at the start.
LEMMA SeatsInit ==
  ASSUME Init
  PROVE  TypeOK /\ SeatsAgree
<1>1. 0 \in 0..MaxQty
  BY ConstantsAssumption
<1>2. TypeOK
  BY <1>1 DEF Init, TypeOK, Seat, Status, Sale, State, Sales
<1>3. SeatsAgree
  BY DEF Init, SeatsAgree, Minted
<1> QED
  BY <1>2, <1>3

\* Every step keeps the types and the agreement of seats and tickets.
LEMMA SeatsNext ==
  ASSUME TypeOK, SeatsAgree, [Next]_vars
  PROVE  TypeOK' /\ SeatsAgree'
<1>1. CASE \E c \in Carts : \/ \E xs \in SUBSET Seats \ {{}} : Pick(c, xs)
                            \/ Empty(c) \/ ScrubRead(c) \/ ScrubWrite(c) \/ Checkout(c)
                            \/ HoldLapses(c)
  BY <1>1, PickStep, EmptyStep, ScrubReadStep, ScrubWriteStep, CheckoutStep, HoldLapsesStep,
     QuietAgrees
<1>2. CASE \E t \in Taps, xs \in SUBSET Seats \ {{}}, state \in {"pending", "paid"} :
             Sell(t, xs, state)
  BY <1>2, SellStep, QuietAgrees
<1>3. CASE \E s \in Sales : Settle(s) \/ Mint(s) \/ Cancel(s)
  BY <1>3, PayStep, ReleaseOrderStep, MintReadStep, MintWriteStep, CancelStep, QuietAgrees
     DEF Settle, Mint
<1>4. CASE \E x \in Seats : Lock(x) \/ Unlock(x) \/ Lapse(x)
  BY <1>4, SeatStep, QuietAgrees
<1>5. CASE Sweep
  BY <1>5, SweepStep, QuietAgrees
<1>6. CASE UNCHANGED vars
  <2>1. TypeOK'
    BY <1>6 DEF vars, TypeOK
  <2> QED
    BY <1>6, <2>1, QuietAgrees DEF vars, SeatsQuiet, SalesQuiet, Minted
<1> QED
  BY <1>1, <1>2, <1>3, <1>4, <1>5, <1>6 DEF Next

\* Every row and everything under way keeps its type.
THEOREM SeatsTyped == Spec => []TypeOK
<1>1. Init => TypeOK /\ SeatsAgree
  BY SeatsInit
<1>2. TypeOK /\ SeatsAgree /\ [Next]_vars => (TypeOK /\ SeatsAgree)'
  BY SeatsNext
<1> QED
  BY <1>1, <1>2, PTL DEF Spec

\* The sold seats and the valid tickets agree, in every reachable state.
THEOREM SeatsAlwaysAgree == Spec => [](TypeOK /\ SeatsAgree)
<1>1. Init => TypeOK /\ SeatsAgree
  BY SeatsInit
<1>2. TypeOK /\ SeatsAgree /\ [Next]_vars => (TypeOK /\ SeatsAgree)'
  BY SeatsNext
<1> QED
  BY <1>1, <1>2, PTL DEF Spec

\* No two valid tickets share a seat: the seat knows the one order it is sold to.
THEOREM NoSeatTwice == Spec => []SeatOnce
<1>1. TypeOK /\ SeatsAgree => SeatOnce
  BY DEF SeatsAgree, SeatOnce
<1> QED
  BY <1>1, SeatsAlwaysAgree, PTL

\* A seat is sold exactly as long as a valid ticket is for it.
THEOREM SoldForATicket == Spec => []SoldIsTicketed
<1>1. TypeOK /\ SeatsAgree => SoldIsTicketed
  BY DEF SeatsAgree, SoldIsTicketed, TypeOK
<1> QED
  BY <1>1, SeatsAlwaysAgree, PTL

-----------------------------------------------------------------------------
(***************************************************************************)
(* Seats and holds of a line, as long as nothing untoward has happened.    *)
(*                                                                         *)
(* A step that counts no fault leaves nobody else between a read and a     *)
(* write, so that what the sweep, the scrub and the fulfilment have read   *)
(* still describes the seats; only time passes in between.                 *)
(***************************************************************************)

\* Only held seats have an owner, and a held seat is sold to nobody.
SeatRows ==
    \A x \in Seats : /\ seat[x].owner # None => Held(x)
                     /\ Held(x) => seat[x].sold = None

\* Orders that count on their seats.
Active(s) == sale[s].state \in {"pending", "paid", "minting"}

\* A cart: its seats and its hold, before, during and after its order.
LineFits(c) ==
    /\ sale[c].state = "open" =>
         IF sale[c].hold = "held" THEN Cardinality(Owned(c)) = sale[c].qty ELSE Owned(c) = {}
    /\ Active(c) => sale[c].hold = "held" /\ Cardinality(Owned(c)) = sale[c].ordered
    /\ sale[c].state \in {"released", "fulfilled", "cancelled"} => Owned(c) = {}
    /\ sale[c].state = "minting" => ticket[c] = Owned(c)
    /\ Minted(c) => Cardinality(ticket[c]) = sale[c].ordered
    /\ scrub[c] # None => /\ sale[c].state = "open" /\ scrub[c] \subseteq Owned(c)
                          /\ Owned(c) = {} \/ scrub[c] # Owned(c)

\* A box-office sale.
CounterFits(t) ==
    /\ Active(t) => Cardinality(want[t]) = sale[t].ordered
    /\ Active(t) => \A x \in want[t] : Held(x) /\ seat[x].owner = None /\ ~seat[x].lapsed
    /\ sale[t].state = "minting" => ticket[t] = want[t]
    /\ Minted(t) => Cardinality(ticket[t]) = sale[t].ordered

\* No two box-office sales count on a seat.
Apart == \A t, u \in Taps : Active(t) /\ Active(u) /\ t # u => want[t] \cap want[u] = {}

\* What the sweep has found is still so.
SweepFits ==
    sweep # None => /\ \A x \in sweep.seats : Lapsed(x) /\ seat[x].owner = None
                    /\ \A c \in sweep.lines : sale[c].state = "open"
                                              /\ \E x \in Owned(c) : seat[x].lapsed

AllFit == /\ SeatRows /\ Apart /\ SweepFits
          /\ \A c \in Carts : LineFits(c)
          /\ \A t \in Taps : CounterFits(t)

\* What KeptWhileFresh asks of one line.
KeepsSeats(c) ==
    Valid(c) = Owned(c) /\ sale[c].qty > 0 =>
        \/ Owned(c) \subseteq Owned(c)'
        \/ sale'[c].qty # sale[c].qty \/ sale'[c].state # sale[c].state

StepFits == AllFit' /\ \A c \in Carts : KeepsSeats(c)

-----------------------------------------------------------------------------
(* What the operators write. *)

LEMMA FreeFields ==
  ASSUME NEW r \in Seat
  PROVE  /\ Free(r) \in Seat /\ Free(r).status = "available" /\ Free(r).owner = None
         /\ ~Free(r).lapsed /\ Free(r).sold = None
  BY Zenon DEF Free, Seat, Status

LEMMA ReleaseFields ==
  ASSUME NEW r \in Sale
  PROVE  /\ Release(r) \in Sale /\ Release(r).state = r.state /\ Release(r).qty = r.qty
         /\ Release(r).ordered = r.ordered /\ Release(r).hold # "held"
  BY Zenon DEF Release, Sale

LEMMA OwnersAreSeats ==
  ASSUME NEW c
  PROVE  Owned(c) \in SUBSET Seats /\ IsFiniteSet(Owned(c)) /\ Cardinality(Owned(c)) \in Nat
<1>1. Owned(c) \in SUBSET Seats
  BY DEF Owned
<1> QED
  BY <1>1, ConstantsAssumption, FS_Subset, FS_CardinalityType

LEMMA NobodyIsNone ==
  None \notin Carts /\ None \notin Taps /\ None \notin Sales /\ Carts \cap Taps = {}
  BY ConstantsAssumption DEF Sales

\* Freeing seats takes them from their lines and changes no other seat.
LEMMA FreedOwned ==
  ASSUME TypeOK, SeatRows, NEW xs, seat' = Freed(xs)
  PROVE  /\ SeatRows'
         /\ \A c \in Carts : Owned(c)' = Owned(c) \ xs
         /\ \A x \in Seats : x \notin xs => seat'[x] = seat[x]
<1>1. \A x \in Seats : /\ x \in xs /\ Held(x) =>
                            /\ seat'[x].status = "available" /\ seat'[x].owner = None
                            /\ seat'[x].sold = None
                       /\ ~(x \in xs /\ Held(x)) => seat'[x] = seat[x]
  BY FreeFields DEF Freed, TypeOK
<1>2. SeatRows'
  BY <1>1 DEF SeatRows, Held
<1>3. ASSUME NEW c \in Carts PROVE Owned(c)' = Owned(c) \ xs
  BY <1>1, NobodyIsNone DEF SeatRows, Owned
<1> QED
  BY <1>1, <1>2, <1>3

\* A claim takes its seats from nobody but the losers, who lose all they have.
LEMMA ClaimOwned ==
  ASSUME TypeOK, SeatRows, NEW xs \in SUBSET Seats, NEW o \in Carts \cup {None}, Claim(xs, o)
  PROVE  /\ SeatRows'
         /\ \A c \in Carts \ {o} : Owned(c)' = IF c \in Losers(xs) THEN {} ELSE Owned(c)
         /\ o \in Carts \ Losers(xs) => Owned(o)' = Owned(o) \cup xs /\ Owned(o) \cap xs = {}
         /\ \A x \in xs : Held(x)' /\ seat'[x].owner = o /\ ~seat'[x].lapsed
         /\ \A x \in Seats : Held(x) /\ seat[x].owner = None /\ ~seat[x].lapsed =>
               x \notin xs /\ seat'[x] = seat[x]
<1> DEFINE Taken(x) == [Free(seat[x]) EXCEPT !.status = "held", !.owner = o]
           L == Losers(xs)
           F == {x \in xs : Lapsed(x) /\ seat[x].owner = None} \cup UNION {Owned(c) : c \in L}
<1>0. \A x \in Seats : seat[x] \in Seat
  BY DEF TypeOK
<1>1. \A x \in Seats : /\ Taken(x).status = "held" /\ Taken(x).owner = o
                       /\ ~Taken(x).lapsed /\ Taken(x).sold = None
  <2>1. \A x \in Seats : /\ Free(seat[x]) \in Seat /\ ~Free(seat[x]).lapsed
                         /\ Free(seat[x]).sold = None
    BY <1>0, FreeFields
  <2> QED
    BY <2>1, Zenon DEF Seat
<1> HIDE DEF Taken
<1>2. seat' = [x \in Seats |-> IF x \in xs THEN Taken(x) ELSE Reclaimed(xs)[x]]
  BY DEF Claim, Taken
<1>3. \A x \in Seats : /\ x \in F /\ Held(x) => /\ Reclaimed(xs)[x].status = "available"
                                                /\ Reclaimed(xs)[x].owner = None
                                                /\ Reclaimed(xs)[x].sold = None
                       /\ ~(x \in F /\ Held(x)) => Reclaimed(xs)[x] = seat[x]
  BY <1>0, FreeFields DEF Reclaimed, Freed
<1>4. \A x \in Seats, c \in Carts : seat[x].owner = c => (x \in F <=> c \in L) /\ Held(x)
  BY NobodyIsNone DEF SeatRows, Owned
<1>5. \A x \in Seats : seat[x].owner = None => (x \in F <=> x \in xs /\ Lapsed(x))
  <2>1. L \subseteq Carts
    BY DEF Losers
  <2> QED
    BY <2>1, NobodyIsNone DEF Owned
<1> HIDE DEF F, L
<1>6. \A x \in xs : Bookable(x) /\ (x \in F \/ ~Held(x))
  BY <1>3 DEF Claim, Held
<1>7. \A x \in xs, c \in Carts : seat[x].owner = c => c \in L
  BY <1>4, <1>6
<1>8. SeatRows'
  BY <1>1, <1>2, <1>3 DEF SeatRows, Held
<1>9. ASSUME NEW c \in Carts \ {o} PROVE Owned(c)' = IF c \in L THEN {} ELSE Owned(c)
  <2>1. ASSUME NEW x \in Seats PROVE seat'[x].owner = c <=> seat[x].owner = c /\ c \notin L
    <3>1. CASE x \in xs
      BY <1>1, <1>2, <1>7, <3>1
    <3>2. CASE x \notin xs
      BY <1>2, <1>3, <1>4, <3>2, NobodyIsNone
    <3> QED
      BY <3>1, <3>2
  <2> QED
    BY <2>1 DEF Owned
<1>10. ASSUME o \in Carts, o \notin L
       PROVE  Owned(o)' = Owned(o) \cup xs /\ Owned(o) \cap xs = {}
  <2>1. ASSUME NEW x \in Seats PROVE seat'[x].owner = o <=> seat[x].owner = o \/ x \in xs
    BY <1>1, <1>2, <1>3, <1>4, <1>10, NobodyIsNone
  <2>2. Owned(o)' = Owned(o) \cup xs
    BY <2>1 DEF Owned
  <2> QED
    BY <2>2, <1>7, <1>10 DEF Owned
<1>11. \A x \in xs : Held(x)' /\ seat'[x].owner = o /\ ~seat'[x].lapsed
  BY <1>1, <1>2 DEF Held
<1>12. ASSUME NEW x \in Seats, Held(x), seat[x].owner = None, ~seat[x].lapsed
       PROVE  x \notin xs /\ seat'[x] = seat[x]
  <2>1. x \notin F
    BY <1>5, <1>12 DEF Lapsed
  <2> QED
    BY <1>2, <1>3, <1>6, <1>12, <2>1
<1> QED
  BY <1>8, <1>9, <1>10, <1>11, <1>12 DEF L

-----------------------------------------------------------------------------
(* What a step leaves alone. *)

SameSale(s) == /\ sale'[s].state = sale[s].state /\ sale'[s].qty = sale[s].qty
               /\ sale'[s].ordered = sale[s].ordered /\ sale'[s].hold = sale[s].hold

\* A cart the step is not about, ...
Untouched(c) == /\ SameSale(c) /\ ticket'[c] = ticket[c]
                /\ scrub'[c] \in {scrub[c], None} /\ Owned(c)' = Owned(c)

\* ... one that loses its seats and its hold because a seat has lapsed, ...
Lost(c) == /\ \E x \in Owned(c) : seat[x].lapsed
           /\ ~Protected(c)
           /\ sale'[c] = Release(sale[c])
           /\ ticket'[c] = ticket[c] /\ scrub'[c] = None /\ Owned(c)' = {}

\* ... and a box-office sale the step is not about.
SameHold(x) == /\ seat'[x].status = seat[x].status /\ seat'[x].owner = seat[x].owner
               /\ seat'[x].lapsed = seat[x].lapsed

Waiting(t) == /\ SameSale(t) /\ ticket'[t] = ticket[t] /\ want'[t] = want[t]
              /\ Active(t) => \A x \in want[t] : SameHold(x)

LEMMA LineStays ==
  ASSUME TypeOK, NEW c \in Carts, LineFits(c), Untouched(c) \/ Lost(c)
  PROVE  LineFits(c)' /\ KeepsSeats(c)
<1>0. sale[c] \in Sale
  BY DEF TypeOK, Sales
<1>1. CASE Untouched(c)
  BY <1>1 DEF Untouched, SameSale, LineFits, KeepsSeats, Active, Minted
<1>2. CASE Lost(c)
  <2>1. PICK x \in Owned(c) : seat[x].lapsed
    BY <1>2 DEF Lost
  <2>2. sale[c].state = "open"
    BY <1>0, <1>2, <2>1 DEF Lost, Protected, Bound, LineFits, Active, Sale, State
  <2>3. LineFits(c)'
    BY <1>0, <1>2, <2>2, ReleaseFields DEF Lost, LineFits, Active, Minted
  <2>4. Valid(c) # Owned(c)
    BY <2>1 DEF Valid
  <2> QED
    BY <2>3, <2>4 DEF KeepsSeats
<1> QED
  BY <1>1, <1>2

LEMMA CounterStays ==
  ASSUME NEW t \in Taps, CounterFits(t), Waiting(t)
  PROVE  CounterFits(t)'
  BY DEF Waiting, SameSale, SameHold, CounterFits, Active, Minted, Held

\* A step without a fault finds nobody else between a read and a write.
LEMMA NoFault ==
  ASSUME NEW me, NEW fs, Step(me, fs), faults' = {}
  PROVE  /\ faults = {} /\ fs = {} /\ Midway \subseteq me
         /\ sweep # None => None \in me
         /\ \A c \in Carts : scrub[c] # None => c \in me
         /\ \A s \in Sales : sale[s].state = "minting" => s \in me
<1>1. faults = {} /\ fs = {} /\ Midway \subseteq me
  BY DEF Step
<1> QED
  BY <1>1 DEF Midway

\* It is enough to look at the sale a step is about: a cart, a box-office sale, or none.
LEMMA CartFits ==
  ASSUME TypeOK, AllFit, SeatRows', SweepFits', Apart', NEW c \in Carts,
         \A d \in Carts \ {c} : Untouched(d) \/ Lost(d),
         \A t \in Taps : Waiting(t),
         LineFits(c)', KeepsSeats(c)
  PROVE  StepFits
<1>1. \A d \in Carts : LineFits(d)' /\ KeepsSeats(d)
  BY LineStays DEF AllFit
<1>2. \A t \in Taps : CounterFits(t)'
  BY CounterStays DEF AllFit
<1> QED
  BY <1>1, <1>2 DEF AllFit, StepFits

LEMMA TapFits ==
  ASSUME TypeOK, AllFit, SeatRows', SweepFits', Apart', NEW t \in Taps,
         \A d \in Carts : Untouched(d) \/ Lost(d),
         \A u \in Taps \ {t} : Waiting(u),
         CounterFits(t)'
  PROVE  StepFits
<1>1. \A d \in Carts : LineFits(d)' /\ KeepsSeats(d)
  BY LineStays DEF AllFit
<1>2. \A u \in Taps : CounterFits(u)'
  BY CounterStays DEF AllFit
<1> QED
  BY <1>1, <1>2 DEF AllFit, StepFits

LEMMA NobodyFits ==
  ASSUME TypeOK, AllFit, SeatRows', SweepFits', Apart',
         \A d \in Carts : Untouched(d) \/ Lost(d),
         \A t \in Taps : Waiting(t)
  PROVE  StepFits
<1>1. \A d \in Carts : LineFits(d)' /\ KeepsSeats(d)
  BY LineStays DEF AllFit
<1>2. \A u \in Taps : CounterFits(u)'
  BY CounterStays DEF AllFit
<1> QED
  BY <1>1, <1>2 DEF AllFit, StepFits

\* Seats of box-office sales stay apart if no sale begins to count on seats.
LEMMA StayApart ==
  ASSUME AllFit,
         \A t \in Taps : want'[t] = want[t] /\ (sale'[t].state \in {"pending", "paid", "minting"} => Active(t))
  PROVE  Apart'
  BY DEF AllFit, Apart, Active

\* The holds of the losers.
LEMMA UnholdFields ==
  ASSUME TypeOK, NEW cs \in SUBSET Carts
  PROVE  /\ Unhold(cs) \in [Sales -> Sale]
         /\ \A c \in cs : Unhold(cs)[c] = Release(sale[c])
         /\ \A s \in Sales \ cs : Unhold(cs)[s] = sale[s]
  BY UnholdType DEF Unhold, Sales

\* What a claim does to the carts and the box-office sales it is not for.
LEMMA ClaimOthers ==
  ASSUME TypeOK, AllFit, NEW xs \in SUBSET Seats, NEW o \in Carts \cup {None}, Claim(xs, o),
         NEW s \in Sales, UNCHANGED <<scrub, sweep>>, \A c \in Carts : scrub[c] = None,
         \A u \in Sales \ {s} : /\ sale'[u] = Unhold(Losers(xs))[u]
                                /\ ticket'[u] = ticket[u],
         \A t \in Taps \ {s} : want'[t] = want[t],
         o \in Carts => o = s
  PROVE  /\ \A c \in Carts \ {s} : Untouched(c) \/ Lost(c)
         /\ \A t \in Taps \ {s} : Waiting(t)
<1>1. Losers(xs) \in SUBSET Carts
  BY DEF Losers
<1>2. ASSUME NEW c \in Carts \ {s} PROVE Untouched(c) \/ Lost(c)
  <2>0. c \in Sales /\ c # o
    BY NobodyIsNone DEF Sales
  <2>1. CASE c \in Losers(xs)
    <3>1. /\ ~Protected(c) /\ \E x \in Owned(c) : seat[x].lapsed
      BY <2>1 DEF Losers, Owned, Lapsed
    <3> QED
      BY <1>1, <2>0, <2>1, <3>1, UnholdFields, ClaimOwned DEF Lost, AllFit
  <2>2. CASE c \notin Losers(xs)
    BY <1>1, <2>0, <2>2, UnholdFields, ClaimOwned DEF Untouched, SameSale, AllFit
  <2> QED
    BY <2>1, <2>2
<1>3. ASSUME NEW t \in Taps \ {s} PROVE Waiting(t)
  <2>1. t \in Sales \ Losers(xs)
    BY <1>1, NobodyIsNone DEF Sales
  <2>2. SameSale(t) /\ ticket'[t] = ticket[t]
    BY <1>1, <2>1, UnholdFields DEF SameSale
  <2>3. ASSUME Active(t), NEW x \in want[t] PROVE SameHold(x)
    <3>1. x \in Seats /\ Held(x) /\ seat[x].owner = None /\ ~seat[x].lapsed
      BY <2>3 DEF AllFit, CounterFits, TypeOK
    <3> QED
      BY <3>1, ClaimOwned DEF AllFit, SameHold
  <2> QED
    BY <2>2, <2>3 DEF Waiting
<1> QED
  BY <1>2, <1>3

-----------------------------------------------------------------------------
(* One lemma for each kind of step. *)

LEMMA PickFits ==
  ASSUME TypeOK, AllFit, faults' = {}, NEW c \in Carts, NEW xs \in SUBSET Seats, Pick(c, xs)
  PROVE  StepFits
<1> DEFINE U == Unhold(Losers(xs))
           q == sale[c].qty + Cardinality(xs)
           h == IF c \in Losers(xs) THEN "gone" ELSE "held"
           l == FALSE
           r == [U[c] EXCEPT !.qty = q, !.lapsed = l, !.hold = h]
<1>1. /\ c \notin Losers(xs) /\ sweep = None
      /\ \A d \in Carts : scrub[d] = None
  BY NoFault DEF Pick
<1>2. Losers(xs) \in SUBSET Carts /\ c \in Sales /\ sale[c] \in Sale
  BY DEF Losers, Sales, TypeOK
<1>3. U \in [Sales -> Sale] /\ U[c] = sale[c]
  BY <1>1, <1>2, UnholdFields
<1>4. q \in Nat /\ q \in 0..MaxQty /\ h = "held"
  <2>1. sale[c].qty \in Nat /\ Cardinality(xs) \in Nat /\ MaxQty \in Nat
    BY <1>2, SizeIsNat, ConstantsAssumption DEF Sale
  <2>2. q <= MaxQty
    BY DEF Pick
  <2> QED
    BY <1>1, <2>1, <2>2
<1>5. sale' = [U EXCEPT ![c] = r]
  BY DEF Pick
<1> HIDE DEF U, q, h, l
<1>6. r.state = sale[c].state /\ r.qty = q /\ r.hold = h
  <2>1. U[c] \in Sale
    BY <1>2, <1>3
  <2>2. r.state = U[c].state /\ r.qty = q /\ r.hold = h
    BY <2>1, Zenon DEF Sale
  <2> QED
    BY <1>3, <2>2
<1> HIDE DEF r
<1>7. sale'[c] = r /\ \A s \in Sales \ {c} : sale'[s] = Unhold(Losers(xs))[s]
  BY <1>2, <1>3, <1>5 DEF U
<1>8. /\ sale'[c].state = "open" /\ sale'[c].qty = q /\ sale'[c].hold = "held"
  BY <1>4, <1>6, <1>7 DEF Pick
<1>9. /\ Claim(xs, c) /\ UNCHANGED <<want, ticket, scrub, sweep>>
      /\ sale[c].qty > 0 => sale[c].hold = "held"
      /\ sale[c].state = "open"
  BY DEF Pick
<1>10. /\ SeatRows' /\ Owned(c)' = Owned(c) \cup xs /\ Owned(c) \cap xs = {}
  BY <1>1, <1>9, ClaimOwned DEF AllFit
<1>11. Cardinality(Owned(c)) = sale[c].qty
  <2>1. sale[c].qty \in Nat
    BY <1>2, ConstantsAssumption DEF Sale
  <2> QED
    BY <1>9, <2>1, FS_EmptySet DEF AllFit, LineFits
<1>12. Cardinality(Owned(c)') = q
  <2>1. IsFiniteSet(xs) /\ Cardinality(xs) \in Nat
    BY ConstantsAssumption, FS_Subset, SizeIsNat
  <2>2. Cardinality(Owned(c) \cup xs) = Cardinality(Owned(c)) + Cardinality(xs) - Cardinality(Owned(c) \cap xs)
    BY <2>1, OwnersAreSeats, FS_Union
  <2>3. Cardinality(Owned(c) \cap xs) = 0
    BY <1>10, FS_EmptySet
  <2> QED
    BY <1>10, <1>11, <2>1, <2>2, <2>3, OwnersAreSeats DEF q
<1>13. LineFits(c)' /\ KeepsSeats(c)
  <2>1. scrub'[c] = None
    BY <1>1, <1>9
  <2> QED
    BY <1>8, <1>10, <1>12, <2>1 DEF LineFits, KeepsSeats, Active, Minted
<1>14. /\ \A d \in Carts \ {c} : Untouched(d) \/ Lost(d)
       /\ \A t \in Taps \ {c} : Waiting(t)
  BY <1>1, <1>2, <1>7, <1>9, ClaimOthers
<1>15. Apart'
  BY <1>9, <1>14, StayApart, NobodyIsNone DEF Waiting, SameSale, Active
<1>16. SweepFits'
  BY <1>1, <1>9 DEF SweepFits
<1> QED
  BY <1>10, <1>13, <1>14, <1>15, <1>16, NobodyIsNone, CartFits

LEMMA SellFits ==
  ASSUME TypeOK, AllFit, faults' = {}, NEW t \in Taps, NEW xs \in SUBSET Seats,
         NEW state \in {"pending", "paid"}, Sell(t, xs, state)
  PROVE  StepFits
<1> DEFINE r == [state |-> state, qty |-> 0, ordered |-> Cardinality(xs),
                 hold |-> IF state = "paid" THEN "none" ELSE "held", lapsed |-> FALSE]
<1>1. /\ sweep = None /\ \A d \in Carts : scrub[d] = None
  BY NoFault DEF Sell
<1>2. Losers(xs) \in SUBSET Carts /\ t \in Sales
  BY DEF Losers, Sales
<1>3. /\ sale' = [Unhold(Losers(xs)) EXCEPT ![t] = r]
      /\ want' = [want EXCEPT ![t] = xs]
      /\ Claim(xs, None) /\ UNCHANGED <<ticket, scrub, sweep>>
  BY DEF Sell
<1>4. r.state = state /\ r.ordered = Cardinality(xs)
  OBVIOUS
<1> HIDE DEF r
<1>5. /\ sale'[t] = r /\ want'[t] = xs
      /\ \A s \in Sales \ {t} : sale'[s] = Unhold(Losers(xs))[s]
      /\ \A u \in Taps \ {t} : want'[u] = want[u]
  BY <1>2, <1>3, UnholdFields DEF TypeOK
<1>6. /\ SeatRows'
      /\ \A x \in xs : Held(x)' /\ seat'[x].owner = None /\ ~seat'[x].lapsed
      /\ \A x \in Seats : Held(x) /\ seat[x].owner = None /\ ~seat[x].lapsed => x \notin xs
  BY <1>3, ClaimOwned DEF AllFit
<1>7. CounterFits(t)'
  BY <1>4, <1>5, <1>6 DEF CounterFits, Active, Minted
<1>8. /\ \A d \in Carts \ {t} : Untouched(d) \/ Lost(d)
      /\ \A u \in Taps \ {t} : Waiting(u)
  BY <1>1, <1>2, <1>3, <1>5, ClaimOthers, NobodyIsNone
<1>9. \A u \in Taps \ {t} : Active(u)' => Active(u) /\ want'[u] \cap xs = {}
  <2>1. ASSUME NEW u \in Taps \ {t}, Active(u)' PROVE Active(u) /\ want'[u] \cap xs = {}
    <3>1. Active(u) /\ want'[u] = want[u] /\ want[u] \subseteq Seats
      BY <1>8, <2>1 DEF Waiting, SameSale, Active, TypeOK
    <3>2. \A x \in want[u] : Held(x) /\ seat[x].owner = None /\ ~seat[x].lapsed
      BY <3>1 DEF AllFit, CounterFits
    <3> QED
      BY <1>6, <3>1, <3>2
  <2> QED
    BY <2>1
<1>10. Apart'
  BY <1>5, <1>9 DEF AllFit, Apart
<1>11. SweepFits'
  BY <1>1, <1>3 DEF SweepFits
<1> QED
  BY <1>6, <1>7, <1>8, <1>10, <1>11, NobodyIsNone, TapFits

LEMMA EmptyFits ==
  ASSUME TypeOK, AllFit, faults' = {}, NEW c \in Carts, Empty(c)
  PROVE  StepFits
<1> DEFINE r == [state |-> "open", qty |-> 0, ordered |-> 0, hold |-> "none", lapsed |-> FALSE]
<1>1. /\ sweep = None /\ \A d \in Carts : scrub[d] = None
  BY NoFault DEF Empty
<1>2. /\ sale' = [sale EXCEPT ![c] = r] /\ seat' = Freed(Owned(c))
      /\ UNCHANGED <<want, ticket, scrub, sweep>> /\ c \in Sales
      /\ sale[c].qty > 0
  BY DEF Empty, Sales
<1>3. r.state = "open" /\ r.hold = "none" /\ r.qty = 0
  OBVIOUS
<1> HIDE DEF r
<1>4. sale'[c] = r /\ \A s \in Sales \ {c} : sale'[s] = sale[s]
  BY <1>2 DEF TypeOK
<1>5. /\ SeatRows' /\ \A d \in Carts : Owned(d)' = Owned(d) \ Owned(c)
      /\ \A x \in Seats : x \notin Owned(c) => seat'[x] = seat[x]
  BY <1>2, FreedOwned DEF AllFit
<1>6. LineFits(c)' /\ KeepsSeats(c)
  BY <1>1, <1>2, <1>3, <1>4, <1>5 DEF LineFits, KeepsSeats, Active, Minted
<1>7. ASSUME NEW d \in Carts \ {c} PROVE Untouched(d)
  <2>1. Owned(d)' = Owned(d)
    BY <1>5 DEF Owned
  <2> QED
    BY <1>2, <1>4, <2>1 DEF Untouched, SameSale, Sales
<1>8. ASSUME NEW t \in Taps PROVE Waiting(t)
  <2>1. ASSUME Active(t), NEW x \in want[t] PROVE SameHold(x)
    <3>1. x \in Seats /\ seat[x].owner = None
      BY <2>1 DEF AllFit, CounterFits, TypeOK
    <3> QED
      BY <1>5, <3>1, NobodyIsNone DEF Owned, SameHold
  <2>2. t \in Sales \ {c}
    BY NobodyIsNone DEF Sales
  <2> QED
    BY <1>2, <1>4, <2>1, <2>2 DEF Waiting, SameSale
<1>9. Apart'
  BY <1>8, StayApart DEF Waiting, SameSale, Active
<1>10. SweepFits'
  BY <1>1, <1>2 DEF SweepFits
<1> QED
  BY <1>5, <1>6, <1>7, <1>8, <1>9, <1>10, CartFits

\* A step of a sale that is neither at its beginning nor at its end: all others stay
\* as they are, because no seat of theirs is among those that change.
LEMMA OthersStay ==
  ASSUME TypeOK, AllFit, NEW s \in Sales, NEW xs, UNCHANGED <<want, sweep>>,
         \A u \in Sales \ {s} : sale'[u] = sale[u] /\ ticket'[u] = ticket[u],
         \A c \in Carts \ {s} : scrub'[c] \in {scrub[c], None},
         \A x \in Seats \ xs : SameHold(x),
         \A x \in Seats : x \in xs =>
            /\ seat[x].owner \in {s, None}
            /\ seat'[x].owner \in {s, None}
            /\ \A t \in Taps \ {s} : ~(Active(t) /\ x \in want[t])
  PROVE  /\ \A c \in Carts \ {s} : Untouched(c)
         /\ \A t \in Taps \ {s} : Waiting(t)
<1>1. ASSUME NEW c \in Carts \ {s} PROVE Untouched(c)
  <2>1. \A x \in Seats : seat'[x].owner = c <=> seat[x].owner = c
    BY <1>1, NobodyIsNone DEF SameHold
  <2>2. Owned(c)' = Owned(c)
    BY <2>1 DEF Owned
  <2> QED
    BY <2>2 DEF Untouched, SameSale, Sales
<1>2. ASSUME NEW t \in Taps \ {s} PROVE Waiting(t)
  <2>1. want[t] \subseteq Seats
    BY DEF TypeOK
  <2> QED
    BY <2>1 DEF Waiting, SameSale, Sales
<1> QED
  BY <1>1, <1>2

LEMMA ScrubReadFits ==
  ASSUME TypeOK, AllFit, faults' = {}, NEW c \in Carts, ScrubRead(c)
  PROVE  StepFits
<1>1. /\ sweep = None /\ \A d \in Carts : scrub[d] = None
  BY NoFault DEF ScrubRead
<1>2. /\ sale[c].state = "open" /\ UNCHANGED <<seat, sale, want, ticket, sweep>>
      /\ Valid(c) # Owned(c) \/ Cardinality(Valid(c)) < sale[c].qty
      /\ scrub' = [scrub EXCEPT ![c] = Valid(c)]
  BY DEF ScrubRead
<1>3. c \in Sales /\ sale[c].qty \in Nat
  BY ConstantsAssumption DEF TypeOK, Sale, Sales
<1>4. \A d \in Carts : Owned(d)' = Owned(d)
  BY <1>2 DEF Owned
<1>5. scrub'[c] = Valid(c) /\ \A d \in Carts \ {c} : scrub'[d] = scrub[d]
  BY <1>2 DEF TypeOK
<1>6. Valid(c) \subseteq Owned(c) /\ (Owned(c) = {} \/ Valid(c) # Owned(c))
  <2>1. Valid(c) \subseteq Owned(c)
    BY DEF Valid
  <2>2. ASSUME Owned(c) # {} PROVE Cardinality(Owned(c)) = sale[c].qty
    BY <1>2, <2>2 DEF AllFit, LineFits
  <2>3. ASSUME Owned(c) # {}, Valid(c) = Owned(c) PROVE FALSE
    BY <1>2, <1>3, <2>2, <2>3
  <2> QED
    BY <2>1, <2>3
<1>7. LineFits(c)' /\ KeepsSeats(c)
  BY <1>2, <1>4, <1>5, <1>6 DEF AllFit, LineFits, KeepsSeats, Active, Minted
<1>8. \A d \in Carts \ {c} : Untouched(d)
  BY <1>2, <1>4, <1>5 DEF Untouched, SameSale
<1>9. \A t \in Taps : Waiting(t)
  BY <1>2 DEF Waiting, SameSale, SameHold
<1>10. SeatRows' /\ Apart' /\ SweepFits'
  BY <1>1, <1>2 DEF AllFit, SeatRows, Held, Apart, Active, SweepFits
<1> QED
  BY <1>7, <1>8, <1>9, <1>10, CartFits

LEMMA ScrubWriteFits ==
  ASSUME TypeOK, AllFit, faults' = {}, NEW c \in Carts, ScrubWrite(c)
  PROVE  StepFits
<1> DEFINE m == Least(Cardinality(scrub[c]), sale[c].qty)
           n == 0
           gone == [Release(sale[c]) EXCEPT !.qty = n]
           less == [sale[c] EXCEPT !.qty = m]
<1>1. /\ sweep = None /\ \A d \in Carts \ {c} : scrub[d] = None
  BY NoFault, NobodyIsNone DEF ScrubWrite
<1>2. /\ scrub[c] # None /\ seat' = Freed(Owned(c) \ scrub[c])
      /\ sale' = [sale EXCEPT ![c] = IF scrub[c] = {} THEN gone ELSE less]
      /\ scrub' = [scrub EXCEPT ![c] = None] /\ UNCHANGED <<want, ticket, sweep>>
  BY DEF ScrubWrite
<1>3. /\ c \in Sales /\ sale[c] \in Sale /\ sale[c].qty \in Nat
  BY ConstantsAssumption DEF TypeOK, Sale, Sales
<1>4. sale[c].state = "open" /\ scrub[c] \subseteq Owned(c)
      /\ (Owned(c) = {} \/ scrub[c] # Owned(c))
  BY <1>2 DEF AllFit, LineFits
<1>5. /\ gone.state = "open" /\ gone.hold # "held" /\ gone.qty = n
  <2>1. Release(sale[c]) \in Sale /\ Release(sale[c]).state = "open"
        /\ Release(sale[c]).hold # "held"
    BY <1>3, <1>4, ReleaseFields
  <2> HIDE DEF n
  <2> QED
    BY <2>1, Zenon DEF Sale
<1>6. less.state = sale[c].state /\ less.hold = sale[c].hold /\ less.qty = m
  <2> HIDE DEF m
  <2> QED
    BY <1>3, Zenon DEF Sale
<1> HIDE DEF gone, less
<1>7. /\ sale'[c] = IF scrub[c] = {} THEN gone ELSE less
      /\ \A s \in Sales \ {c} : sale'[s] = sale[s]
      /\ \A d \in Carts : scrub'[d] = None
  BY <1>1, <1>2, <1>3 DEF TypeOK
<1>8. /\ SeatRows' /\ \A d \in Carts : Owned(d)' = Owned(d) \ (Owned(c) \ scrub[c])
      /\ \A x \in Seats : x \notin (Owned(c) \ scrub[c]) => seat'[x] = seat[x]
  BY <1>2, FreedOwned DEF AllFit
<1>9. Owned(c)' = scrub[c]
  BY <1>4, <1>8
<1>10. ASSUME sale[c].hold = "held"
       PROVE  /\ Cardinality(Owned(c)) = sale[c].qty
              /\ Cardinality(scrub[c]) = m
              /\ Owned(c) # {} => m # sale[c].qty
  <2>1. Cardinality(Owned(c)) = sale[c].qty
    BY <1>4, <1>10 DEF AllFit, LineFits
  <2>2. /\ Cardinality(scrub[c]) <= Cardinality(Owned(c))
        /\ Cardinality(Owned(c)) = Cardinality(scrub[c]) => Owned(c) = scrub[c]
        /\ Cardinality(scrub[c]) \in Nat
    BY <1>4, OwnersAreSeats, FS_Subset, FS_CardinalityType
  <2> QED
    BY <1>4, <2>1, <2>2 DEF Least
<1>11. LineFits(c)'
  <2>1. CASE scrub[c] = {}
    BY <1>5, <1>7, <1>9, <2>1 DEF LineFits, Active, Minted
  <2>2. CASE scrub[c] # {}
    <3>1. sale[c].hold = "held"
      BY <1>4, <2>2 DEF AllFit, LineFits
    <3> QED
      BY <1>4, <1>6, <1>7, <1>9, <1>10, <2>2, <3>1 DEF LineFits, Active, Minted
  <2> QED
    BY <2>1, <2>2
<1>12. KeepsSeats(c)
  <2>1. CASE scrub[c] = {}
    BY <1>5, <1>7, <2>1 DEF KeepsSeats
  <2>2. CASE scrub[c] # {}
    <3>1. sale[c].hold = "held" /\ Owned(c) # {}
      BY <1>4, <2>2 DEF AllFit, LineFits
    <3> QED
      BY <1>6, <1>7, <1>10, <2>2, <3>1 DEF KeepsSeats
  <2> QED
    BY <2>1, <2>2
<1>13. /\ \A d \in Carts \ {c} : Untouched(d)
       /\ \A t \in Taps \ {c} : Waiting(t)
  <2>1. \A x \in Owned(c) \ scrub[c] : /\ seat[x].owner = c
                                       /\ seat'[x].owner \in {c, None}
                                       /\ \A t \in Taps : ~(Active(t) /\ x \in want[t])
    <3>1. \A x \in Owned(c) \ scrub[c] : seat[x].owner = c
      BY DEF Owned
    <3>2. \A x \in Owned(c) \ scrub[c] : seat'[x].owner \in {c, None}
      BY <1>2, FreeFields DEF Freed, Owned, TypeOK
    <3> QED
      BY <3>1, <3>2, NobodyIsNone DEF AllFit, CounterFits
  <2>2. \A x \in Seats \ (Owned(c) \ scrub[c]) : SameHold(x)
    BY <1>8 DEF SameHold
  <2>3. \A d \in Carts \ {c} : scrub'[d] \in {scrub[d], None}
    BY <1>7
  <2>4. \A u \in Sales \ {c} : sale'[u] = sale[u] /\ ticket'[u] = ticket[u]
    BY <1>2, <1>7
  <2> QED
    BY <1>2, <1>3, <2>1, <2>2, <2>3, <2>4, OthersStay DEF Owned
<1>14. Apart'
  BY <1>13, StayApart, NobodyIsNone DEF Waiting, SameSale, Active
<1>15. SweepFits'
  BY <1>1, <1>2 DEF SweepFits
<1> QED
  BY <1>8, <1>11, <1>12, <1>13, <1>14, <1>15, CartFits, NobodyIsNone

LEMMA CheckoutFits ==
  ASSUME TypeOK, AllFit, faults' = {}, NEW c \in Carts, Checkout(c)
  PROVE  StepFits
<1> DEFINE p == "pending"
           q == sale[c].qty
           l == FALSE
           r == [sale[c] EXCEPT !.state = p, !.ordered = q]
           fresh(x) == [seat[x] EXCEPT !.lapsed = l]
<1>1. /\ sweep = None /\ \A d \in Carts : scrub[d] = None
  BY NoFault DEF Checkout
<1>2. c \in Sales /\ sale[c] \in Sale
  BY DEF TypeOK, Sales
<1>3. /\ sale' = [sale EXCEPT ![c] = r] /\ sale[c].state = "open" /\ sale[c].hold = "held"
      /\ seat' = [x \in Seats |-> IF x \in Owned(c) /\ Held(x) THEN fresh(x) ELSE seat[x]]
      /\ UNCHANGED <<want, ticket, scrub, sweep>>
  BY DEF Checkout
<1>4. r.state = p /\ r.ordered = q /\ r.hold = sale[c].hold
  <2> HIDE DEF p, q
  <2> QED
    BY <1>2, Zenon DEF Sale
<1>5. \A x \in Seats : /\ fresh(x).status = seat[x].status /\ fresh(x).owner = seat[x].owner
                       /\ fresh(x).sold = seat[x].sold
  <2>1. \A x \in Seats : seat[x] \in Seat
    BY DEF TypeOK
  <2> HIDE DEF l
  <2> QED
    BY <2>1, Zenon DEF Seat
<1> HIDE DEF r, fresh
<1>6. sale'[c] = r /\ \A s \in Sales \ {c} : sale'[s] = sale[s]
  BY <1>2, <1>3 DEF TypeOK
<1>7. \A x \in Seats : /\ seat'[x].status = seat[x].status /\ seat'[x].owner = seat[x].owner
                       /\ seat'[x].sold = seat[x].sold
                       /\ x \notin Owned(c) => seat'[x] = seat[x]
  BY <1>3, <1>5
<1>8. SeatRows' /\ Owned(c)' = Owned(c)
  BY <1>7 DEF AllFit, SeatRows, Held, Owned
<1>9. LineFits(c)' /\ KeepsSeats(c)
  BY <1>1, <1>3, <1>4, <1>6, <1>8 DEF AllFit, LineFits, KeepsSeats, Active, Minted
<1>10. /\ \A d \in Carts \ {c} : Untouched(d)
       /\ \A t \in Taps \ {c} : Waiting(t)
  <2>1. \A x \in Seats : x \in Owned(c) =>
            /\ seat[x].owner \in {c, None} /\ seat'[x].owner \in {c, None}
            /\ \A t \in Taps \ {c} : ~(Active(t) /\ x \in want[t])
    BY <1>7, NobodyIsNone DEF Owned, AllFit, CounterFits
  <2>2. \A x \in Seats \ Owned(c) : SameHold(x)
    BY <1>7 DEF SameHold
  <2> QED
    BY <1>2, <1>3, <1>6, <2>1, <2>2, OthersStay
<1>11. Apart'
  BY <1>10, StayApart, NobodyIsNone DEF Waiting, SameSale, Active
<1>12. SweepFits'
  BY <1>1, <1>3 DEF SweepFits
<1> QED
  BY <1>8, <1>9, <1>10, <1>11, <1>12, CartFits, NobodyIsNone

LEMMA PayFits ==
  ASSUME TypeOK, AllFit, faults' = {}, NEW s \in Sales, Pay(s)
  PROVE  StepFits
<1> DEFINE p == "paid"
           r == [sale[s] EXCEPT !.state = p]
<1>1. /\ sweep = None /\ \A d \in Carts : scrub[d] = None
      /\ sale[s].state = "pending"
  BY NoFault DEF Pay
<1>2. sale' = [sale EXCEPT ![s] = r] /\ UNCHANGED <<seat, want, ticket, scrub, sweep>>
  BY DEF Pay
<1>3. r.state = p /\ r.ordered = sale[s].ordered /\ r.hold = sale[s].hold
  <2>1. sale[s] \in Sale
    BY DEF TypeOK
  <2> HIDE DEF p
  <2> QED
    BY <2>1, Zenon DEF Sale
<1> HIDE DEF r
<1>4. sale'[s] = r /\ \A u \in Sales \ {s} : sale'[u] = sale[u]
  BY <1>2 DEF TypeOK
<1>5. \A c \in Carts : Owned(c)' = Owned(c)
  BY <1>2 DEF Owned
<1>6. /\ \A d \in Carts \ {s} : Untouched(d)
      /\ \A t \in Taps \ {s} : Waiting(t)
  BY <1>2, <1>4, <1>5 DEF Untouched, Waiting, SameSale, SameHold, Sales
<1>7. SeatRows' /\ SweepFits'
  BY <1>1, <1>2 DEF AllFit, SeatRows, Held, SweepFits
<1>8. Apart'
  BY <1>1, <1>2, <1>6, StayApart DEF Waiting, SameSale, Active
<1>9. CASE s \in Carts
  <2>1. LineFits(s)' /\ KeepsSeats(s)
    BY <1>1, <1>2, <1>3, <1>4, <1>5, <1>9 DEF AllFit, LineFits, KeepsSeats, Active, Minted
  <2> QED
    BY <1>6, <1>7, <1>8, <1>9, <2>1, CartFits, NobodyIsNone
<1>10. CASE s \in Taps
  <2>1. CounterFits(s)'
    BY <1>1, <1>2, <1>3, <1>4, <1>10 DEF AllFit, CounterFits, Active, Minted, Held
  <2> QED
    BY <1>6, <1>7, <1>8, <1>10, <2>1, TapFits, NobodyIsNone
<1> QED
  BY <1>9, <1>10 DEF Sales

LEMMA ReleaseOrderFits ==
  ASSUME TypeOK, AllFit, faults' = {}, NEW s \in Sales, ReleaseOrder(s)
  PROVE  StepFits
<1> DEFINE p == "released"
           r == [Release(sale[s]) EXCEPT !.state = p]
           xs == IF s \in Taps THEN want[s] ELSE Owned(s)
<1>1. /\ sweep = None /\ \A d \in Carts : scrub[d] = None
      /\ sale[s].state = "pending"
  BY NoFault DEF ReleaseOrder
<1>2. ReleasedSeats(s) = xs
  BY <1>1 DEF ReleasedSeats, AllFit, LineFits, Active, Sales
<1>3. /\ sale' = [sale EXCEPT ![s] = r] /\ seat' = Freed(xs)
      /\ UNCHANGED <<want, ticket, scrub, sweep>>
  BY <1>2 DEF ReleaseOrder
<1>4. r.state = p
  <2>1. Release(sale[s]) \in Sale
    BY ReleaseType DEF TypeOK
  <2> HIDE DEF p
  <2> QED
    BY <2>1, Zenon DEF Sale
<1> HIDE DEF r
<1>5. sale'[s] = r /\ \A u \in Sales \ {s} : sale'[u] = sale[u]
  BY <1>3 DEF TypeOK
<1>6. \A x \in xs : x \in Seats /\ seat[x].owner \in {s, None}
  <2>1. CASE s \in Taps
    BY <1>1, <2>1 DEF AllFit, CounterFits, Active, TypeOK
  <2>2. CASE s \notin Taps
    BY <2>2 DEF Owned
  <2> QED
    BY <2>1, <2>2
<1>7. \A x \in xs, t \in Taps \ {s} : ~(Active(t) /\ x \in want[t])
  <2>1. CASE s \in Taps
    BY <1>1, <2>1 DEF AllFit, Apart, Active
  <2>2. CASE s \notin Taps
    BY <2>2, NobodyIsNone DEF Owned, AllFit, CounterFits
  <2> QED
    BY <2>1, <2>2
<1> HIDE DEF xs
<1>8. /\ SeatRows' /\ \A d \in Carts : Owned(d)' = Owned(d) \ xs
      /\ \A x \in Seats : x \notin xs => seat'[x] = seat[x]
  BY <1>3, FreedOwned DEF AllFit
<1>9. \A x \in xs : seat'[x].owner \in {s, None}
  BY <1>3, <1>6, FreeFields DEF Freed, TypeOK
<1>10. /\ \A d \in Carts \ {s} : Untouched(d)
       /\ \A t \in Taps \ {s} : Waiting(t)
  <2>1. \A x \in Seats \ xs : SameHold(x)
    BY <1>8 DEF SameHold
  <2> QED
    BY <1>3, <1>5, <1>6, <1>7, <1>9, <2>1, OthersStay
<1>11. SweepFits'
  BY <1>1, <1>3 DEF SweepFits
<1>12. Apart'
  BY <1>3, <1>4, <1>5, <1>10, StayApart DEF Waiting, SameSale, Active
<1>13. CASE s \in Carts
  <2>1. Owned(s)' = {}
    BY <1>8, <1>13, NobodyIsNone DEF xs
  <2>2. LineFits(s)' /\ KeepsSeats(s)
    BY <1>1, <1>3, <1>4, <1>5, <1>13, <2>1 DEF LineFits, KeepsSeats, Active, Minted
  <2> QED
    BY <1>8, <1>10, <1>11, <1>12, <1>13, <2>2, CartFits, NobodyIsNone
<1>14. CASE s \in Taps
  <2>1. CounterFits(s)'
    BY <1>4, <1>5, <1>14 DEF CounterFits, Active, Minted
  <2> QED
    BY <1>8, <1>10, <1>11, <1>12, <1>14, <2>1, TapFits, NobodyIsNone
<1> QED
  BY <1>13, <1>14 DEF Sales

\* As many seats as tickets: the fulfilment takes all there are.
LEMMA AllAssigned ==
  ASSUME NEW all \in SUBSET Seats, NEW xs \in SUBSET all, NEW n, Cardinality(all) = n,
         Cardinality(xs) = Least(n, Cardinality(all))
  PROVE  xs = all
<1>1. IsFiniteSet(all) /\ Cardinality(all) \in Nat
  BY ConstantsAssumption, FS_Subset, FS_CardinalityType
<1>2. Cardinality(xs) = Cardinality(all)
  BY <1>1 DEF Least
<1> QED
  BY <1>1, <1>2, FS_Subset

LEMMA MintReadFits ==
  ASSUME TypeOK, AllFit, faults' = {}, NEW s \in Sales, MintRead(s)
  PROVE  StepFits
<1> DEFINE p == "minting"
           r == [sale[s] EXCEPT !.state = p]
           all == IF s \in Carts THEN Owned(s) ELSE want[s]
<1>1. /\ sweep = None /\ \A d \in Carts : scrub[d] = None
      /\ sale[s].state = "paid"
  BY NoFault DEF MintRead
<1>2. sale' = [sale EXCEPT ![s] = r] /\ UNCHANGED <<seat, want, scrub, sweep>>
  BY DEF MintRead
<1>3. r.state = p /\ r.ordered = sale[s].ordered /\ r.hold = sale[s].hold
  <2>1. sale[s] \in Sale
    BY DEF TypeOK
  <2> HIDE DEF p
  <2> QED
    BY <2>1, Zenon DEF Sale
<1> HIDE DEF r
<1>4. /\ Assigned(s) = all /\ Cardinality(all) = sale[s].ordered /\ all \in SUBSET Seats
  <2>1. CASE s \in Carts
    BY <1>1, <2>1 DEF Assigned, AllFit, LineFits, Active, Owned
  <2>2. CASE s \notin Carts
    <3>1. s \in Taps
      BY <2>2 DEF Sales
    <3>2. want[s] \subseteq Seats /\ \A x \in want[s] : Held(x)
      BY <1>1, <3>1 DEF AllFit, CounterFits, Active, TypeOK
    <3>3. Cardinality(want[s]) = sale[s].ordered
      BY <1>1, <3>1 DEF AllFit, CounterFits, Active
    <3> QED
      BY <2>2, <3>2, <3>3 DEF Assigned
  <2> QED
    BY <2>1, <2>2
<1>5. ticket' = [ticket EXCEPT ![s] = all]
  <2> HIDE DEF all
  <2>1. PICK xs \in SUBSET all : /\ Cardinality(xs) = Least(sale[s].ordered, Cardinality(all))
                                 /\ ticket' = [ticket EXCEPT ![s] = xs]
    BY <1>4 DEF MintRead
  <2>2. xs = all
    BY <1>4, <2>1, AllAssigned
  <2> QED
    BY <2>1, <2>2
<1>6. /\ sale'[s] = r /\ ticket'[s] = all
      /\ \A u \in Sales \ {s} : sale'[u] = sale[u] /\ ticket'[u] = ticket[u]
  BY <1>2, <1>5 DEF TypeOK
<1>7. \A c \in Carts : Owned(c)' = Owned(c)
  BY <1>2 DEF Owned
<1>8. /\ \A d \in Carts \ {s} : Untouched(d)
      /\ \A t \in Taps \ {s} : Waiting(t)
  BY <1>2, <1>6, <1>7 DEF Untouched, Waiting, SameSale, SameHold, Sales
<1>9. SeatRows' /\ SweepFits'
  BY <1>1, <1>2 DEF AllFit, SeatRows, Held, SweepFits
<1>10. Apart'
  BY <1>1, <1>2, <1>8, StayApart DEF Waiting, SameSale, Active
<1>11. CASE s \in Carts
  <2>1. LineFits(s)' /\ KeepsSeats(s)
    BY <1>1, <1>2, <1>3, <1>6, <1>7, <1>11 DEF AllFit, LineFits, KeepsSeats, Active, Minted
  <2> QED
    BY <1>8, <1>9, <1>10, <1>11, <2>1, CartFits, NobodyIsNone
<1>12. CASE s \in Taps
  <2>1. CounterFits(s)'
    BY <1>1, <1>2, <1>3, <1>6, <1>12, NobodyIsNone DEF AllFit, CounterFits, Active, Minted, Held
  <2> QED
    BY <1>8, <1>9, <1>10, <1>12, <2>1, TapFits, NobodyIsNone
<1> QED
  BY <1>11, <1>12 DEF Sales

LEMMA MintWriteFits ==
  ASSUME TypeOK, AllFit, faults' = {}, NEW s \in Sales, MintWrite(s)
  PROVE  StepFits
<1> DEFINE p == "fulfilled"
           st == "sold"
           r == [Release(sale[s]) EXCEPT !.state = p]
           xs == IF s \in Taps THEN want[s] ELSE Owned(s)
           Mine(x) == [Free(seat[x]) EXCEPT !.status = st, !.sold = s]
<1>1. /\ sweep = None /\ sale[s].state = "minting"
      /\ \A d \in Carts \ {s} : scrub[d] = None
  <2> HIDE DEF p, st, r, xs, Mine
  <2>1. Step({s}, {}) /\ sale[s].state = "minting"
    BY DEF MintWrite
  <2>2. /\ sweep # None => None \in {s}
        /\ \A d \in Carts : scrub[d] # None => d \in {s}
    BY <2>1, NoFault
  <2>3. None # s
    BY NobodyIsNone
  <2> QED
    BY <2>1, <2>2, <2>3
<1>2. s \in Carts => scrub[s] = None
  <2>1. ASSUME s \in Carts, scrub[s] # None PROVE FALSE
    <3>1. LineFits(s)
      BY <2>1 DEF AllFit
    <3>2. sale[s].state = "open"
      BY <2>1, <3>1 DEF LineFits
    <3> QED
      BY <1>1, <3>2
  <2> QED
    BY <2>1
<1>3. ticket[s] = xs
  <2>1. CASE s \in Taps
    BY <1>1, <2>1 DEF AllFit, CounterFits
  <2>2. CASE s \in Carts
    BY <1>1, <2>2, NobodyIsNone DEF AllFit, LineFits
  <2> QED
    BY <2>1, <2>2 DEF Sales
<1>4. \A x \in xs : x \in Seats /\ Held(x) /\ seat[x].owner \in {s, None}
                    /\ (seat[x].owner = None => s \in Taps)
  <2>1. CASE s \in Taps
    BY <1>1, <2>1 DEF AllFit, CounterFits, Active, TypeOK
  <2>2. CASE s \notin Taps
    BY <2>2, NobodyIsNone DEF Owned, AllFit, SeatRows, Sales
  <2> QED
    BY <2>1, <2>2
<1>5. \A x \in xs, t \in Taps \ {s} : ~(Active(t) /\ x \in want[t])
  <2>1. CASE s \in Taps
    BY <1>1, <2>1 DEF AllFit, Apart, Active
  <2>2. CASE s \notin Taps
    BY <2>2, NobodyIsNone DEF Owned, AllFit, CounterFits
  <2> QED
    BY <2>1, <2>2
<1>6. Cardinality(xs) = sale[s].ordered
  BY <1>1, NobodyIsNone DEF AllFit, LineFits, CounterFits, Active, Sales
<1>7. s \in Carts => xs = Owned(s)
  BY NobodyIsNone
<1> HIDE DEF xs
<1>8. /\ seat' = [x \in Seats |-> IF x \in xs THEN Mine(x) ELSE seat[x]]
      /\ sale' = [sale EXCEPT ![s] = r]
      /\ UNCHANGED <<ticket, want, scrub, sweep>>
  BY <1>3, <1>4 DEF MintWrite, MayMark
<1>9. r.state = p /\ r.ordered = sale[s].ordered
  <2>1. Release(sale[s]) \in Sale /\ Release(sale[s]).ordered = sale[s].ordered
    BY ReleaseFields DEF TypeOK
  <2>2. r.state = p /\ r.ordered = Release(sale[s]).ordered
    <3> HIDE DEF p
    <3> QED
      BY <2>1, Zenon DEF Sale
  <2> QED
    BY <2>1, <2>2
<1>10. \A x \in Seats : Mine(x).status = st /\ Mine(x).owner = None
  <2>1. \A x \in Seats : Free(seat[x]) \in Seat /\ Free(seat[x]).owner = None
    BY FreeFields DEF TypeOK
  <2>2. \A x \in Seats : Mine(x).status = st /\ Mine(x).owner = Free(seat[x]).owner
    <3> HIDE DEF st
    <3> QED
      BY <2>1, Zenon DEF Seat
  <2> QED
    BY <2>1, <2>2
<1> HIDE DEF r, Mine
<1>11. sale'[s] = r /\ \A u \in Sales \ {s} : sale'[u] = sale[u]
  BY <1>8 DEF TypeOK
<1>12. SeatRows'
  BY <1>8, <1>10 DEF AllFit, SeatRows, Held
<1>13. /\ \A d \in Carts \ {s} : Untouched(d)
       /\ \A t \in Taps \ {s} : Waiting(t)
  <2>1. \A x \in Seats \ xs : SameHold(x)
    BY <1>8 DEF SameHold
  <2>2. \A x \in xs : seat'[x].owner \in {s, None}
    BY <1>4, <1>8, <1>10
  <2> QED
    BY <1>4, <1>5, <1>8, <1>11, <2>1, <2>2, OthersStay
<1>14. SweepFits'
  BY <1>1, <1>8 DEF SweepFits
<1>15. Apart'
  BY <1>8, <1>9, <1>11, <1>13, StayApart DEF Waiting, SameSale, Active
<1>16. CASE s \in Carts
  <2>1. Owned(s)' = {}
    BY <1>4, <1>7, <1>8, <1>10, <1>16, NobodyIsNone DEF Owned
  <2>2. LineFits(s)' /\ KeepsSeats(s)
    BY <1>1, <1>2, <1>3, <1>6, <1>8, <1>9, <1>11, <1>16, <2>1
       DEF LineFits, KeepsSeats, Active, Minted
  <2> QED
    BY <1>12, <1>13, <1>14, <1>15, <1>16, <2>2, CartFits, NobodyIsNone
<1>17. CASE s \in Taps
  <2>1. CounterFits(s)'
    BY <1>3, <1>6, <1>8, <1>9, <1>11, <1>17 DEF CounterFits, Active, Minted
  <2> QED
    BY <1>12, <1>13, <1>14, <1>15, <1>17, <2>1, TapFits, NobodyIsNone
<1> QED
  BY <1>16, <1>17 DEF Sales

LEMMA CancelFits ==
  ASSUME TypeOK, AllFit, faults' = {}, NEW s \in Sales, Cancel(s)
  PROVE  StepFits
<1> DEFINE p == "cancelled"
           r == [sale[s] EXCEPT !.state = p]
<1>1. /\ sweep = None /\ sale[s].state = "fulfilled" /\ \A d \in Carts : scrub[d] = None
  BY NoFault DEF Cancel
<1>2. /\ sale' = [sale EXCEPT ![s] = r] /\ ticket' = [ticket EXCEPT ![s] = {}]
      /\ seat' = [x \in Seats |-> IF x \in Restored(s) THEN Free(seat[x]) ELSE seat[x]]
      /\ UNCHANGED <<want, scrub, sweep>>
  BY DEF Cancel
<1>3. r.state = p
  <2>1. sale[s] \in Sale
    BY DEF TypeOK
  <2> HIDE DEF p
  <2> QED
    BY <2>1, Zenon DEF Sale
<1> HIDE DEF r
<1>4. /\ sale'[s] = r
      /\ \A u \in Sales \ {s} : sale'[u] = sale[u] /\ ticket'[u] = ticket[u]
  BY <1>2 DEF TypeOK
<1>5. \A x \in Restored(s) : x \in Seats /\ ~Held(x) /\ seat[x].owner = None
  BY NobodyIsNone DEF Restored, AllFit, SeatRows
<1>6. \A x \in Seats : /\ x \in Restored(s) => seat'[x].owner = None /\ seat'[x].status = "available"
                       /\ x \notin Restored(s) => seat'[x] = seat[x]
  BY <1>2, FreeFields DEF TypeOK
<1>7. SeatRows'
  BY <1>6 DEF AllFit, SeatRows, Held
<1>8. /\ \A d \in Carts \ {s} : Untouched(d)
      /\ \A t \in Taps \ {s} : Waiting(t)
  <2>1. \A x \in Seats \ Restored(s) : SameHold(x)
    BY <1>6 DEF SameHold
  <2>2. \A x \in Restored(s), t \in Taps \ {s} : ~(Active(t) /\ x \in want[t])
    BY <1>5 DEF AllFit, CounterFits
  <2> QED
    BY <1>2, <1>4, <1>5, <1>6, <2>1, <2>2, OthersStay
<1>9. SweepFits'
  BY <1>1, <1>2 DEF SweepFits
<1>10. Apart'
  BY <1>2, <1>3, <1>4, <1>8, StayApart DEF Waiting, SameSale, Active
<1>11. CASE s \in Carts
  <2>1. Owned(s) = {}
    BY <1>1, <1>11 DEF AllFit, LineFits
  <2>2. Owned(s)' = {}
    BY <1>6, <1>11, <2>1, NobodyIsNone DEF Owned
  <2>3. LineFits(s)' /\ KeepsSeats(s)
    BY <1>1, <1>2, <1>3, <1>4, <1>11, <2>1, <2>2 DEF LineFits, KeepsSeats, Active, Minted
  <2> QED
    BY <1>7, <1>8, <1>9, <1>10, <1>11, <2>3, CartFits, NobodyIsNone
<1>12. CASE s \in Taps
  <2>1. CounterFits(s)'
    BY <1>3, <1>4, <1>12 DEF CounterFits, Active, Minted
  <2> QED
    BY <1>7, <1>8, <1>9, <1>10, <1>12, <2>1, TapFits, NobodyIsNone
<1> QED
  BY <1>11, <1>12 DEF Sales

LEMMA SweepReadFits ==
  ASSUME TypeOK, AllFit, faults' = {}, SweepRead
  PROVE  StepFits
<1>1. UNCHANGED <<seat, sale, want, ticket, scrub>> /\ sweep' = Found
  BY DEF SweepRead
<1>2. \A c \in Carts : Untouched(c)
  BY <1>1 DEF Untouched, SameSale, Owned
<1>3. \A t \in Taps : Waiting(t)
  BY <1>1 DEF Waiting, SameSale, SameHold
<1>4. SeatRows' /\ Apart'
  BY <1>1 DEF AllFit, SeatRows, Held, Apart, Active
<1>5. \A x \in Found.seats : Lapsed(x) /\ seat[x].owner = None
  BY DEF Found
<1>6. ASSUME NEW c \in Found.lines
      PROVE  sale[c].state = "open" /\ \E x \in Owned(c) : seat[x].lapsed
  <2>1. c \in Losers(Seats)
    BY DEF Found
  <2>2. c \in Carts /\ ~Protected(c) /\ \E x \in Owned(c) : seat[x].lapsed
    BY <2>1 DEF Losers, Owned, Lapsed
  <2>3. sale[c] \in Sale
    BY <2>2 DEF TypeOK, Sales
  <2> QED
    BY <2>2, <2>3 DEF Protected, Bound, AllFit, LineFits, Active, Sale, State
<1>7. SweepFits'
  <2>1. (\A x \in Found.seats : Lapsed(x) /\ seat[x].owner = None)'
    BY <1>1, <1>5 DEF Found, Lapsed, Held, Losers, Protected, Bound
  <2> QED
    BY <1>1, <1>5, <1>6 DEF SweepFits, Lapsed, Held, Owned
<1> QED
  BY <1>2, <1>3, <1>4, <1>7, NobodyFits

LEMMA SweepWriteFits ==
  ASSUME TypeOK, AllFit, faults' = {}, SweepWrite
  PROVE  StepFits
<1> DEFINE lines == sweep.lines
           xs == sweep.seats \cup UNION {Owned(c) : c \in lines}
<1>1. \A d \in Carts : scrub[d] = None
  BY NoFault, NobodyIsNone DEF SweepWrite
<1>2. /\ sweep # None /\ seat' = Freed(xs) /\ sale' = Unhold(lines) /\ sweep' = None
      /\ UNCHANGED <<want, ticket, scrub>>
  BY DEF SweepWrite, SweptHolds
<1>3. /\ lines \subseteq Carts
      /\ \A x \in sweep.seats : Lapsed(x) /\ seat[x].owner = None
      /\ \A c \in lines : sale[c].state = "open" /\ \E x \in Owned(c) : seat[x].lapsed
  BY <1>2 DEF TypeOK, AllFit, SweepFits
<1> HIDE DEF lines
<1>4. /\ SeatRows' /\ \A d \in Carts : Owned(d)' = Owned(d) \ xs
      /\ \A x \in Seats : x \notin xs => seat'[x] = seat[x]
  <2> HIDE DEF xs
  <2> QED
    BY <1>2, FreedOwned DEF AllFit
<1>5. \A d \in Carts : Owned(d)' = IF d \in lines THEN {} ELSE Owned(d)
  BY <1>3, <1>4, NobodyIsNone DEF Owned
<1>6. ASSUME NEW c \in Carts PROVE Untouched(c) \/ Lost(c)
  <2>1. CASE c \in lines
    <3>1. ~Protected(c) /\ scrub'[c] = None
      BY <1>1, <1>2, <1>3, <2>1 DEF Protected, Bound
    <3> QED
      BY <1>2, <1>3, <1>5, <2>1, <3>1, UnholdFields DEF Lost
  <2>2. CASE c \notin lines
    BY <1>2, <1>3, <1>5, <2>2, UnholdFields DEF Untouched, SameSale, Sales
  <2> QED
    BY <2>1, <2>2
<1>7. ASSUME NEW t \in Taps PROVE Waiting(t)
  <2>1. t \in Sales \ lines
    BY <1>3, NobodyIsNone DEF Sales
  <2>2. ASSUME Active(t), NEW x \in want[t] PROVE SameHold(x)
    <3>1. x \in Seats /\ seat[x].owner = None /\ ~seat[x].lapsed
      BY <2>2 DEF AllFit, CounterFits, TypeOK
    <3>2. x \notin xs
      BY <1>3, <3>1, NobodyIsNone DEF Owned, Lapsed
    <3> QED
      BY <1>4, <3>1, <3>2 DEF SameHold
  <2> QED
    BY <1>2, <1>3, <2>1, <2>2, UnholdFields DEF Waiting, SameSale
<1>8. Apart'
  BY <1>7, StayApart DEF Waiting, SameSale, Active
<1>9. SweepFits'
  BY <1>2 DEF SweepFits
<1> QED
  BY <1>4, <1>6, <1>7, <1>8, <1>9, NobodyFits

\* Time and staff: a seat changes its lock or its lapse, a hold its lapse.
LEMMA SeatFits ==
  ASSUME TypeOK, AllFit, faults' = {}, NEW x \in Seats, Lock(x) \/ Unlock(x)
  PROVE  StepFits
<1> DEFINE b == Lock(x)
           r == [seat[x] EXCEPT !.locked = b]
<1>1. sweep = None
  BY NoFault DEF Lock, Unlock
<1>2. /\ seat' = [seat EXCEPT ![x] = r]
      /\ UNCHANGED <<sale, want, ticket, scrub, sweep>>
  BY DEF Lock, Unlock
<1>3. r.status = seat[x].status /\ r.owner = seat[x].owner /\ r.sold = seat[x].sold
      /\ r.lapsed = seat[x].lapsed
  <2>1. seat[x] \in Seat
    BY DEF TypeOK
  <2> HIDE DEF b
  <2> QED
    BY <2>1, Zenon DEF Seat
<1> HIDE DEF r
<1>4. \A y \in Seats : SameHold(y) /\ seat'[y].sold = seat[y].sold
  BY <1>2, <1>3 DEF SameHold, TypeOK
<1>5. SeatRows' /\ \A c \in Carts : Owned(c)' = Owned(c)
  BY <1>4 DEF SameHold, AllFit, SeatRows, Held, Owned
<1>6. \A c \in Carts : Untouched(c)
  BY <1>2, <1>5 DEF Untouched, SameSale
<1>7. \A t \in Taps : Waiting(t)
  BY <1>2, <1>4 DEF Waiting, SameSale, TypeOK
<1>8. Apart' /\ SweepFits'
  BY <1>1, <1>2 DEF AllFit, Apart, Active, SweepFits
<1> QED
  BY <1>5, <1>6, <1>7, <1>8, NobodyFits

LEMMA LapseFits ==
  ASSUME TypeOK, AllFit, faults' = {}, NEW x \in Seats, Lapse(x)
  PROVE  StepFits
<1> DEFINE b == TRUE
           r == [seat[x] EXCEPT !.lapsed = b]
<1>1. ~(seat[x].owner = None /\ Awaited(x))
  BY NoFault DEF Lapse
<1>2. /\ seat' = [seat EXCEPT ![x] = r] /\ Held(x)
      /\ UNCHANGED <<sale, want, ticket, scrub, sweep>>
  BY DEF Lapse
<1>3. r.status = seat[x].status /\ r.owner = seat[x].owner /\ r.sold = seat[x].sold
      /\ r.lapsed = b
  <2>1. seat[x] \in Seat
    BY DEF TypeOK
  <2> HIDE DEF b
  <2> QED
    BY <2>1, Zenon DEF Seat
<1> HIDE DEF r
<1>4. \A y \in Seats : /\ seat'[y].status = seat[y].status /\ seat'[y].owner = seat[y].owner
                       /\ seat'[y].sold = seat[y].sold
                       /\ seat[y].lapsed => seat'[y].lapsed
                       /\ y # x => SameHold(y)
  BY <1>2, <1>3 DEF SameHold, TypeOK
<1>5. SeatRows' /\ \A c : Owned(c)' = Owned(c)
  BY <1>4 DEF AllFit, SeatRows, Held, Owned
<1>6. \A c \in Carts : Untouched(c)
  BY <1>2, <1>5 DEF Untouched, SameSale
<1>7. ASSUME NEW t \in Taps PROVE Waiting(t)
  <2>1. ASSUME Active(t), NEW y \in want[t] PROVE SameHold(y)
    <3>1. y \in Seats /\ seat[y].owner = None /\ Awaited(y)
      BY <2>1 DEF AllFit, CounterFits, TypeOK, Awaited, Active
    <3> QED
      BY <1>1, <1>4, <3>1
  <2> QED
    BY <1>2, <2>1 DEF Waiting, SameSale
<1>8. Apart'
  BY <1>2 DEF AllFit, Apart, Active
<1>9. SweepFits'
  <2>1. SUFFICES ASSUME sweep # None PROVE SweepFits'
    BY <1>2 DEF SweepFits
  <2>2. /\ \A y \in sweep.seats : y \in Seats /\ Lapsed(y) /\ seat[y].owner = None
        /\ \A c \in sweep.lines : sale[c].state = "open" /\ \E y \in Owned(c) : seat[y].lapsed
    BY <2>1 DEF AllFit, SweepFits, TypeOK
  <2>3. \A c \in sweep.lines : \E y \in Owned(c)' : seat'[y].lapsed
    BY <1>4, <1>5, <2>2 DEF Owned
  <2> QED
    BY <1>2, <1>4, <2>2, <2>3 DEF SweepFits, Lapsed, Held
<1> QED
  BY <1>5, <1>6, <1>7, <1>8, <1>9, NobodyFits

LEMMA HoldLapsesFits ==
  ASSUME TypeOK, AllFit, faults' = {}, NEW c \in Carts, HoldLapses(c)
  PROVE  StepFits
<1> DEFINE b == TRUE
           r == [sale[c] EXCEPT !.lapsed = b]
<1>1. /\ sale' = [sale EXCEPT ![c] = r] /\ UNCHANGED <<seat, want, ticket, scrub, sweep>>
  BY DEF HoldLapses
<1>2. /\ r.state = sale[c].state /\ r.qty = sale[c].qty /\ r.ordered = sale[c].ordered
      /\ r.hold = sale[c].hold
  <2>1. sale[c] \in Sale
    BY DEF TypeOK, Sales
  <2> HIDE DEF b
  <2> QED
    BY <2>1, Zenon DEF Sale
<1> HIDE DEF r
<1>3. \A s \in Sales : SameSale(s)
  BY <1>1, <1>2 DEF SameSale, TypeOK
<1>4. \A d \in Carts : Untouched(d)
  BY <1>1, <1>3 DEF Untouched, Owned, Sales
<1>5. \A t \in Taps : Waiting(t)
  BY <1>1, <1>3 DEF Waiting, SameHold, Sales
<1>6. SeatRows' /\ Apart'
  BY <1>1, <1>3 DEF AllFit, SeatRows, Held, Apart, Active, SameSale, Sales
<1>7. SweepFits'
  <2>1. sweep # None => sweep.lines \subseteq Sales
    BY DEF TypeOK, Sales
  <2> QED
    BY <1>1, <1>3, <2>1 DEF AllFit, SweepFits, SameSale, Lapsed, Held, Owned
<1> QED
  BY <1>4, <1>5, <1>6, <1>7, NobodyFits

LEMMA StutterFits ==
  ASSUME TypeOK, AllFit, UNCHANGED vars
  PROVE  StepFits
<1>1. \A c \in Carts : Untouched(c)
  BY DEF vars, Untouched, SameSale, Owned
<1>2. \A t \in Taps : Waiting(t)
  BY DEF vars, Waiting, SameSale, SameHold
<1>3. SeatRows' /\ Apart' /\ SweepFits'
  BY DEF vars, AllFit, SeatRows, Held, Apart, Active, SweepFits, Lapsed, Owned
<1> QED
  BY <1>1, <1>2, <1>3, NobodyFits

-----------------------------------------------------------------------------
\* As long as no fault is counted everything fits, ...
LEMMA FitsNext ==
  ASSUME TypeOK, AllFit, [Next]_vars, faults' = {}
  PROVE  StepFits
<1>1. CASE \E c \in Carts : \/ \E xs \in SUBSET Seats \ {{}} : Pick(c, xs)
                            \/ Empty(c) \/ ScrubRead(c) \/ ScrubWrite(c) \/ Checkout(c)
                            \/ HoldLapses(c)
  BY <1>1, PickFits, EmptyFits, ScrubReadFits, ScrubWriteFits, CheckoutFits, HoldLapsesFits
<1>2. CASE \E t \in Taps, xs \in SUBSET Seats \ {{}}, state \in {"pending", "paid"} :
             Sell(t, xs, state)
  BY <1>2, SellFits
<1>3. CASE \E s \in Sales : Settle(s) \/ Mint(s) \/ Cancel(s)
  BY <1>3, PayFits, ReleaseOrderFits, MintReadFits, MintWriteFits, CancelFits DEF Settle, Mint
<1>4. CASE \E x \in Seats : Lock(x) \/ Unlock(x) \/ Lapse(x)
  BY <1>4, SeatFits, LapseFits
<1>5. CASE Sweep
  BY <1>5, SweepReadFits, SweepWriteFits DEF Sweep
<1>6. CASE UNCHANGED vars
  BY <1>6, StutterFits
<1> QED
  BY <1>1, <1>2, <1>3, <1>4, <1>5, <1>6 DEF Next

\* ... and faults are not forgotten.
LEMMA FaultsStay == [Next]_vars => faults \subseteq faults'
BY DEF Next, Pick, Sell, Empty, ScrubRead, ScrubWrite, Checkout, HoldLapses, Settle, Pay,
       ReleaseOrder, Mint, MintRead, MintWrite, Cancel, Sweep, SweepRead, SweepWrite, Lock,
       Unlock, Lapse, Step, vars

CalmInv == TypeOK /\ SeatsAgree /\ (faults = {} => AllFit)

LEMMA CalmInit == Init => CalmInv
<1> SUFFICES ASSUME Init PROVE CalmInv
  OBVIOUS
<1>1. \A c \in Carts : Owned(c) = {}
  BY NobodyIsNone DEF Init, Owned
<1>2. /\ \A s \in Sales : sale[s].state = "open" /\ sale[s].hold = "none"
      /\ \A c \in Carts : scrub[c] = None
  BY DEF Init
<1>3. \A c \in Carts : LineFits(c)
  BY <1>1, <1>2 DEF LineFits, Active, Minted, Sales
<1>4. \A t \in Taps : CounterFits(t)
  BY <1>2 DEF CounterFits, Active, Minted, Sales
<1>5. SeatRows /\ Apart /\ SweepFits
  BY <1>2 DEF Init, SeatRows, Held, Apart, Active, SweepFits, Sales
<1> QED
  BY <1>3, <1>4, <1>5, SeatsInit DEF CalmInv, AllFit

LEMMA CalmNext == CalmInv /\ [Next]_vars => CalmInv'
<1> SUFFICES ASSUME CalmInv, [Next]_vars PROVE CalmInv'
  OBVIOUS
<1>1. TypeOK' /\ SeatsAgree'
  BY SeatsNext DEF CalmInv
<1>2. ASSUME faults' = {} PROVE AllFit'
  <2>1. faults = {}
    BY <1>2, FaultsStay
  <2> QED
    BY <1>2, <2>1, FitsNext DEF CalmInv, StepFits
<1> QED
  BY <1>1, <1>2 DEF CalmInv

LEMMA CalmAlways == Spec => []CalmInv
BY CalmInit, CalmNext, PTL DEF Spec

\* Seats and hold of an open cart live and die together, for any number of carts, seats
\* and box-office sales, whoever reclaims, sweeps, scrubs, locks and releases.
THEOREM SeatsAndHold == Spec => []SeatsFollowHold
<1>1. CalmInv => SeatsFollowHold
  BY DEF CalmInv, AllFit, LineFits, SeatsFollowHold
<1> QED
  BY <1>1, CalmAlways, PTL

\* From the checkout or the counter on, an order has all of its seats until each of its
\* tickets has one.
THEOREM OrdersAreSeated == Spec => []OrderIsSeated
<1>1. ASSUME CalmInv, faults = {}, NEW s \in Sales
      PROVE  /\ Active(s) => Cardinality(Reserved(s)) = sale[s].ordered
             /\ Minted(s) => Cardinality(ticket[s]) = sale[s].ordered
  <2>1. CASE s \in Carts
    BY <1>1, <2>1 DEF CalmInv, AllFit, LineFits, Reserved
  <2>2. CASE s \notin Carts
    <3>1. s \in Taps
      BY <2>2 DEF Sales
    <3>2. Active(s) => Reserved(s) = want[s]
      BY <1>1, <2>2, <3>1 DEF CalmInv, AllFit, CounterFits, Reserved
    <3> QED
      BY <1>1, <3>1, <3>2 DEF CalmInv, AllFit, CounterFits
  <2> QED
    BY <2>1, <2>2
<1>2. CalmInv => OrderIsSeated
  BY <1>1 DEF OrderIsSeated, Active
<1> QED
  BY <1>2, CalmAlways, PTL

\* Nobody loses a seat to somebody else's release while none of its seats has lapsed.
THEOREM FreshSeatsKept == Spec => KeptWhileFresh
<1>1. ASSUME CalmInv, [Next]_vars, faults' = {}, NEW c \in Carts, NEW x \in Valid(c),
             Valid(c) = Owned(c), sale[c].qty > 0
      PROVE  \/ seat'[x].owner = c
             \/ sale'[c].qty # sale[c].qty \/ sale'[c].state # sale[c].state
  <2>1. faults = {}
    BY <1>1, FaultsStay
  <2>2. KeepsSeats(c)
    BY <1>1, <2>1, FitsNext DEF CalmInv, StepFits
  <2>3. Owned(c) \subseteq Owned(c)' => seat'[x].owner = c
    BY <1>1 DEF Owned
  <2> QED
    BY <1>1, <2>2, <2>3 DEF KeepsSeats
<1>2. CalmInv /\ [Next]_vars =>
        [faults' = {} => \A c \in Carts : \A x \in Valid(c) :
          Valid(c) = Owned(c) /\ sale[c].qty > 0 =>
              \/ seat'[x].owner = c
              \/ sale'[c].qty # sale[c].qty \/ sale'[c].state # sale[c].state]_vars
  BY <1>1
<1> QED
  BY <1>2, CalmAlways, PTL DEF Spec, KeptWhileFresh
=============================================================================
