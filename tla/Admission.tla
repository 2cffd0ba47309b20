------------------------------ MODULE Admission ------------------------------
(***************************************************************************)
(* What the entry path promises, whatever it checks besides: a book of     *)
(* symbols that several workers add to.  A worker is admitted for a symbol *)
(* the book does not hold, and only while the book holds no more than      *)
(* Limit; it then enters the symbol or gives up.  Symbols leave the book   *)
(* at any time, and some appear in it that nobody was admitted for.        *)
(* Looking and entering are two steps, so every worker can look before any *)
(* of them enters: the book may outgrow Limit, but by no more than one     *)
(* symbol for each worker.                                                 *)
(***************************************************************************)
EXTENDS Naturals, FiniteSets

CONSTANTS
  Symbols,  (* what may be entered                                           *)
  Workers,  (* who may be admitted                                           *)
  Limit,    (* the largest book a worker is still admitted to                *)
  NoSymbol  (* what a worker holds that is not admitted                      *)

VARIABLES
  book,     (* the symbols entered                                           *)
  held,     (* the symbol each worker is admitted for                        *)
  strays    (* the symbols of the book nobody was admitted for               *)

bookVars == <<book, held, strays>>

BookInit ==
  /\ book = {} /\ strays = {}
  /\ held = [w \in Workers |-> NoSymbol]

Admit(w, s) ==
  /\ Cardinality(book) <= Limit /\ s \notin book
  /\ held' = [held EXCEPT ![w] = s]
  /\ UNCHANGED <<book, strays>>

GiveUp(W) ==
  /\ held' = [w \in Workers |-> IF w \in W THEN NoSymbol ELSE held[w]]
  /\ UNCHANGED <<book, strays>>

\* The symbol enters the book ahead of its worker, or with it.
EnterEarly(w) ==
  /\ held[w] # NoSymbol
  /\ book' = book \cup {held[w]}
  /\ UNCHANGED <<held, strays>>

Enter(w) ==
  /\ held[w] # NoSymbol
  /\ book' = book \cup {held[w]}
  /\ held' = [held EXCEPT ![w] = NoSymbol]
  /\ UNCHANGED strays

Leave(s) ==
  /\ book' = book \ {s} /\ strays' = strays \ {s}
  /\ UNCHANGED held

Appear(s) ==
  /\ book' = book \cup {s} /\ strays' = strays \cup {s}
  /\ UNCHANGED held

BookNext ==
  \/ \E w \in Workers, s \in Symbols : Admit(w, s)
  \/ \E W \in SUBSET Workers : GiveUp(W)
  \/ \E w \in Workers : EnterEarly(w) \/ Enter(w)
  \/ \E s \in Symbols : Leave(s) \/ Appear(s)

BookSpec == BookInit /\ [][BookNext]_bookVars

\* What is in the book or may still get there, by admission.
Held == {held[w] : w \in Workers}
Claimed == ((book \ strays) \cup Held) \ {NoSymbol}

\* The book outgrows the limit by no more than one symbol for each worker.
Bounded == Cardinality(Claimed) <= Limit + Cardinality(Workers)

=============================================================================
