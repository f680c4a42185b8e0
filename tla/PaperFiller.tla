----------------------------- MODULE PaperFiller ----------------------------
(***************************************************************************)
(* services/execution/paper_filler.py: the fill a paper order gets from a  *)
(* snapshot of the top of the book.  The fee rate is FeeNum / FeeDen (2 %  *)
(* in the code).                                                           *)
(***************************************************************************)
EXTENDS DecimalHelpers

CONSTANTS FeeNum, FeeDen,
          None              \* an empty side of the book, no book, no fill

ASSUME FeeAssumption == FeeNum \in Nat /\ FeeDen \in Nat \ {0}
ASSUME NoneAssumption == None \notin Int

BookType == [best_bid : Nat \cup {None}, best_ask : Nat \cup {None},
             bid_depth : Nat, ask_depth : Nat]

FillType == [size : Nat, price : Nat, fee : Nat]

Smaller(a, b) == IF a < b THEN a ELSE b

(* The side of the book the order trades against. *)
Opposite(side, book) ==
  IF side = "buy" THEN [price |-> book.best_ask, depth |-> book.ask_depth]
                  ELSE [price |-> book.best_bid, depth |-> book.bid_depth]

Marketable(side, limit, price) ==
  /\ price # None
  /\ IF side = "buy" THEN limit >= price ELSE limit <= price

(* Faulty: the depth at the level is ignored. *)
FilledSizeIgnoringDepth(size, depth) == quantize_size(size)

FilledSize(size, depth) == quantize_size(Smaller(size, depth))

Fee(size, price) == quantize_cash((size * price * FeeNum) \div FeeDen)

(* Faulty: an order that rounds to nothing is filled with nothing. *)
simulate_fill_of_nothing(side, size, limit, book) ==
  LET level == Opposite(side, book)
      filled == FilledSize(size, level.depth)
  IN  IF ~Marketable(side, limit, level.price) THEN None
      ELSE LET price == quantize_price(level.price)
           IN  [size |-> filled, price |-> price, fee |-> Fee(filled, price)]

simulate_fill(side, size, limit, book) ==
  LET level == Opposite(side, book)
      filled == FilledSize(size, level.depth)
  IN  IF ~Marketable(side, limit, level.price) \/ filled <= 0 THEN None
      ELSE LET price == quantize_price(level.price)
           IN  [size |-> filled, price |-> price, fee |-> Fee(filled, price)]
=============================================================================
