------------------------------ MODULE MCStore -------------------------------
(* Constants of the store for TLC. *)
EXTENDS StoreProperties

\* A filter lets the frames with odd, or with even, serial numbers pass.
MCMatches(f, frame) == (frame.seq % 2 = 1) = (f = "odd")
MCFilters == {"odd", "even"}
MCOneFilter == {"odd"}

\* Two readers; one reader and one writer.
TwoReaders(i) == {"reader", "failed"}
ReaderWriter(i) == IF i = 1 THEN {"reader"} ELSE {"writer", "failed"}

\* How many layers the readers return.
Two(i) == 2
Three(i) == 3
TwoAndOne(i) == IF i = 1 THEN 2 ELSE 1
=============================================================================
