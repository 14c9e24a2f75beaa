------------------------------- MODULE MCPanel -------------------------------
(***************************************************************************)
(* The parts of Panel on small instances.                                   *)
(***************************************************************************)
EXTENDS Panel, TLC

Symmetry == Permutations(Cells)

Heated(heaters) == [heaters |-> heaters, spindle |-> NoSpindle]
Spun(s) == [heaters |-> <<>>, spindle |-> s]
MCFirstMachines == {
    \* as many tools as there are columns, so that none is left for a chamber;
    \* one has both
    Machine([t \in {1, 2, 3} |-> CASE t = 1 -> [Spun(1) EXCEPT !.heaters = <<1, 2>>]
                                   [] t = 2 -> Heated(<<1>>)
                                   [] t = 3 -> Heated(<<>>)],
            {1}, <<>>, [c \in {0} |-> 0])
    }
MCMachines == MCFirstMachines \cup {
    \* lower numbers, and a heater too many
    Machine([t \in {0, 1} |-> IF t = 0 THEN Heated(<<1, 2, 3>>) ELSE Spun(0)],
            {0}, <<>>, [c \in {1} |-> 0]),
    \* one tool between two beds
    Machine([t \in {1} |-> Heated(<<1>>)], {0}, [b \in {0, 1} |-> 3 * b], <<>>),
    \* only another spindle: the lists of tools and chambers become empty
    Machine(<<>>, {0}, <<>>, <<>>)
    }

\* The first file holds pictures too big, in another format, and a small
\* one after the best, the second two of which neither is the bigger one.
MCImages ==
    LET image(w, h, format, pieces) ==
            [width |-> w, height |-> h, format |-> format, pieces |-> pieces]
    IN  [f1 |-> <<image(1, 1, "qoi", 1), image(3, 5, "qoi", 2),
                  image(4, 4, "jpg", 2), image(2, 2, "qoi", 2),
                  image(1, 1, "qoi", 1)>>,
         f2 |-> <<image(2, 3, "qoi", 3), image(3, 2, "qoi", 1)>>]

\* None, too short to hear, as long as may be, longer, and a negative number.
MCLengths == {-1, 0, 2, 5, 9}
=============================================================================
