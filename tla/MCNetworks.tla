----------------------------- MODULE MCNetworks -----------------------------
(***************************************************************************)
(* NetworkCycle with networks of two to four layers: hidden layers that    *)
(* agree and that do not, a layer of one neuron, an input and an output    *)
(* that do not fit the lines of the data set.                              *)
(***************************************************************************)
EXTENDS NetworkCycle

MCShapes == {<<2, 2>>, <<2, 3, 2>>, <<2, 2, 2, 2>>, <<3, 1, 2, 1>>,
             <<1, 2, 1, 3>>, <<3, 1>>, <<3, 2>>}
MCColumns == <<4, 4, 4>>
=============================================================================
