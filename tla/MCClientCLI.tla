---------------------------- MODULE MCClientCLI ----------------------------
(* Every line of up to seven spaces, names and "chat"s by itself, and       *)
(* inputs of up to three lines with every command, well-formed or not.      *)
EXTENDS ClientCLI

MCKeyword ==
  [ping |-> 1, login |-> 2, register |-> 3, chat |-> 4, check |-> 5, quit |-> 6]

MCLines ==
  {<< >>, <<1>>, <<1, 0>>, <<2, 0, 7, 0, 8>>, <<2, 0, 7>>, <<3, 0, 7, 0, 8>>,
   <<4, 0, 7, 0, 8, 0>>, <<4, 0, 7, 0, 7, 0, 8>>, <<5>>, <<6>>, <<6, 0, 1>>}

MCInputs ==
  {<<line>> : line \in BoundedSeq({0, 4, 7}, 7)} \cup BoundedSeq(MCLines, 3)

MCText == {<<8, 1>>, <<7>>, <<0, 9>>}
MCResponses == {RequestOf("Success", << >>), RequestOf("Failure", <<<<8, 1>>>>)}
MCChats == {RequestOf("ReceiveChat", <<<<7>>, <<0, 9>>>>)}
=============================================================================
