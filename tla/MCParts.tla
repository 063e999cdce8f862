------------------------------ MODULE MCParts ------------------------------
(***************************************************************************)
(* One name that is forbidden and came with the request, and one whose     *)
(* values are numbers, which are normalised.  Numbers of sockets around    *)
(* every limit and around 2^32.  A manifest that the engine refuses, and   *)
(* one with a single source that cannot be read now and then.              *)
(***************************************************************************)
EXTENDS Parts

MCParsed ==
  [x \in Name \X Raw |-> IF x[1] = "host" THEN "x"
                         ELSE IF x[2] = "05" THEN "5" ELSE BadValue]

MCRequestMap == [n \in Name |-> IF n = "host" THEN <<"x">> ELSE <<>>]
MCFetching ==
  [m \in Manifest |-> {Fetched} \cup IF m = "flaky" THEN {"timeout"} ELSE {}]
MCApplying == [m \in Manifest |-> {IF m = "bad" THEN "refused" ELSE Applied}]
=============================================================================
