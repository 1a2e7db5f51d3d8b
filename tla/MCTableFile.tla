------------------------------ MODULE MCTableFile ------------------------------
(* Values of the constants of TableFile.                                   *)
EXTENDS TableFile

MCRecords ==
  [notes      |-> {[ok |-> TRUE, type |-> 17, name |-> <<3>>, desc |-> << >>],
                   [ok |-> TRUE, type |-> 1, name |-> <<3, 4>>, desc |-> <<5>>]},
   array      |-> {7, 20},
   dynamic    |-> {[ok |-> TRUE, tag |-> DT_NEEDED, value |-> 0, str |-> <<3>>],
                   [ok |-> TRUE, tag |-> DT_INIT, value |-> 20, str |-> << >>],
                   [ok |-> TRUE, tag |-> DT_NULL, value |-> 0, str |-> << >>]},
   attributes |-> {<< <<3>>, <<4>> >>, << <<3>>, <<EQUALS>> >>},
   versions   |-> {1, 18},
   needed     |-> {}]

MCNeeded ==
  << [version |-> 1, file |-> <<3>>, hash |-> 7, other |-> 2, dep |-> <<3>>],
     [version |-> 1, file |-> <<4, 5>>, hash |-> 9, other |-> 3, dep |-> <<4, 5>>] >>

==============================================================================
