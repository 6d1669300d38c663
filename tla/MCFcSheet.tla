------------------------------ MODULE MCFcSheet ------------------------------
(* FcSheet with a library of one block type and one stored page. *)
EXTENDS FcSheet

MCLibrary == [t \in {"add"} |-> [inputs |-> {"IN"}, outputs |-> {"OUT"}]]
MCPoints  == {<<"AI", 1>>}

Blank == [blocks |-> <<>>, constants |-> <<>>,
          interface |-> [dir \in Dirs |-> <<>>], connections |-> <<>>]

(* A constant that drives a block whose type the library lost, and one of two
   ports. *)
Drawn ==
  [blocks |-> <<[id |-> <<"old", 1>>, type |-> "old", look |-> 0]>>,
   constants |-> <<[id |-> <<"k", 2>>, look |-> 0]>>,
   interface |-> [Blank.interface EXCEPT
                    !["in_out"] = <<[id |-> <<"var", 1>>, look |-> 0],
                                    [id |-> <<"var", 2>>, look |-> 0]>>],
   connections |->
     LET k == [block |-> <<"k", 2>>, port |-> "OUT"] IN
     <<[from |-> k, to |-> [block |-> <<"old", 1>>, port |-> "IN"]],
       [from |-> k, to |-> [block |-> INTERFACE, port |-> <<"var", 2>>]]>>]

MCArrivals == {Drawn}

(* The stored page is sound, and Kept is the filter of SelectSeq. *)
ASSUME MCSheetAssumption ==
  /\ StoredSoundly
  /\ \A n \in 0 .. 4 : \A s \in [1 .. n -> {0, 1, 2}] : \A v \in {0, 1, 2} :
       LET Other(x) == x # v IN
       Kept(s, {i \in DOMAIN s : Other(s[i])}) = SelectSeq(s, Other)
================================================================================
