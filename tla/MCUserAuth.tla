----------------------------- MODULE MCUserAuth -----------------------------
(***************************************************************************)
(* Instances of UserAuth for TLC: the configurations of the runs.          *)
(***************************************************************************)
EXTENDS UserAuth

NoLists == <<>>
TwoLists == << <<"publickey", "password">>, <<"publickey", "publickey">>,
               <<"hostbased">>, <<"keyboard-interactive", "password">> >>
UnusableList == << <<"keyboard-interactive">> >>

\* Configurations in which the two processes agree.
AgreeingConfigs ==
  [lists : {NoLists}, root : RootPolicies, empty : BOOLEAN] \cup
  [lists : {TwoLists, UnusableList}, root : {"yes", "without-password"}, empty : {FALSE}]

=============================================================================
