------------------------------ MODULE MCSessions ------------------------------
(* Instances of the sessions for TLC: one account with a session and an      *)
(* administrator, or an account that is still to be registered.              *)
EXTENDS Sessions, TLC

CONSTANTS r1, r2, r3, r4, ann, boss, eve

MCSeedPassword == [u \in {ann, boss} |-> "old"]
MCSeedName == [u \in {ann, boss} |-> "short"]

Change(cur, new) ==
    [op |-> "changePassword", caller |-> ann,
     current |-> cur, new |-> new, confirm |-> new]

SessionCalls ==
    [op : {"login"}, user : {ann}, password : {"old"}]
    \cup [op : {"refresh"}, token : [user : {ann}, at : Seconds]]
    \cup [op : {"logout"}, caller : {ann}]
    \cup {Change("old", "new"), Change("old", "old")}
    \cup [op : {"setActive"}, caller : {boss}, target : {ann}, isActive : BOOLEAN]
    \cup {[op |-> "setActive", caller |-> boss, target |-> eve, isActive |-> FALSE],
          [op |-> "register", user |-> eve, name |-> "short", password |-> "new"],
          [op |-> "updateProfile", caller |-> ann, name |-> "long"]}

DeviceCalls == [op : {"login"}, user : {ann}, password : Passwords]

Symmetry == Permutations(Requests)

==============================================================================
