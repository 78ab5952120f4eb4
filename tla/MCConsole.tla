------------------------------- MODULE MCConsole -------------------------------
(* Instances of Console for TLC.                                               *)
EXTENDS Console, TLC

CONSTANTS u1, u2, e1, s1

(* Nothing in the tables but an administrator.                                 *)
Bare ==
    [users |-> [u \in User |-> IF u = u1 THEN <<NewUser("admin", FALSE)>> ELSE <<>>],
     projects |-> <<>>, place |-> [t \in 1 .. Tables |-> None],
     pipelines |-> [e \in Event |-> {}], settings |-> [s \in Setting |-> 0],
     offers |-> {}, calls |-> 0, restarts |-> 0]

Ask(op, on, arg) == [op |-> op, on |-> on, arg |-> arg]

(* Two administrators edit each other's accounts; an account comes by sign-on. *)
Staff ==
    [Bare EXCEPT !.users = [u \in User |-> <<NewUser("admin", FALSE)>>], !.calls = 4, !.restarts = 1,
        !.offers = {Ask(op, u, None) : op \in {"delete_user", "sso"}, u \in User}
                     \cup {Ask("update_user", u, a) : u \in User, a \in {"viewer", None}}
                     \cup {Ask("create_user", u2, "operator")}]

(* Passwords are tried on an account that is unlocked, deleted and made again. *)
Tries ==
    [Bare EXCEPT !.users = [u \in User |-> <<NewUser(IF u = u1 THEN "admin" ELSE "operator", FALSE)>>],
        !.calls = 5,
        !.offers = {Ask(op, u2, None) : op \in {"login", "unlock", "delete_user"}}
                     \cup {Ask("create_user", u2, "viewer")}]

(* Projects come and go while rows are attached to the default one.            *)
Solutions ==
    [Bare EXCEPT !.calls = 4, !.restarts = 1,
        !.offers = {Ask("list_projects", None, None)}
                     \cup {Ask("create_project", None, FALSE)}
                     \cup {Ask(op, p, FALSE) : op \in {"update_project", "delete_project"}, p \in {3, 4}}
                     \cup {Ask("place", 1, 3)}]

(* The pipelines of an event, with users of two roles.                         *)
Graphs ==
    [Bare EXCEPT !.users = [u \in User |-> <<NewUser(IF u = u1 THEN "operator" ELSE "viewer", FALSE)>>],
        !.pipelines = [e \in Event |-> {[id |-> 10, default |-> FALSE], [id |-> 11, default |-> FALSE]}],
        !.calls = 4,
        !.offers = {Ask(op, e1, None) : op \in {"list_pipelines", "handle_event", "create_pipeline"}}
                     \cup {Ask("delete_pipeline", e1, p) : p \in {10, 11}}]

(* A setting that is not in its table yet.                                     *)
Settings == [Bare EXCEPT !.calls = 4, !.offers = {Ask("upsert_setting", s1, None)}]

Requests == Permutations(Req)

Systems == {Staff, Tries, Solutions, Graphs, Settings}
=============================================================================
