----------------------------- MODULE MCRouting ------------------------------
(***************************************************************************)
(* A cluster for Routing: two ingresses of a selected namespace that can   *)
(* be almost anything, and one of a namespace that is not selected.        *)
(***************************************************************************)
EXTENDS Routing, TLC

MCNamespaceOf == <<"a", "a", "b">>
MCSelectors   == {<<"team", "x">>}
MCLabels      == [a |-> {<<"team", "x">>, <<"env", "y">>}, b |-> {<<"team", "z">>}]
MCAddresses   == (<<"a", "s">> :> {1, Absent}) @@ (<<"a", "u">> :> {Headless}) @@ (<<"a", "t">> :> {2})
                   @@ (<<"b", "s">> :> {3})

\* Index in RawPaths.
Illegal == 3
SlashA  == 5
Nothing == 6

Path(path, service, port) == [path |-> path, service |-> service, port |-> port]
Rule(host, paths) == [host |-> host, http |-> TRUE, paths |-> paths]

Plain ==
  [class |-> "ours", exact |-> Absent, strip |-> Absent, allow |-> Absent, timeout |-> Absent,
   maxConnections |-> Absent, blocks |-> Absent,
   rules |-> <<Rule(1, <<Path(SlashA, "s", 80)>>)>>]

WithPaths(paths) == [Plain EXCEPT !.rules = <<Rule(1, paths)>>]
WithPath(path) == WithPaths(<<Path(path, "s", 80)>>)

Exact(ingress) == [ingress EXCEPT !.exact = "true"]

MCShapes ==
  LET selected ==
        {Absent, Plain, Exact(WithPath(SlashA))}
        \cup {WithPath(p) : p \in DOMAIN RawPaths}
        \cup {Exact(WithPath(p)) : p \in {2, 4, Nothing}}
        \cup {[Plain EXCEPT !.class = c] : c \in {Absent, "theirs"}}
        \cup {[Plain EXCEPT !.allow = a] : a \in {{}, InvalidAllow}}
        \cup {[Plain EXCEPT !.blocks = b] : b \in {Garbage, 99}}
        \cup {[Plain EXCEPT !.exact = "perhaps", !.strip = "true", !.maxConnections = 7]}
        \cup {WithPaths(ps) : ps \in {
               <<Path(SlashA, "t", 80), Path(SlashA, "s", 80)>>,
               <<Path(SlashA, "s", 55296), Path(SlashA, "s", 55297)>>,
               <<Path(SlashA, "s", 0), Path(Nothing, "missing", 80), Path(SlashA, "u", 80)>>,
               <<Path(4, "t", 81), Path(SlashA, "s", 80)>>,
               <<Path(2, NoService, 0)>>}}
        \cup {[Plain EXCEPT !.rules = rs] : rs \in {
               <<[host |-> 1, http |-> FALSE, paths |-> <<>>], Rule(NoHost, <<Path(2, "s", 80)>>),
                 Rule(2, <<Path(2, "s", 80)>>)>>}}
  IN <<selected, selected, {Absent, Plain}>>
=============================================================================
