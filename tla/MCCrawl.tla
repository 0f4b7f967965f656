------------------------------ MODULE MCCrawl ------------------------------
(* A site of six pages for TLC, one of them with two URLs. *)
EXTENDS Crawl

Url(scheme, host, path, fragment) ==
  [scheme |-> scheme, host |-> host, path |-> path, fragment |-> fragment]

Home == <<"example", "com">>
Root == Url("https", Home, <<"/">>, "")
A == Url("https", Home, <<"/", "a">>, "")
AHash == Url("https", Home, <<"/", "a">>, "x")
B == Url("https", <<"www", "example", "com">>, <<"/", "b">>, "")
C == Url("https", Home, <<"/", "c">>, "")
D == Url("https", Home, <<"/", "d">>, "")
E == Url("https", Home, <<"/", "e">>, "")
Outside == Url("https", <<"example", "org">>, <<"/">>, "")
Mail == Url("mailto", <<>>, <<"/">>, "")

TheUrls == {Root, A, AHash, B, C, D, E, Outside, Mail}
TheScope == [host |-> Home, subdomains |-> TRUE, prefix |-> <<"/">>]

\* Two ways to D, the longer of them over two pages; cycles, and links that are
\* out of scope.
TheSites ==
  {[links |-> (Root :> r) @@ (A :> <<Mail, D>>) @@ (B :> <<C>>) @@ (C :> <<D, Root>>) @@ (D :> <<AHash, E>>)
               @@ (E :> <<>>) @@ (Outside :> <<>>) @@ (Mail :> <<>>),
    rules |-> k] :
     r \in {<<A, Outside, B>>}, k \in {{A.path}}}

TheReplies ==
  {[kind |-> "answer", code |-> 200, hops |-> 0, size |-> 1, type |-> "html", tag |-> "page"],
   [kind |-> "timeout", code |-> 0, hops |-> 0, size |-> 0, type |-> "none", tag |-> "none"]}

=============================================================================
