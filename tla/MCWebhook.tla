------------------------------ MODULE MCWebhook ------------------------------
(* The setups of Webhook for TLC. *)
EXTENDS Webhook

CONSTANT Chosen    \* the setups that a run checks

(* Ingresses: names a, b and c, paths "/", "/p" and "/p/". *)
Ing(n, xs, c, f, o) == [name |-> n, paths |-> xs, canary |-> c, flaw |-> f, ours |-> o]

MCSlash == "/" :> "/" @@ "/p" :> "/p/" @@ "/p/" :> "/p/"

Prefix(p) == [path |-> p, type |-> "Prefix"]

Settings == {"inspect", "catchAll", "prefix", "word", "snippet", "rateLimit"}
Asked    == {Prefix("/"), Exactly("/p")}

Good    == {Ing(n, <<x>>, c, "none", TRUE) : n \in {"a", "b"}, x \in Asked,
                                             c \in {"missing", "true"}}
Flawed  == {Ing("a", <<Exactly("/p")>>, "missing", f, TRUE) : f \in Flaws}
Broken  == {Ing("b", <<Prefix("/")>>, c, "nginx", TRUE) : c \in {"missing", "true"}}
Foreign == {Ing("b", <<Exactly("/p")>>, "missing", f, FALSE) : f \in {"nginx", "word"}}
AnyKind == Good \cup Flawed \cup Broken \cup Foreign
Plain   == {g \in Good : g.canary = "missing"} \cup
           {Ing("c", <<Exactly("/p")>>, "true", "none", TRUE)}
Mixed   == {Ing(n, <<x>>, "missing", "none", TRUE) :
               n \in {"a", "b", "c"},
               x \in {Prefix("/"), Exactly("/"), Prefix("/p"), Exactly("/p"), Prefix("/p/")}}

\* Reviews by two clients with a store that lags; reviews one at a time, of the new
\* ingress alone and of all, with types that differ.
AllSetups ==
  [ reviews |-> [clients |-> {"c1", "c2"}, ingresses |-> AnyKind, fullTest |-> TRUE,
                 lag |-> TRUE, writes |-> 3],
    serial  |-> [clients |-> {"c1"}, ingresses |-> Plain, fullTest |-> FALSE, lag |-> FALSE,
                 writes |-> 4],
    mixed   |-> [clients |-> {"c1"}, ingresses |-> Mixed, fullTest |-> TRUE, lag |-> FALSE,
                 writes |-> 4],
    \* Not in the run: the types differ and reviews overlap, or test one ingress alone.
    racing  |-> [clients |-> {"c1", "c2"}, ingresses |-> Mixed, fullTest |-> TRUE,
                 lag |-> FALSE, writes |-> 2],
    single  |-> [clients |-> {"c1"}, ingresses |-> Mixed, fullTest |-> FALSE, lag |-> FALSE,
                 writes |-> 2] ]

MCSetups == [x \in Chosen \cap DOMAIN AllSetups |-> AllSetups[x]]

(* Command lines of the patch job: as the chart calls it, with everything there *)
(* is, with the APIService only, and lines that are refused.                    *)
Line(m, v, n, a, p) == [mutating |-> m, validating |-> v, name |-> n, api |-> a, policy |-> p]

Lines == {Line(FALSE, TRUE, TRUE, FALSE, "Fail"), Line(TRUE, TRUE, TRUE, TRUE, "Fail"),
          Line(FALSE, FALSE, FALSE, TRUE, "")}
Refused == {Line(TRUE, TRUE, TRUE, TRUE, "Deny"), Line(FALSE, FALSE, TRUE, TRUE, "Fail"),
            Line(FALSE, FALSE, TRUE, FALSE, "")}

\* Jobs that run together; the jobs of an installation and an upgrade with Helm.
AllJobSetups ==
  [ together |-> [creators |-> {"c1", "c2"}, patchers |-> {"p1", "p2"},
                  flags |-> Lines \cup Refused, secrets |-> {None, NoKey, 1},
                  ordered |-> FALSE, backoff |-> 1, faults |-> 1, rounds |-> 1],
    helm     |-> [creators |-> {"c1"}, patchers |-> {"p1"}, flags |-> Lines,
                  secrets |-> {None, 1}, ordered |-> TRUE, backoff |-> 2, faults |-> 2,
                  rounds |-> 2] ]

MCJobSetups == [x \in Chosen \cap DOMAIN AllJobSetups |-> AllJobSetups[x]]

\* With fewer disturbances than restarts, the jobs of an installation end well (create, patch).
Installed == setup = "helm" => Certgen!Installed

-----------------------------------------------------------------------------
(* Promises that the code does not keep (README, section 4) *)

\* NGINX accepts the configuration of the stored ingresses (HandleAdmission).
LoadsAlways == OfReviews => ConfigurationLoads

\* No two stored ingresses ask for the same (checkOverlap).
NoOverlapAlways == OfReviews => NoOverlap
=============================================================================
