------------------------------ MODULE MCBringUp -----------------------------
(* The small instance of BringUp for TLC.                                  *)
EXTENDS BringUp

Deployed == [url |-> "postgresql", params |-> "sslmode", public |-> ":8080",
             health |-> ":9090", private_key_file |-> "rs256.key"]

\* The configuration in the repository, one for another database, one with a URL
\* that pgx does not take, and one without an address.
MCConfigs == {Deployed, [Deployed EXCEPT !.url = "mysql"],
              [Deployed EXCEPT !.params = "sslkey only"], [Deployed EXCEPT !.health = ""]}
=============================================================================
