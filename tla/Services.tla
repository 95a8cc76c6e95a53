------------------------------ MODULE Services ------------------------------
(***************************************************************************)
(* What the main functions of the services do (services/*/cmd/*/main.go):  *)
(* the steps before a service serves, in their order, what it serves, what *)
(* becomes of the service when its background worker returns, and how it   *)
(* stops on SIGTERM.                                                       *)
(*                                                                         *)
(* Steps:  "config"    environment, loggers, lazy clients: an error ends   *)
(*                     the process                                         *)
(*         "listen"    the port                                            *)
(*         "query"     one call that must succeed                          *)
(*         "db"        db.Open                                             *)
(*         "store"     Postgres, or memory outside production              *)
(*         "nats"      natsconn.Connect, required                          *)
(*         "natsprod"  required in production                              *)
(*         "natsopt"   never required                                      *)
(* Worker: "exits"     an error ends the process at once                   *)
(*         "stops"     an error stops the service as SIGTERM does          *)
(*         "logs"      an error ends the worker and nothing else           *)
(*         "retries"   errors are logged and the loop goes on              *)
(* Stop:   "graceful"  GracefulStop, after ten seconds Stop, then the end  *)
(*         "exit"      the process ends without waiting for its calls      *)
(***************************************************************************)
EXTENDS Sequences

Main(start, server, worker, stop) ==
    [start |-> start, server |-> server, worker |-> worker, stop |-> stop]

AuthMain == Main(<<"config", "db", "config", "query", "listen">>, "grpc", "none", "graceful")

CatalogMain == Main(<<"config", "db", "listen", "nats">>, "grpc", "stops", "graceful")

ActivityMain == Main(<<"config", "db", "listen", "natsopt">>, "grpc", "retries", "graceful")

SearchMain == Main(<<"config", "listen", "nats", "config", "query">>, "grpc", "exits", "graceful")

ResolverMain == Main(<<"config", "listen", "config">>, "grpc", "none", "graceful")

\* Ratings and comments choose their store one after the other; gRPC and HTTP.
SocialMain == Main(<<"config", "store", "store", "listen", "natsopt">>, "http", "retries", "exit")

BillingMain == Main(<<"config", "store", "config", "natsprod">>, "http", "none", "exit")

IngestionMain == Main(<<"config", "nats", "config", "query">>, "http", "logs", "exit")

StreamingMain == Main(<<"config">>, "http", "none", "exit")

\* ListenAndServe returns as soon as Shutdown begins, and main with it.
HLSProxyMain == Main(<<"config">>, "http", "none", "exit")

BFFMain == Main(<<"config", "nats", "config">>, "http", "none", "exit")

\* No server: main is the consumer's loop.
AnalyticsMain == Main(<<"config", "nats", "query">>, "none", "retries", "exit")

Mains ==
    {AuthMain, CatalogMain, ActivityMain, SearchMain, ResolverMain, SocialMain, BillingMain,
     IngestionMain, StreamingMain, HLSProxyMain, BFFMain, AnalyticsMain}
=============================================================================
