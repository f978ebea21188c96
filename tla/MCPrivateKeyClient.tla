------------------------- MODULE MCPrivateKeyClient -------------------------
(* Instances of PrivateKeyClient for TLC. *)
EXTENDS PrivateKeyClient

ByAge == [key_ids |-> <<>>, keys |-> {1, 2}, kinds |-> {"split", "single"},
          fetch_may_fail |-> TRUE, kms |-> {"later"},
          concurrent |-> FALSE, logging |-> FALSE]

\* The case of a key that some endpoint does not have, with a logger.
ByAgeLogged == [ByAge EXCEPT !.keys = {1}, !.logging = TRUE]

ById == [key_ids |-> <<1, 2>>, keys |-> {1, 2}, kinds |-> {"split"},
         fetch_may_fail |-> FALSE, kms |-> {"later"},
         concurrent |-> FALSE, logging |-> TRUE]

OneById == [ById EXCEPT !.key_ids = <<1>>,
                        !.kinds = {"split", "odd", "short", "single", "bad"}]

\* Callbacks that race each other: the AWS clients, and the GCP client.
Racing == [key_ids |-> <<1>>, keys |-> {1}, kinds |-> {"split", "short", "bad"},
           fetch_may_fail |-> TRUE, kms |-> {"later", "error"},
           concurrent |-> TRUE, logging |-> FALSE]

RacingByAge == [key_ids |-> <<>>, keys |-> {1}, kinds |-> {"split", "single"},
                fetch_may_fail |-> FALSE, kms |-> {"later", "now"},
                concurrent |-> TRUE, logging |-> FALSE]

ListScenarios == {ByAge, ByAgeLogged, ById, OneById, Racing, RacingByAge}
=============================================================================
