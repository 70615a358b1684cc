---------------------------- MODULE MCUpdateSweep ----------------------------
(* Small catalogues for UpdateSweep. *)
EXTENDS UpdateSweep, TLC

\* Two franchises, of two and of one entry, and an entry both list.
Crossover == (1 :> "a") @@ (2 :> "a") @@ (3 :> "b")
CrossoverRelated == (1 :> {2, 4}) @@ (2 :> {1}) @@ (3 :> {4}) @@ (4 :> {1, 3})

\* One franchise with two seasons, each listing an entry of its own.
TwoSeasons == (1 :> "a") @@ (2 :> "a")
TwoSeasonsRelated == (1 :> {2}) @@ (2 :> {1, 3}) @@ (3 :> {2})

Ageing == {<<"airing", "finished">>, <<"finished", "gone">>}
Failing == {<<"finished", "broken">>, <<"finished", "hentai">>, <<"airing", "finished">>, <<"airing", "gone">>}
Turning == {<<"finished", "gone">>, <<"finished", "hentai">>}
=============================================================================
