------------------------------ MODULE MCPublish ------------------------------
(* Publish on one group; source a streams too, as Binance does.            *)
EXTENDS Publish

TwoFiles == {<<1, "a">>, <<1, "b">>}
OneFile == {<<1, "a">>}
OneStream == {"a"}
=============================================================================
