------------------------------ MODULE MC_Prices ------------------------------
(***************************************************************************)
(* An item "modulo a32" sold by two stores on two days and by four on the  *)
(* last, at prices that agree, tie, move by about one percent or are out   *)
(* of line, under titles that are sure, doubtful or odd in several ways.   *)
(***************************************************************************)
EXTENDS Prices

MCWord == {"modulo", "modulos", "a32", "a33", "de", "funda", "vidrio", "flex", "bateria", "oled", "incell"}
MCAlike == {<<"modulo", "modulos">>}
MCSignals == [t \in ToSet(TierOrder) |-> CASE t = "oled" -> {"oled"} [] t = "incell" -> {"incell"} [] OTHER -> {}]
MCQuery == <<"modulo", "de", "a32">>

Listing(id, title, price) == [id |-> id, title |-> title, price |-> price]
Oled(price)  == Listing("oled", <<"modulo", "a32", "oled">>, price)
Plain(price) == Listing("plain", <<"modulos", "a32">>, price)
Doubt(price) == Listing("doubt", <<"modulo", "a32", "vidrio", "oled">>, price)
Odd(title)   == Listing("odd", title, 500)

OddTitles == {<<"modulo", "a33", "oled">>, <<"vidrio", "a32">>, <<"bateria", "a32", "modulo">>,
              <<"a32", "flex", "modulo">>, <<"funda", "modulo", "a32">>, <<"funda", "a32">>,
              <<"modulos", "a32", "vidrio">>, <<"de", "a32">>}

MCAnswers ==
  <<[s1 |-> {{Oled(1000)}, {Oled(1000), Doubt(800)}},
     s2 |-> {{Oled(1200)}, {Oled(1010)}}, s3 |-> {{}}, s4 |-> {{}}],
    [s1 |-> {{Oled(1000)}} \cup {{Odd(t)} : t \in OddTitles}, s2 |-> {{Oled(1018)}}, s3 |-> {{}}, s4 |-> {{}}],
    [s1 |-> {{}}, s2 |-> {{}}, s3 |-> {{}}, s4 |-> {{}}],
    [s1 |-> {{Oled(1000)}, {Oled(400)}}, s2 |-> {{Oled(1010), Plain(900)}, {Oled(300), Doubt(300)}},
     s3 |-> {{Oled(2500)}, {Plain(950)}}, s4 |-> {{Oled(1000)}, {Oled(9000)}}]>>

MCAnswersOn == [d \in 0..3 |-> MCAnswers[d + 1]]

=============================================================================
