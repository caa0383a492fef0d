--------------------------- MODULE MCBeneficiaries ---------------------------
(***************************************************************************)
(* Instance for TLC: four wallets, three places in the array, 100% = 4.    *)
(***************************************************************************)
EXTENDS Beneficiaries

CONSTANTS a, b, c, d

\* Shares that fit, that fill the plan, and that no plan accepts.
MCShareInputs == {0, 1, 2, 4, 5}

\* Complete lists, and lists that the validation refuses: empty, of two
\* lengths, incomplete, naming a wallet twice, too long, with a zero wallet.
MCLists == {
    << <<a>>, <<4>> >>,
    << <<b, a>>, <<1, 3>> >>,
    << <<c, a, b>>, <<2, 1, 1>> >>,
    << <<d, c, b>>, <<1, 1, 2>> >>,
    << <<>>, <<>> >>,
    << <<a, b>>, <<4>> >>,
    << <<a, c>>, <<1, 2>> >>,
    << <<a, a>>, <<2, 2>> >>,
    << <<a, b, c, d>>, <<1, 1, 1, 1>> >>,
    << <<a, None>>, <<2, 2>> >> }
=============================================================================
