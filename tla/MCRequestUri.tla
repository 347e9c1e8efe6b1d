----------------------------- MODULE MCRequestUri -----------------------------
(* Small instances of RequestUri for TLC: S is X-Amz-Signature, K one of   *)
(* the other names.                                                        *)
EXTENDS RequestUri

\* / . ? a space + \ %2e %2F %5c %61 and an escape cut short.
SomePieces == {
  <<47>>, <<46>>, <<63>>, <<97>>, <<32>>, <<43>>, <<92>>,
  <<37, 50, 101>>, <<37, 50, 70>>, <<37, 53, 99>>, <<37, 54, 49>>, <<37, 50>> }

\* "/", "/a", "/a/", "/%61" and "/a/.."
SomePrefixes == {<<47>>, <<47, 97>>, <<47, 97, 47>>, <<47, 37, 54, 49>>, <<47, 97, 47, 46, 46>>}

S == <<83>>
K == <<75>>

KOnly == {K}

\* S and K and their escapes, an escape of |
Names == {S, <<37, 53, 51>>, K, <<37, 52, 98>>, <<37, 55, 99>>}

\* No equals sign, no value, a, |, a=, %61, a byte that is not UTF-8, one
\* letter of two bytes, an escape cut short
Values == {<<>>} \cup {<<61>> \o v :
  v \in {<<>>, <<97>>, <<124>>, <<97, 61>>, <<37, 54, 49>>, <<37, 70, 70>>,
         <<37, 67, 51, 37, 65, 57>>, <<37>>}}

\* No name and a name cut short come without a value and with an empty one.
SomeParams ==
  {name \o value : name \in Names, value \in Values}
    \cup {name \o value : name \in {<<>>, <<37, 52>>}, value \in {<<>>, <<61>>}}

\* Five pieces and no parameter, two and one, one and two, none and three.
Budget == <<5, 2, 1, 0>>
===============================================================================
