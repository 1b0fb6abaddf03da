---------------------------- MODULE MCRipemd160 ----------------------------
EXTENDS Ripemd160

\* The key 02 79be667e...16f81798, of the secret 1: the words of its SHA-256,
\* and of its well-known hash 751e76e8...43f1433bd6.
KeySha == << <<44891, 28943>>, <<54062, 19549>>, <<61276, 30761>>, <<63330, 58665>>,
             <<41672, 34868>>, <<22460, 40379>>, <<54625, 45824>>, <<21509, 39755>> >>
KeyHash == << <<59510, 7797>>, <<54422, 37145>>, <<17692, 37972>>, <<9123, 46033>>, <<54843, 17393>> >>
=============================================================================
