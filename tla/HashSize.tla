------------------------------ MODULE HashSize ------------------------------
(* hcreate_r() of lib/hashtable.c: the size of a hash table for nel         *)
(* entries.                                                                 *)
EXTENDS Integers

isprimeSkipsThree(number) == number % 5 # 0

(* The loop of isprime() ends at the first odd div that divides the number  *)
(* or has a square not below it.                                            *)
isprime(number) ==
  LET last == CHOOSE div \in 3 .. number + 3 :
        /\ div % 2 = 1
        /\ div * div >= number \/ number % div = 0
        /\ \A d \in 3 .. div - 1 :
             d % 2 = 1 => d * d < number /\ number % d # 0
  IN number % last # 0

(* The first odd number not below nel that passes; 2 * nel + 3 is far       *)
(* enough to meet one.                                                      *)
hcreate_r(nel) ==
  CHOOSE n \in nel .. 2 * nel + 3 :
    /\ n % 2 = 1 /\ isprime(n)
    /\ \A m \in nel .. n - 1 : m % 2 = 1 => ~isprime(m)
=============================================================================
