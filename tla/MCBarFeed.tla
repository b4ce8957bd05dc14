------------------------------ MODULE MCBarFeed ------------------------------
EXTENDS BarFeed

\* A strategy whose direction turns with every minute that is filled in or
\* replaced by REST's.
MCVerdict(minutes) ==
  LET With(source) == Cardinality({m \in DOMAIN minutes : minutes[m] = source})
      turns == With("ws") + 2 * With("rest") + With("quiet")
  IN CASE turns % 3 = 0 -> "long" [] turns % 3 = 1 -> "none" [] OTHER -> "short"
=============================================================================
