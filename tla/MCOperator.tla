----------------------------- MODULE MCOperator -----------------------------
\* A small instance of Operator: two images, one environment variable.
EXTENDS Operator

=============================================================================
