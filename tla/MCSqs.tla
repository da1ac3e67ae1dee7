------------------------------- MODULE MCSqs -------------------------------
EXTENDS Sqs

=============================================================================
