----------------------------- MODULE MCLifecycle -----------------------------
EXTENDS Lifecycle

=============================================================================
