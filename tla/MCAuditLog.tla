----------------------------- MODULE MCAuditLog -----------------------------
\* The log on a small instance: interchangeable handles and receipts.
EXTENDS AuditLog

Symmetry == Permutations(Handles) \cup Permutations(Receipts)
=============================================================================
