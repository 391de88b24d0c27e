------------------------------ MODULE MCFunding ------------------------------
EXTENDS Funding

\* Every item has any of the methods.
AnyMethod == [Items -> Deposits \union Withdrawals]

\* Deposits that a provider's webhook credits.
PaidByWebhook == [Items -> {"oxapay"}]
=============================================================================
