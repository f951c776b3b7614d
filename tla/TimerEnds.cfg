\* Two orders, one sweep that takes one order at a time; nobody has to answer.
SPECIFICATION FairSpec
CONSTANTS
  Orders = {o1, o2}
  Sweepers = {w1}
  Timeout = 2
  Configured = 2
  MaxApproval = 1
  Batch = 1
  MaxLag = 1
  MaxProposals = 1
PROPERTIES WindowRespected ProposalsEnd SilenceEnds
