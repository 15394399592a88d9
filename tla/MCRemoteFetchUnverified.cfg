SPECIFICATION Spec
CONSTANTS
  Requests = {r1, r2}
  Downloads = {d1}
  MaxRestarts = 0
  OnDisk <- MCEmpty
  Calm = {FALSE}
INVARIANT ServedAsListed
